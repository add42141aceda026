SPECIFICATION ThreadSpec
CONSTANTS Callers = {a, b}
          Tasks = {t1}
PROPERTY StoppedThreadEnds
CHECK_DEADLOCK FALSE

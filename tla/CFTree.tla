------------------------------- MODULE CFTree -------------------------------
(***************************************************************************)
(* CFTree (CFTree.c): nodes linked by _parent, _child, _sibling and         *)
(* _rightmostChild, and the operations that relink them, against the        *)
(* sequences of children they stand for.  The assertions of the code are    *)
(* taken as what clients observe: a node that is inserted has no parent.    *)
(***************************************************************************)
EXTENDS Integers, Sequences, SequencesExt, FiniteSets

CONSTANTS Nodes, Rank   \* Rank: the order the comparator of CFTreeSortChildren gives

NULL == "NULL"

ASSUME TreeAssumption == Rank \in [Nodes -> Int] /\ IsFiniteSet(Nodes) /\ NULL \notin Nodes

VARIABLES
    link,  \* of each node: parent, child, sibling, rightmostChild
    kids   \* the children of each node, in order, as the client sees them

treeVars == <<link, kids>>

TreeInit ==
    /\ link = [n \in Nodes |-> [parent |-> NULL, child |-> NULL, sibling |-> NULL,
                                rightmostChild |-> NULL]]
    /\ kids = [n \in Nodes |-> <<>>]

\* a is n, or _parent leads from n to a: it is in every set that holds n and the
\* parents of what it holds.  Clients do not make a tree a descendant of itself.
Above(a, n) == \A S \in SUBSET Nodes :
                  n \in S /\ (\A m \in S : link[m].parent \in S \cup {NULL}) => a \in S
Orphan(t, n) == link[n].parent = NULL /\ link[n].sibling = NULL /\ ~Above(n, t)

\* The nodes reached from n by _sibling
Siblings(n) ==
    {m \in Nodes : \A S \in SUBSET Nodes :
                     n \in S /\ (\A k \in S : link[k].sibling \in S \cup {NULL}) => m \in S}

\* The place of t among the children of p
Place(p, t) == CHOOSE i \in DOMAIN kids[p] : kids[p][i] = t

\* The child whose _sibling is t
Previous(t) == CHOOSE m \in Nodes : link[m].sibling = t

CFTreePrependChild(t, n) ==
    /\ Orphan(t, n)
    /\ link' = [link EXCEPT ![n].parent = t, ![n].sibling = link[t].child,
                            ![t].rightmostChild = IF link[t].child = NULL THEN n ELSE @,
                            ![t].child = n]
    /\ kids' = [kids EXCEPT ![t] = <<n>> \o @]

CFTreeAppendChild(t, n) ==
    /\ Orphan(t, n)
    /\ LET last == link[t].rightmostChild
           linked == IF link[t].child = NULL THEN [link EXCEPT ![t].child = n]
                     ELSE [link EXCEPT ![last].sibling = n]
       IN link' = [linked EXCEPT ![n].parent = t, ![n].sibling = NULL, ![t].rightmostChild = n]
    /\ kids' = [kids EXCEPT ![t] = Append(@, n)]

\* n comes after t
CFTreeInsertSibling(t, n) ==
    /\ link[t].parent # NULL /\ Orphan(t, n)
    /\ LET p == link[t].parent
       IN /\ link' = [link EXCEPT ![n].parent = p, ![n].sibling = link[t].sibling,
                                  ![t].sibling = n,
                                  ![p].rightmostChild = IF @ = t THEN n ELSE @]
          /\ kids' = [kids EXCEPT ![p] = InsertAt(@, Place(p, t) + 1, n)]

\* Mutant: the rightmost child is removed and stays the rightmost.
RemoveKeepsRightmost(t) ==
    /\ link[t].parent # NULL
    /\ LET p == link[t].parent
           prev == Previous(t)
       IN link' = IF link[p].child = t
                  THEN [link EXCEPT ![p].child = link[t].sibling,
                                    ![t].parent = NULL, ![t].sibling = NULL]
                  ELSE [link EXCEPT ![prev].sibling = link[t].sibling,
                                    ![t].parent = NULL, ![t].sibling = NULL]
    /\ kids' = [kids EXCEPT ![link[t].parent] = RemoveAt(@, Place(link[t].parent, t))]

CFTreeRemove(t) ==
    /\ link[t].parent # NULL
    /\ LET p == link[t].parent
           prev == Previous(t)
       IN link' = IF link[p].child = t
                  THEN [link EXCEPT ![p].child = link[t].sibling,
                                    ![p].rightmostChild = IF link[t].sibling = NULL THEN NULL ELSE @,
                                    ![t].parent = NULL, ![t].sibling = NULL]
                  ELSE [link EXCEPT ![prev].sibling = link[t].sibling,
                                    ![p].rightmostChild = IF @ = t THEN prev ELSE @,
                                    ![t].parent = NULL, ![t].sibling = NULL]
    /\ kids' = [kids EXCEPT ![link[t].parent] = RemoveAt(@, Place(link[t].parent, t))]

CFTreeRemoveAllChildren(t) ==
    /\ link[t].child # NULL
    /\ LET all == Siblings(link[t].child)
       IN link' = [m \in Nodes |->
                     [link[m] EXCEPT !.child = IF m = t THEN NULL ELSE @,
                                     !.rightmostChild = IF m = t THEN NULL ELSE @,
                                     !.parent = IF m \in all THEN NULL ELSE @,
                                     !.sibling = IF m \in all THEN NULL ELSE @]]
    /\ kids' = [kids EXCEPT ![t] = <<>>]

\* The node after m in the list, NULL after the last
Following(list, m) == IF m = Last(list) THEN NULL
                      ELSE list[1 + CHOOSE i \in DOMAIN list : list[i] = m]

\* The children are put in order, equal ones in any, and linked again
CFTreeSortChildren(t) ==
    /\ link[t].child # NULL
    /\ LET all == Siblings(link[t].child)
           n == Cardinality(all)
       IN /\ n > 1
          /\ \E list \in Bijection(1 .. n, all) :
               /\ \A i, j \in 1 .. n : i < j => Rank[list[i]] <= Rank[list[j]]
               /\ link' = [m \in Nodes |->
                             [link[m] EXCEPT
                                !.child = IF m = t THEN list[1] ELSE @,
                                !.rightmostChild = IF m = t THEN list[n] ELSE @,
                                !.sibling = IF m \in all THEN Following(list, m) ELSE @]]
               /\ kids' = [kids EXCEPT ![t] = list]

TreeNext ==
    \E t \in Nodes :
        \/ \E n \in Nodes : CFTreePrependChild(t, n) \/ CFTreeAppendChild(t, n) \/ CFTreeInsertSibling(t, n)
        \/ CFTreeRemove(t) \/ CFTreeRemoveAllChildren(t) \/ CFTreeSortChildren(t)

TreeSpec == TreeInit /\ [][TreeNext]_treeVars

-----------------------------------------------------------------------------
\* Walking _child and _sibling from t gives the list, _parent leads back from
\* its nodes and from no others, and _rightmostChild is the last of them
Represents(t, list) ==
    /\ link[t].child = (IF list = <<>> THEN NULL ELSE list[1])
    /\ \A i \in DOMAIN list :
         link[list[i]].sibling = (IF i = Len(list) THEN NULL ELSE list[i + 1])
    /\ link[t].rightmostChild = (IF list = <<>> THEN NULL ELSE list[Len(list)])
    /\ \A n \in Nodes : link[n].parent = t <=> \E i \in DOMAIN list : list[i] = n

\* The links stand for the sequences of children, in the order the calls put
\* them; the next CFTreeAppendChild trusts _rightmostChild
TreeIsSequences == \A t \in Nodes : Represents(t, kids[t])
=============================================================================

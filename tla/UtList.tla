------------------------------ MODULE UtList -------------------------------
(***************************************************************************)
(* The two utlist macros the cursor uses, on the pointers they write       *)
(* (lib/utlist.h), run in lockstep with the sequence operators of          *)
(* ContextList.  A list is a head pointer and, for every element, the next *)
(* and prev fields its structure reserves for that list.                   *)
(***************************************************************************)
EXTENDS ContextList

CONSTANTS Element,   \* the structures that can be linked
          NoElement  \* the null pointer

ASSUME PointerAssumption == NoElement \notin Element /\ TANGLED \notin Element

Pointer == Element \cup {NoElement}

VARIABLES listHead, nextOf, prevOf,  \* the pointers
          spelled                    \* the sequence they stand for

listVars == <<listHead, nextOf, prevOf, spelled>>

ListTypeOK ==
  /\ listHead \in Pointer
  /\ nextOf \in [Element -> Pointer]
  /\ prevOf \in [Element -> Pointer]
  /\ spelled \in Seq(Element) \cup {<<TANGLED>>}

-----------------------------------------------------------------------------
\* Mutant: the old head's back pointer, which remembers the last element, is
\* not handed on to the new head.
PrependForgettingLast(x) ==
  /\ nextOf' = [nextOf EXCEPT ![x] = listHead]
  /\ prevOf' = IF listHead = NoElement THEN [prevOf EXCEPT ![x] = x]
             ELSE [prevOf EXCEPT ![x] = listHead, ![listHead] = x]
  /\ listHead' = x

(***************************************************************************)
(* DL_PREPEND2(head, x, prev, next).  The second write to prev may hit the *)
(* element the first one wrote: when x is the head, (head)->prev = (add)   *)
(* overwrites (add)->prev.                                                 *)
(***************************************************************************)
DLPrepend(x) ==
  /\ nextOf' = [nextOf EXCEPT ![x] = listHead]
  /\ prevOf' = IF listHead = NoElement THEN [prevOf EXCEPT ![x] = x]
             ELSE [prevOf EXCEPT ![x] = prevOf[listHead], ![listHead] = x]
  /\ listHead' = x

\* DL_DELETE2(head, head, prev, next), reached only when the list is not empty.
DLDeleteHead ==
  /\ listHead # NoElement
  /\ UNCHANGED nextOf
  /\ IF prevOf[listHead] = listHead
       THEN listHead' = NoElement /\ UNCHANGED prevOf
       ELSE /\ listHead' = nextOf[listHead]
            /\ prevOf' = [prevOf EXCEPT ![nextOf[listHead]] = prevOf[listHead]]

-----------------------------------------------------------------------------
\* The structures come from malloc: the link fields hold anything at first.
ListInit ==
  /\ listHead = NoElement
  /\ nextOf \in [Element -> Pointer]
  /\ prevOf \in [Element -> Pointer]
  /\ spelled = <<>>

PrependStep ==
  \E x \in Element :
    /\ spelled # <<TANGLED>>
    /\ DLPrepend(x)
    /\ spelled' = Prepend(spelled, x)

DeleteStep ==
  /\ DLDeleteHead
  /\ spelled' = DeleteHead(spelled)

ListNext == PrependStep \/ DeleteStep

ListSpec == ListInit /\ [][ListNext]_listVars

-----------------------------------------------------------------------------
(***************************************************************************)
(* The next links spell s out from the head, and the head's prev is the    *)
(* last element, which is how DL_DELETE2 recognises a list of one.  The    *)
(* last element's next field is never read: it may hold anything.          *)
(***************************************************************************)
Spells(s) ==
  /\ s = <<>> => listHead = NoElement
  /\ s # <<>> => /\ listHead = s[1]
                 /\ prevOf[s[1]] = s[Len(s)]
                 /\ \A i \in 1..(Len(s) - 1) : nextOf[s[i]] = s[i + 1]

(***************************************************************************)
(* A tangled list: a set of elements that holds the head, is closed under  *)
(* next and does not hold the element the head's prev names, so deleting   *)
(* heads goes round for ever and never finds the end.                      *)
(***************************************************************************)
Ring ==
  \E S \in SUBSET Element :
    /\ listHead \in S
    /\ \A x \in S : nextOf[x] \in S
    /\ prevOf[listHead] \notin S

\* The pointers represent the sequence: what Prepend and DeleteHead say of the
\* sequence, duplicates included, is what DL_PREPEND2 and DL_DELETE2 do to the
\* pointers, through any history of the two on elements whose fields start out
\* as garbage.
Represents == IF spelled = <<TANGLED>> THEN Ring ELSE Spells(spelled)

\* No element is twice in a list: DL_PREPEND2 of a linked element never yields
\* a list that holds it twice, it loses the rest of the list or ties a ring.
NoDuplicates ==
  \A i, j \in 1..Len(spelled) : i # j => spelled[i] # spelled[j]
=============================================================================

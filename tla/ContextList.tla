---------------------------- MODULE ContextList ----------------------------
(***************************************************************************)
(* The lists the execution cursor keeps (src/rt/cursor.c): the call stack, *)
(* the exit contexts and the return contexts.  Each is an intrusive utlist *)
(* list: the links are fields of the list's own elements, so an element    *)
(* has room for ONE position in each list.  Here a list is the sequence of *)
(* its elements, head first; UtList relates the sequences to the pointers. *)
(***************************************************************************)
EXTENDS Sequences, Integers

CONSTANT TANGLED    \* stands for a list whose links have become a ring

Elements(s) == {s[i] : i \in 1..Len(s)}

(***************************************************************************)
(* DL_PREPEND2(head, x).  The macro writes x->next and x->prev without     *)
(* looking whether x is linked already.  Prepending the head again, or the *)
(* last element, makes x its own predecessor, which DL_DELETE2 reads as    *)
(* "the only element": the rest of the list is lost.  Prepending an        *)
(* element in between closes the next links into a ring from which the     *)
(* last element can no longer be reached.                                  *)
(***************************************************************************)
Prepend(s, x) ==
  IF x \notin Elements(s) THEN <<x>> \o s
  ELSE IF x \in {s[1], s[Len(s)]} THEN <<x>>
  ELSE <<TANGLED>>

\* DL_DELETE2(head, head), behind the "if the list is not empty" of every caller.
DeleteHead(s) ==
  IF s = <<>> \/ s = <<TANGLED>> THEN s ELSE Tail(s)

\* The position of the first x in s.
Position(s, x) ==
  CHOOSE i \in 1..Len(s) : s[i] = x /\ \A j \in 1..(i-1) : s[j] # x

(***************************************************************************)
(* if(list) { while(list != x) DL_DELETE2(list, list); DL_DELETE2(list,    *)
(* list); }: everything up to and including x is dropped.  When x is not   *)
(* in a non-empty list the loop runs off its end: see CanUnwind.           *)
(***************************************************************************)
CanUnwind(s, x) == s # <<>> => x \in Elements(s)

UnwindTo(s, x) ==
  IF s = <<>> THEN s ELSE SubSeq(s, Position(s, x) + 1, Len(s))
=============================================================================

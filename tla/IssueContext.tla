---------------------------- MODULE IssueContext ---------------------------
(***************************************************************************)
(* The issue contexts (util/issue_context.c) of an interpreter instance:   *)
(* the parser's own and the one the embedding fetches from.  Code that     *)
(* wants the issues of a call it makes reported under one of its own opens *)
(* a group, makes the call, closes the group, and adds a main issue if the *)
(* call has failed; such calls nest (invoke_statement_verify around        *)
(* invoke_parameters_verify).  A context has only one group.               *)
(*                                                                         *)
(* Left out: messages and locations, issues dropped because no memory is   *)
(* left to describe them, and ignore_all, fetch_and_ignore and             *)
(* unfetched_issues, which nothing in the library calls.                   *)
(***************************************************************************)
EXTENDS Sequences, Integers, FiniteSets

CONSTANTS
  Issues,  \* the issues that can be raised
  Classes, \* the classes they are raised with
  Filters, \* the filters the embedding fetches with
  FatalKinds, \* which of the "internal" and "memory" errors can occur
  Depth,   \* how deep groups are nested
  NULL

\* The bits of flags.h.  A class or a filter is the set of its bits.
AnyError == 0..9
AnyIssue == 0..63

ASSUME IssueAssumption ==
  /\ Classes \subseteq SUBSET AnyIssue /\ Filters \subseteq SUBSET AnyIssue
  /\ FatalKinds \subseteq {"internal", "memory"}
  /\ Depth \in Nat
  /\ NULL \notin Issues \cup Classes

Contexts == {"parser", "errors"}  \* st->parser.errors and st->errors

\* Each context owns two nodes for which no memory has to be found any more;
\* their classes are the wrong way round (st_new_issue_context).
FatalNodes == Contexts \X FatalKinds
FatalClass(kind) == IF kind = "internal" THEN {1} ELSE {0}

Nodes == Issues \cup FatalNodes

ASSUME NodeAssumption == Issues \cap FatalNodes = {} /\ NULL \notin Contexts

VARIABLES
  nodes,       \* ic->nodes
  groupNodes,  \* ic->group->nodes
  groupMode,   \* ic->group_mode
  subNodes,    \* sub_nodes of every issue; no one writes those of the fatal nodes
  class,       \* issue.class
  new,         \* is the issue still to be fetched?
  iterator,    \* ic->iterator of the embedding's context: a position in its
               \* nodes, 0 for a null pointer
  lastFilter,  \* ic->last_filter
  fatal,       \* ic->fatal_error
  added,       \* the fatal nodes that have been added
  active,      \* the context in use by a call of the embedding, or NULL
  frames,      \* what the open groups of that call have seen, innermost last
  failing,     \* an issue has been raised and the innermost group will close
  scope,       \* for every main issue: what was raised in its group
  reading,     \* the issue whose sub issues the embedding fetches, or NULL
  astray       \* the embedding was led through unwritten memory: anything may
               \* follow, and is not modelled

contextVars == <<nodes, groupNodes, groupMode, subNodes, class, new, fatal, added>>
fetchVars == <<iterator, lastFilter, reading, astray>>
clientVars == <<active, frames, failing, scope>>
vars == <<contextVars, fetchVars, clientVars>>

Elements(s) == {s[i] : i \in 1..Len(s)}

\* malloc'ed and not yet an issue
Unraised == {i \in Issues : class[i] = NULL}

\* ST_FLAG_IS_SET
Matches(x, filter) == class[x] \cap filter # {}

-----------------------------------------------------------------------------
(***************************************************************************)
(* The operations on a context c.                                          *)
(***************************************************************************)
\* issue_context_new_issue: into the group while one is open.
NewIssue(c, i, k) ==
  /\ class' = [class EXCEPT ![i] = k]
  /\ new' = [new EXCEPT ![i] = TRUE]
  /\ IF groupMode[c]
       THEN groupNodes' = [groupNodes EXCEPT ![c] = Append(@, i)] /\ UNCHANGED nodes
       ELSE nodes' = [nodes EXCEPT ![c] = Append(@, i)] /\ UNCHANGED groupNodes
  /\ UNCHANGED <<groupMode, subNodes, fatal, added>>

\* issue_context_new_issue_at: never into the group.
NewIssueAt(c, i, k) ==
  /\ class' = [class EXCEPT ![i] = k]
  /\ new' = [new EXCEPT ![i] = TRUE]
  /\ nodes' = [nodes EXCEPT ![c] = Append(@, i)]
  /\ UNCHANGED <<groupNodes, groupMode, subNodes, fatal, added>>

\* Mutant: the node is added whenever the error occurs.
FatalErrorAgain(c, kind) ==
  /\ fatal' = [fatal EXCEPT ![c] = TRUE]
  /\ nodes' = [nodes EXCEPT ![c] = Append(@, <<c, kind>>)]
  /\ added' = added \cup {<<c, kind>>}
  /\ UNCHANGED <<groupNodes, groupMode, subNodes, class, new>>

\* issue_context_memory_error, issue_context_internal_error
FatalError(c, kind) ==
  LET x == <<c, kind>>
  IN /\ fatal' = [fatal EXCEPT ![c] = TRUE]
     /\ nodes' = IF x \in added THEN nodes ELSE [nodes EXCEPT ![c] = Append(@, x)]
     /\ added' = added \cup {x}
     /\ UNCHANGED <<groupNodes, groupMode, subNodes, class, new>>

\* issue_context_open_group and issue_group_close
SetGroupMode(c, mode) ==
  /\ groupMode' = [groupMode EXCEPT ![c] = mode]
  /\ UNCHANGED <<nodes, groupNodes, subNodes, class, new, fatal, added>>

\* Mutant: the group keeps its nodes.
CloseKeepingNodes(c, i, k) ==
  /\ groupMode' = [groupMode EXCEPT ![c] = FALSE]
  /\ class' = [class EXCEPT ![i] = k]
  /\ new' = [new EXCEPT ![i] = TRUE]
  /\ subNodes' = [subNodes EXCEPT ![i] = groupNodes[c]]
  /\ nodes' = [nodes EXCEPT ![c] = Append(@, i)]
  /\ UNCHANGED <<groupNodes, fatal, added>>

\* Mutant: the group stays open.
CloseLeavingMode(c, i, k) ==
  /\ class' = [class EXCEPT ![i] = k]
  /\ new' = [new EXCEPT ![i] = TRUE]
  /\ subNodes' = [subNodes EXCEPT ![i] = groupNodes[c]]
  /\ groupNodes' = [groupNodes EXCEPT ![c] = <<>>]
  /\ nodes' = [nodes EXCEPT ![c] = Append(@, i)]
  /\ UNCHANGED <<groupMode, fatal, added>>

\* issue_group_close, then issue_group_main_issue: the group's nodes become the
\* sub issues of the new one.
CloseWithMainIssue(c, i, k) ==
  /\ groupMode' = [groupMode EXCEPT ![c] = FALSE]
  /\ class' = [class EXCEPT ![i] = k]
  /\ new' = [new EXCEPT ![i] = TRUE]
  /\ subNodes' = [subNodes EXCEPT ![i] = groupNodes[c]]
  /\ groupNodes' = [groupNodes EXCEPT ![c] = <<>>]
  /\ nodes' = [nodes EXCEPT ![c] = Append(@, i)]
  /\ UNCHANGED <<fatal, added>>

Count(c, filter) == Cardinality({j \in 1..Len(nodes[c]) : Matches(nodes[c][j], filter)})

\* issue_context_merge of the parser's context into the embedding's.
Merge ==
  /\ nodes' = [nodes EXCEPT !["errors"] = @ \o nodes["parser"], !["parser"] = <<>>]
  /\ fatal' = [fatal EXCEPT !["errors"] = @ \/ fatal["parser"]]
  /\ UNCHANGED <<groupNodes, groupMode, subNodes, class, new, added>>
-----------------------------------------------------------------------------
(***************************************************************************)
(* What the embedding fetches, from its own context.                       *)
(***************************************************************************)
Fetchable(x, filter) == new[x] /\ Matches(x, filter)

\* Mutant: another filter does not start over.
FetchWithoutRestart(filter) ==
  LET start == IF iterator = 0 THEN 1 ELSE iterator
  IN {j \in start..Len(nodes["errors"]) : Fetchable(nodes["errors"][j], filter)}

\* The positions the search of issue_context_fetch can stop at.
ToFetch(filter) ==
  LET start == IF iterator = 0 \/ filter # lastFilter THEN 1 ELSE iterator
  IN {j \in start..Len(nodes["errors"]) : Fetchable(nodes["errors"][j], filter)}

\* has_sub_issues is written for main issues with sub issues only; for the other
\* issues and the fatal nodes it is what malloc left there.
HasSubIssues(x) == IF x \in Issues /\ subNodes[x] # <<>> THEN {TRUE} ELSE BOOLEAN

\* issue_context_fetch; the embedding asks for the sub issues of an issue that
\* says it has some before it does anything else (print_all_errors).
Fetch(filter) ==
  /\ active = NULL /\ reading = NULL /\ ~astray
  /\ lastFilter' = filter
  /\ \/ /\ ToFetch(filter) = {}
        /\ iterator' = 0
        /\ UNCHANGED <<new, reading>>
     \/ \E j \in ToFetch(filter) :
          LET x == nodes["errors"][j]
          IN /\ \A k \in ToFetch(filter) : j <= k
             /\ iterator' = j
             /\ new' = [new EXCEPT ![x] = FALSE]
             /\ \E has \in HasSubIssues(x) : reading' = IF has THEN x ELSE NULL
  /\ UNCHANGED <<nodes, groupNodes, groupMode, subNodes, class, fatal, added, astray,
                 clientVars>>

\* Mutant: a sub issue has to match the filter itself.
SubsOfTheFilter(x, filter) ==
  {j \in 1..Len(subNodes[x]) : Fetchable(subNodes[x][j], filter)}

\* The class looked at is that of the issue last fetched, not of the sub issue.
ToFetchSub(x, filter) ==
  {j \in 1..Len(subNodes[x]) : new[subNodes[x][j]] /\ Matches(nodes["errors"][iterator], filter)}

\* issue_context_fetch_sub_issue; the sub_nodes of a fatal node, which
\* st_new_issue_context leaves unwritten, are a null pointer by chance or lead
\* anywhere.
FetchSubIssue ==
  /\ reading # NULL
  /\ \/ /\ reading \in Issues /\ ToFetchSub(reading, lastFilter) = {}
        /\ reading' = NULL
        /\ UNCHANGED <<new, astray>>
     \/ /\ reading \in Issues
        /\ \E j \in ToFetchSub(reading, lastFilter) :
             /\ \A k \in ToFetchSub(reading, lastFilter) : j <= k
             /\ new' = [new EXCEPT ![subNodes[reading][j]] = FALSE]
        /\ UNCHANGED <<reading, astray>>
     \/ /\ reading \in FatalNodes
        /\ reading' = NULL
        /\ astray' \in BOOLEAN
        /\ UNCHANGED new
  /\ UNCHANGED <<nodes, groupNodes, groupMode, subNodes, class, fatal, added,
                 iterator, lastFilter, clientVars>>

-----------------------------------------------------------------------------
(***************************************************************************)
(* The calls of the embedding, and what the code they reach does with the  *)
(* context: a function that raises an issue returns an error, so the next  *)
(* thing that happens to the innermost open group is its main issue.       *)
(***************************************************************************)
Begin(c) ==
  /\ active = NULL /\ reading = NULL /\ ~astray
  /\ active' = c
  /\ UNCHANGED <<contextVars, fetchVars, frames, failing, scope>>

InFrames == frames # <<>>
Innermost == frames[Len(frames)]
Outer == SubSeq(frames, 1, Len(frames) - 1)

\* The innermost frame has seen the issues more, and fails.
Seen(more) ==
  IF InFrames
    THEN Append(Outer, [raised |-> Innermost.raised \cup more, failed |-> TRUE])
    ELSE frames

Raise(c, i, k) ==
  /\ active = c /\ ~failing /\ i \in Unraised
  /\ NewIssue(c, i, k)
  /\ frames' = Seen({i}) /\ failing' = InFrames
  /\ UNCHANGED <<fetchVars, active, scope>>

RaiseAt(c, i, k) ==
  /\ active = c /\ ~failing /\ i \in Unraised
  /\ NewIssueAt(c, i, k)
  /\ frames' = Seen({}) /\ failing' = InFrames
  /\ UNCHANGED <<fetchVars, active, scope>>

RaiseFatal(c, kind) ==
  /\ active = c /\ ~failing
  /\ FatalError(c, kind)
  /\ frames' = Seen({}) /\ failing' = InFrames
  /\ UNCHANGED <<fetchVars, active, scope>>

Open(c) ==
  /\ active = c /\ ~failing /\ Len(frames) < Depth
  /\ SetGroupMode(c, TRUE)
  /\ frames' = Append(frames, [raised |-> {}, failed |-> FALSE])
  /\ UNCHANGED <<fetchVars, active, failing, scope>>

CloseOk(c) ==
  /\ active = c /\ ~failing /\ InFrames /\ ~Innermost.failed
  /\ SetGroupMode(c, FALSE)
  /\ frames' = Outer
  /\ UNCHANGED <<fetchVars, active, failing, scope>>

\* The caller of a function that closed its group this way may go on (the next
\* parameter of a call) but fails in the end.
CloseFailed(c, i, k) ==
  /\ active = c /\ InFrames /\ i \in Unraised
  /\ CloseWithMainIssue(c, i, k)
  /\ scope' = [scope EXCEPT ![i] = Innermost.raised]
  /\ frames' = IF Outer = <<>> THEN <<>>
               ELSE [Outer EXCEPT ![Len(Outer)].failed = TRUE]
  /\ failing' = FALSE
  /\ UNCHANGED <<fetchVars, active>>

\* st_load_file and st_query merge the parser's issues when parsing has failed,
\* which it has when there is an error among them.
End ==
  /\ active # NULL /\ ~InFrames
  /\ \/ active = "parser" /\ Merge
     \/ /\ active = "parser" => Count("parser", AnyError) = 0
        /\ UNCHANGED contextVars
  /\ active' = NULL
  /\ UNCHANGED <<fetchVars, frames, failing, scope>>

Init ==
  /\ nodes = [c \in Contexts |-> <<>>]
  /\ groupNodes = [c \in Contexts |-> <<>>]
  /\ groupMode = [c \in Contexts |-> FALSE]
  /\ subNodes = [x \in Issues |-> <<>>]
  /\ class = [x \in Nodes |-> IF x \in Issues THEN NULL ELSE FatalClass(x[2])]
  \* st_new_issue_context does not write `new' of the two nodes it owns
  /\ \E garbage \in SUBSET FatalNodes : new = [x \in Nodes |-> x \in garbage]
  /\ iterator = 0 /\ lastFilter = {}
  /\ fatal = [c \in Contexts |-> FALSE]
  /\ added = {}
  /\ active = NULL /\ frames = <<>> /\ failing = FALSE
  /\ scope = [x \in Issues |-> {}]
  /\ reading = NULL /\ astray = FALSE

Next ==
  \/ \E c \in Contexts :
       \/ Begin(c)
       \/ \E i \in Issues, k \in Classes : Raise(c, i, k) \/ RaiseAt(c, i, k)
       \/ \E kind \in FatalKinds : RaiseFatal(c, kind)
       \/ Open(c) \/ CloseOk(c)
       \/ \E i \in Issues, k \in Classes : CloseFailed(c, i, k)
  \/ End
  \/ \E filter \in Filters : Fetch(filter)
  \/ FetchSubIssue

Spec == Init /\ [][Next]_vars

-----------------------------------------------------------------------------
TypeOK ==
  /\ nodes \in [Contexts -> Seq(Nodes)]
  /\ groupNodes \in [Contexts -> Seq(Issues)]
  /\ groupMode \in [Contexts -> BOOLEAN]
  /\ subNodes \in [Issues -> Seq(Issues)]
  /\ class \in [Nodes -> Classes \cup {FatalClass(k) : k \in FatalKinds} \cup {NULL}]
  /\ new \in [Nodes -> BOOLEAN]
  /\ iterator \in 0..Len(nodes["errors"])
  /\ fatal \in [Contexts -> BOOLEAN]
  /\ added \subseteq FatalNodes
  /\ active \in Contexts \cup {NULL}
  /\ reading \in Nodes \cup {NULL} /\ astray \in BOOLEAN

\* What an embedding can reach through a node, itself included.
Reached(x) == {x} \cup (IF x \in Issues THEN Elements(subNodes[x]) ELSE {})

\* When a call of the embedding is not inside of a group, every issue raised is
\* in a context or is a sub issue of one that is: none waits in a group that
\* nobody will close (issue_group_close, issue_group_main_issue).
NoIssueLost ==
  ~InFrames =>
    \A i \in Issues \ Unraised :
      \E c \in Contexts : \E x \in Elements(nodes[c]) : i \in Reached(x)

\* The sub issues of an issue were raised by the call its group was opened for,
\* although all groups, nested or not, share one list (open_group).
SubIssuesMatchGroup ==
  \A x \in Issues : Elements(subNodes[x]) \subseteq scope[x]

\* The lists of the two contexts, and the one that begins at each issue.
ListHeads == ({"nodes", "group"} \X Contexts) \cup ({"sub"} \X Issues)
ListAt(h) ==
  CASE h[1] = "nodes" -> nodes[h[2]]
    [] h[1] = "group" -> groupNodes[h[2]]
    [] h[1] = "sub"   -> subNodes[h[2]]

\* A node has one pair of links, so it may be in one place only: the nodes of a
\* context, its group, or the sub issues of one issue (DL_APPEND, merge).
NodesInOneList ==
  \A g \in ListHeads : \A i \in 1..Len(ListAt(g)) :
    \A h \in ListHeads : \A j \in 1..Len(ListAt(h)) :
      ListAt(g)[i] = ListAt(h)[j] => g = h /\ i = j

\* When a fetch would find nothing, no new issue of its filter is left: the
\* iterator never skips one, although it stays between calls and issues are
\* added and other filters used meanwhile (issue_context_fetch).
FetchComplete ==
  \A filter \in Filters :
    ToFetch(filter) = {} => \A x \in Elements(nodes["errors"]) : ~Fetchable(x, filter)

\* The sub issues of a fetched issue have all been fetched when there are no
\* more of them to be had, whatever their own class, and an embedding that asks
\* an issue without any for them, since its has_sub_issues says so, gets none
\* and is not led astray (issue_context_fetch_sub_issue).  A fatal error, whose
\* sub_nodes nobody writes, may lead it astray.
SubIssuesDelivered ==
  [][\A x \in Issues : reading = x /\ reading' # x =>
       ~astray' /\ \A y \in Elements(subNodes[x]) : ~new[y]]_vars
=============================================================================

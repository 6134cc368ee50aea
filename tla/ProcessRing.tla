---------------------------- MODULE ProcessRing ----------------------------
(***************************************************************************)
(* The list of processes of the virtual machine (src/src/process.c).  A     *)
(* process is a number: 1 is the head core->process, 1..N are the processes *)
(* build_processes makes for the loaded champions, and every fork allocates *)
(* the next number.  Only the fields the list depends on are kept here:     *)
(* the successor and the owning player.                                     *)
(***************************************************************************)
EXTENDS Integers

CONSTANTS
    N,        \* core->champion_count, fixed once the arguments are read
    Id,       \* Id[i]: the number of the champion in slot i
    MaxProcs  \* bound of the model: how many processes may ever be allocated

ASSUME RingAssumption ==
    /\ N \in Nat \ {0}
    /\ Id \in [1..N -> Int]
    /\ MaxProcs \in Nat
    /\ N <= MaxProcs

VARIABLES
    nprocs,   \* how many processes have been allocated
    next,     \* process->next
    player    \* process->player

ringVars == <<nprocs, next, player>>

NULL == 0
Pool == 1..MaxProcs
Procs == 1..nprocs
HeadProc == 1

RingTypeOK ==
    /\ nprocs \in N..MaxProcs
    /\ next \in [Pool -> 0..MaxProcs]
    /\ player \in [Pool -> Int]
    /\ \A p \in Procs : next[p] \in Procs

(***************************************************************************)
(* build_processes: one process per champion, in the order of the slots,    *)
(* the last one linked back to the head.                                    *)
(***************************************************************************)
RingInit ==
    /\ nprocs = N
    /\ next = [p \in Pool |-> IF p < N THEN p + 1 ELSE IF p = N THEN HeadProc ELSE NULL]
    /\ player = [p \in Pool |-> IF p <= N THEN Id[p] ELSE NULL]

(***************************************************************************)
(* The processes some walk from the head along next comes to.               *)
(***************************************************************************)
Closed(S) == HeadProc \in S /\ \A q \in S : next[q] \in S
Reach == {p \in Procs : \A S \in SUBSET Procs : Closed(S) => p \in S}

(***************************************************************************)
(* find_process: a walk from the head that stops at the first process of    *)
(* the player, or when it is back at the head.  Visited(id) is the set of   *)
(* processes the do-while loop looks at; when none of them is the player's  *)
(* and none leads back to the head, the loop never ends.                    *)
(***************************************************************************)
VisitClosed(id, S) == HeadProc \in S /\ \A q \in S : player[q] # id => next[q] \in S
Visited(id) == {p \in Procs : \A S \in SUBSET Procs : VisitClosed(id, S) => p \in S}
Matches(id) == {p \in Visited(id) : player[p] = id}

(* A slip of find_process: the walk without its early return. *)
SearchEndsAtHead(id) == \E q \in Visited(id) : next[q] = HeadProc
SearchEnds(id) == \E q \in Visited(id) : player[q] = id \/ next[q] = HeadProc

(* A slip of the fork: the head is rewired whoever forks. *)
FindHead(id) == HeadProc
FindProcess(id) == IF Matches(id) = {} THEN HeadProc ELSE CHOOSE p \in Matches(id) : TRUE

(***************************************************************************)
(* What inst_fork and inst_lfork do to the list once find_process has       *)
(* returned orig: clone_process copies core->process, the head, and not     *)
(* orig, so the clone is the head's player's and its successor is the       *)
(* head's; fork_process then makes the clone the only successor of orig.    *)
(***************************************************************************)
CloneAndLink(orig) ==
    LET clone == nprocs + 1 IN
    /\ nprocs < MaxProcs
    /\ nprocs' = clone
    /\ player' = [player EXCEPT ![clone] = player[HeadProc]]
    /\ next' = [next EXCEPT ![clone] = next[HeadProc], ![orig] = clone]
=============================================================================

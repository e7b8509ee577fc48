------------------------ MODULE IncrementalDispatcher ------------------------
(***************************************************************************)
(* The list that the jobs of a launch and the names of agents are handed   *)
(* on by while they come in (pkg/utils/incrementaldispatcher.go, used by   *)
(* pkg/agent/client.go).                                                   *)
(*                                                                         *)
(* Producers add items until Done; a consumer in ForEach calls its         *)
(* function for all that are there, without the lock, and waits on a       *)
(* condition for more.  An item is its place in the list.                  *)
(***************************************************************************)
EXTENDS Integers

CONSTANTS
  Producers,  \* goroutines that add
  Consumers,  \* goroutines in ForEach
  MaxItems    \* bound: items added

VARIABLES
  items,      \* the length of the list
  done,       \* the fuse
  adding,     \* producers that have seen the fuse whole and will append
  pc,         \* per consumer: where ForEach is
  idx,        \* per consumer: idx, what it has copied from the list
  given,      \* per consumer: the items its function was called for
  promised    \* ghost: the length of the list at Done

dispatcherVars == <<items, done, adding, pc, idx, given, promised>>

DispatcherInit ==
  /\ items = 0 /\ done = FALSE /\ adding = {} /\ promised = 0
  /\ pc = [c \in Consumers |-> "loop"]
  /\ idx = [c \in Consumers |-> 0]
  /\ given = [c \in Consumers |-> 0]

Go(c, to) == pc' = [pc EXCEPT ![c] = to]

\* Those who wait on the condition when it is broadcast get the lock again.
Woken == [c \in Consumers |-> IF pc[c] = "wait" THEN "loop" ELSE pc[c]]

\* Add looks at the fuse without the lock
Add(p) ==
  /\ ~done /\ p \notin adding
  /\ adding' = adding \cup {p}
  /\ UNCHANGED <<items, done, pc, idx, given, promised>>

\* and appends under it, whatever has been done meanwhile.
AppendItem(p) ==
  /\ p \in adding /\ adding' = adding \ {p}
  /\ items < MaxItems /\ items' = items + 1
  /\ pc' = Woken
  /\ UNCHANGED <<done, idx, given, promised>>

\* Mutant: Done wakes nobody.
MutDone ==
  /\ done' = TRUE
  /\ promised' = IF done THEN promised ELSE items
  /\ UNCHANGED <<items, adding, pc, idx, given>>

Done ==
  /\ done' = TRUE
  /\ promised' = IF done THEN promised ELSE items
  /\ pc' = Woken
  /\ UNCHANGED <<items, adding, idx, given>>

\* ForEach goes on until it sees the fuse broken, and then looks at the list once more.
Loop(c) ==
  /\ pc[c] = "loop"
  /\ Go(c, IF done THEN "last" ELSE "take")
  /\ UNCHANGED <<items, done, adding, idx, given, promised>>

\* dispatchFromIdx copies what is new
Copy(c) ==
  /\ pc[c] \in {"take", "last"}
  /\ idx' = [idx EXCEPT ![c] = items]
  /\ Go(c, IF pc[c] = "last" THEN "give last" ELSE "give")
  /\ UNCHANGED <<items, done, adding, given, promised>>

\* and calls the function for one after the other.
Give(c) ==
  /\ pc[c] \in {"give", "give last"}
  /\ \/ /\ given[c] < idx[c]
        /\ given' = [given EXCEPT ![c] = @ + 1]
        /\ UNCHANGED pc
     \/ /\ given[c] = idx[c]
        /\ Go(c, IF pc[c] = "give" THEN "lock" ELSE "end")
        /\ UNCHANGED given
  /\ UNCHANGED <<items, done, adding, idx, promised>>

\* Under the lock it looks at the fuse and the list again before it waits.
Wait(c) ==
  /\ pc[c] = "lock"
  /\ Go(c, IF done THEN "last" ELSE IF idx[c] = items THEN "wait" ELSE "loop")
  /\ UNCHANGED <<items, done, adding, idx, given, promised>>

DispatcherNext ==
  \/ \E p \in Producers : Add(p) \/ AppendItem(p)
  \/ Done
  \/ \E c \in Consumers : Loop(c) \/ Copy(c) \/ Give(c) \/ Wait(c)

DispatcherSpec == DispatcherInit /\ [][DispatcherNext]_dispatcherVars

----------------------------------------------------------------------------
\* Safety.  A consumer does not wait for what is there already, nor after Done,
\* whichever of the two comes while it is on its way to the condition.
ConsumersWake == \A c \in Consumers : pc[c] = "wait" => ~done /\ idx[c] = items

\* Safety.  A consumer that is through was given everything that was added before
\* Done; only an item added across Done may be missed.
AllGiven == \A c \in Consumers : pc[c] = "end" => given[c] >= promised

DispatcherKeeps == ConsumersWake /\ AllGiven

=============================================================================

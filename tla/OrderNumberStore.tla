--------------------------- MODULE OrderNumberStore ---------------------------
(***************************************************************************)
(* internal/erp/hasavshevet/order_number.go: the file-backed counter       *)
(* behind every order number.  Next is modelled at the grain of its system *)
(* calls, because a crash or an I/O error can fall between any two of      *)
(* them: take the mutex, read the file, open it with truncation, write the *)
(* new content, release the mutex.                                         *)
(*                                                                         *)
(* The file is abstracted to the number Next would read from it.  A file   *)
(* that is missing, empty or cut short yields 0, as ReadFile's and         *)
(* Unmarshal's errors are ignored.                                         *)
(***************************************************************************)
EXTENDS Naturals, FiniteSets

CONSTANTS
  Calls,        \* the calls of Next, each made once
  Legacy,       \* the number seeded in lastOrderNumber.json
  MaxCrashes,   \* bound on crashes of the daemon
  MaxFaults     \* bound on I/O errors

ASSUME StoreAssumption ==
  /\ Legacy \in Nat
  /\ MaxCrashes \in Nat
  /\ MaxFaults \in Nat

VARIABLES
  file,     \* the number lastOrderNumber.json yields
  holder,   \* OrderNumberStore.mu: the call that holds it ({} or a singleton)
  pc,       \* where each call is in Next
  data,     \* data.LastOrderNumber of each call
  lost,     \* history: a failed read, a failed write or a crash lost the number
  crashes,  \* number of crashes so far
  faults    \* number of I/O errors so far

vars == <<file, holder, pc, data, lost, crashes, faults>>

Stages == {"new", "waiting", "locked", "read", "opened", "written", "erring",
           "returned", "refused", "dead", "burned"}

InCall == {"waiting", "locked", "read", "opened", "written", "erring"}

Critical == InCall \ {"waiting"}

\* The calls whose number has been in the file.
Issued == {c \in Calls : pc[c] \in {"written", "returned", "burned"}}

\* The number the store stands at; it survives in the caller's memory during
\* the moment when the file is truncated.
Value ==
  IF \E c \in Calls : pc[c] = "opened"
  THEN data[CHOOSE c \in Calls : pc[c] = "opened"] - 1
  ELSE file

TypeOK ==
  /\ file \in Nat
  /\ holder \in SUBSET Calls
  /\ pc \in [Calls -> Stages]
  /\ data \in [Calls -> Nat]
  /\ lost \in BOOLEAN
  /\ crashes \in 0..MaxCrashes
  /\ faults \in 0..MaxFaults

Init ==
  /\ file = Legacy
  /\ holder = {}
  /\ pc = [c \in Calls |-> "new"]
  /\ data = [c \in Calls |-> 0]
  /\ lost = FALSE
  /\ crashes = 0
  /\ faults = 0

Move(c, from, to) ==
  /\ pc[c] = from
  /\ pc' = [pc EXCEPT ![c] = to]

Fault ==
  /\ faults < MaxFaults
  /\ faults' = faults + 1

-----------------------------------------------------------------------------
(* The steps of Next.                                                      *)

Call(c) ==
  /\ Move(c, "new", "waiting")
  /\ UNCHANGED <<file, holder, data, lost, crashes, faults>>

\* Mutant: no mutex around the read-increment-write cycle.
LockWithoutMutex(c) ==
  /\ Move(c, "waiting", "locked")
  /\ holder' = {c}
  /\ UNCHANGED <<file, data, lost, crashes, faults>>

Lock(c) ==
  /\ Move(c, "waiting", "locked")
  /\ holder = {}
  /\ holder' = {c}
  /\ UNCHANGED <<file, data, lost, crashes, faults>>

\* ReadFile, Unmarshal and the increment.
Read(c) ==
  /\ Move(c, "locked", "read")
  /\ data' = [data EXCEPT ![c] = file + 1]
  /\ UNCHANGED <<file, holder, lost, crashes, faults>>

\* ReadFile fails although the file is there (sharing violation, network
\* share away): the error is dropped and the counter is taken to be zero.
ReadFails(c) ==
  /\ Move(c, "locked", "read")
  /\ Fault
  /\ data' = [data EXCEPT ![c] = 1]
  /\ lost' = (lost \/ file # 0)
  /\ UNCHANGED <<file, holder, crashes>>

\* WriteFile opens with O_TRUNC ...
Truncate(c) ==
  /\ Move(c, "read", "opened")
  /\ file' = 0
  /\ UNCHANGED <<holder, data, lost, crashes, faults>>

\* ... or cannot open the file, which is left as it was ...
OpenFails(c) ==
  /\ Move(c, "read", "erring")
  /\ Fault
  /\ UNCHANGED <<file, holder, data, lost, crashes>>

\* Mutant: the value from before the increment is written.
WriteBytesBehind(c) ==
  /\ Move(c, "opened", "written")
  /\ file' = data[c] - 1
  /\ UNCHANGED <<holder, data, lost, crashes, faults>>

\* ... then writes the bytes ...
WriteBytes(c) ==
  /\ Move(c, "opened", "written")
  /\ file' = data[c]
  /\ UNCHANGED <<holder, data, lost, crashes, faults>>

\* Mutant: WriteFile's error is ignored.
WriteErrorIgnored(c) ==
  /\ Move(c, "opened", "written")
  /\ Fault
  /\ lost' = (lost \/ data[c] # 1)
  /\ UNCHANGED <<file, holder, data, crashes>>

\* Mutant: a failed write is undone by decrementing once too often.
WriteFailsRollsBack(c) ==
  /\ Move(c, "opened", "erring")
  /\ Fault
  /\ file' = data[c] - 2
  /\ UNCHANGED <<holder, data, lost, crashes>>

\* ... or fails to (disk full), leaving the file truncated.
WriteFails(c) ==
  /\ Move(c, "opened", "erring")
  /\ Fault
  /\ lost' = (lost \/ data[c] # 1)
  /\ UNCHANGED <<file, holder, data, crashes>>

\* return data.LastOrderNumber, nil, after the deferred Unlock.
Return(c) ==
  /\ Move(c, "written", "returned")
  /\ holder' = {}
  /\ UNCHANGED <<file, data, lost, crashes, faults>>

\* return 0, err, after the deferred Unlock.
ReturnError(c) ==
  /\ Move(c, "erring", "refused")
  /\ holder' = {}
  /\ UNCHANGED <<file, data, lost, crashes, faults>>

\* The daemon dies: the mutex and every call in progress are gone, the file
\* stays as it is at that instant.  A number written but not returned is burned.
Crash ==
  /\ crashes < MaxCrashes
  /\ crashes' = crashes + 1
  /\ pc' = [c \in Calls |-> CASE pc[c] = "written" -> "burned"
                            [] pc[c] \in InCall \ {"written"} -> "dead"
                            [] OTHER -> pc[c]]
  /\ holder' = {}
  /\ lost' = (lost \/ \E c \in Calls : pc[c] = "opened" /\ data[c] # 1)
  /\ UNCHANGED <<file, data, faults>>

Step(c) ==
  \/ Lock(c) \/ Read(c) \/ ReadFails(c)
  \/ Truncate(c) \/ OpenFails(c)
  \/ WriteBytes(c) \/ WriteFails(c)
  \/ Return(c) \/ ReturnError(c)

Next ==
  \/ \E c \in Calls : Call(c) \/ Step(c)
  \/ Crash

Spec == Init /\ [][Next]_vars
-----------------------------------------------------------------------------
(* Properties.                                                             *)

\* Two calls of Next never return the same order number, whatever the
\* interleaving, the refusals and the crashes, nor a number that was burned, as
\* long as the number on disk has not been lost (order_number.go:30-49).
UniqueNumbers ==
  ~lost => \A a, b \in Issued : data[a] = data[b] => a = b

\* A number that a caller holds, or held when the daemon died, is one the
\* store has counted, so that the next daemon continues above it: Next
\* persists before it returns.
PersistedBeforeReturn ==
  ~lost => \A c \in Issued : data[c] <= Value

\* The documented promise of the sequence: it continues from where the legacy
\* application left off (docs/hasavshevet-send-order.md:132-133), so that no
\* number at or below the seed is handed out again.
ContinuesSequence ==
  \A c \in Calls : pc[c] = "returned" => data[c] > Legacy

-----------------------------------------------------------------------------
(* Refinement of NumberSequence: the call takes effect when the bytes are  *)
(* in the file.                                                            *)

CallStage(c) ==
  CASE pc[c] \in InCall \ {"written"} -> "busy"
    [] c \in Issued -> "issued"
    [] OTHER -> pc[c]

Sequence == INSTANCE NumberSequence WITH
  last   <- Value,
  call   <- [c \in Calls |-> CallStage(c)],
  result <- [c \in Calls |-> IF c \in Issued THEN data[c] ELSE 0]

\* The store behaves as an indivisible counter that can be lost only while a
\* call is in progress (order_number.go:27-29).
ImplementsSequence == Sequence!Spec
=============================================================================

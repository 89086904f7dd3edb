--------------------------- MODULE ProcHackProofs ---------------------------
(***************************************************************************)
(* Proofs about the listing of /proc, for every number of pids, readers    *)
(* and every buffer size, and about proc_hack in the kernel.               *)
(*                                                                         *)
(* The argument for the listing is one inductive invariant, IInv: it has   *)
(* dealt with exactly the numbers below its cursor.  Whatever modules do   *)
(* to the hook pointer, it keeps its promises; and a single user of the    *)
(* hook never leaves the pointer dangling.                                 *)
(***************************************************************************)
EXTENDS ProcHack, TLAPS

-----------------------------------------------------------------------------
(* The listing.                                                            *)

USE DEF FIRST_PROCESS_ENTRY, BaseEntries

\* The initial states satisfy IInv.
LEMMA InitIInv == Init => IInv
<1> SUFFICES ASSUME Init PROVE IInv
  OBVIOUS
<1> USE PidMaxAssumption, RoomAssumption, HookAssumption
<1>1. TypeOK
  BY DEF Init, TypeOK, PidNr, Slots, PCs, Returned, EndPos, TGID_OFFSET
<1>2. ListedBelow /\ StableListed /\ StableAlive
  BY DEF Init, ListedBelow, StableListed, StableAlive
<1>3. RefsCounted
  BY DEF Init, RefsCounted, RefsOf, Returned
<1>4. PositionKept
  BY DEF Init, PositionKept, InLoop, AtEntry
<1> QED
  BY <1>1, <1>2, <1>3, <1>4 DEF IInv

\* A process appears, changes or disappears: no cursor moves, and what stops
\* being a process leaves every reader's stable set in the same step.
LEMMA EnvironmentIInv == IInv /\ Environment => IInv'
<1> SUFFICES ASSUME IInv, NEW p \in PidNr,
                    Fork(p) \/ Exit(p) \/ FreePid(p) \/ DeThreadBegin(p) \/ DeThreadEnd(p)
             PROVE IInv'
  BY DEF Environment
<1> USE DEF IInv
<1>1. UNCHANGED <<hook, readerVars>>
  BY DEF Fork, Exit, FreePid, DeThreadBegin, DeThreadEnd, SetSlot
<1>2. /\ pidmap' \in [PidNr -> Slots]
      /\ stable' \in [Readers -> SUBSET PidNr]
  BY DEF Fork, Exit, FreePid, DeThreadBegin, DeThreadEnd, SetSlot, TypeOK, Slots
<1>3. \A r \in Readers : stable'[r] \subseteq stable[r]
  BY DEF Fork, Exit, FreePid, DeThreadBegin, DeThreadEnd, TypeOK
<1>4. TypeOK'
  BY <1>1, <1>2 DEF TypeOK, readerVars
<1>5. ListedBelow' /\ RefsCounted' /\ PositionKept'
  BY <1>1 DEF readerVars, ListedBelow, RefsCounted, PositionKept, Cursor,
              StartTgid, InLoop, AtEntry
<1>6. StableListed'
  BY <1>1, <1>3 DEF readerVars, StableListed, Cursor, StartTgid, InLoop, AtEntry
<1>7. StableAlive'
  <2>1. CASE Exit(p)
    BY <2>1 DEF Exit, SetSlot, StableAlive, Processes, TypeOK, has_group_leader_pid
  <2>2. CASE ~ Exit(p)
    <3>1. stable' = stable
      BY <2>2 DEF Fork, FreePid, DeThreadBegin, DeThreadEnd
    <3>2. Processes \subseteq Processes'
      BY <2>2 DEF Fork, FreePid, DeThreadBegin, DeThreadEnd, SetSlot, TypeOK,
                  Processes, has_group_leader_pid
    <3> QED
      BY <3>1, <3>2 DEF StableAlive
  <2> QED
    BY <2>1, <2>2
<1> QED
  BY <1>4, <1>5, <1>6, <1>7

\* Opening preserves IInv: a fresh listing has dealt with no number at all.
LEMMA OpenIInv == ASSUME IInv, NEW r \in Readers, Open(r) PROVE IInv'
<1> USE PidMaxAssumption, RoomAssumption, HookAssumption
<1> USE DEF IInv, Open
<1>1. TypeOK'
  BY DEF TypeOK, PCs, Returned, EndPos, TGID_OFFSET, Processes
<1>2. ListedBelow'
  BY DEF TypeOK, ListedBelow, Cursor, InLoop, AtEntry, StartTgid
<1>3. StableListed'
  BY DEF TypeOK, StableListed, Cursor, InLoop, AtEntry, StartTgid, Processes, PidNr, TGID_OFFSET
<1>4. StableAlive'
  BY DEF TypeOK, StableAlive, Processes
<1>5. RefsCounted'
  BY DEF TypeOK, RefsCounted, RefsOf, Returned
<1>6. PositionKept'
  BY DEF TypeOK, PositionKept, InLoop, AtEntry
<1> QED
  BY <1>1, <1>2, <1>3, <1>4, <1>5, <1>6

\* Closing preserves IInv: the listing is forgotten.
LEMMA CloseIInv == ASSUME IInv, NEW r \in Readers, Close(r) PROVE IInv'
<1> USE PidMaxAssumption, RoomAssumption, HookAssumption
<1> USE DEF IInv, Close
<1>1. TypeOK'
  BY DEF TypeOK, PCs, Returned, EndPos, TGID_OFFSET
<1>2. ListedBelow'
  BY DEF TypeOK, ListedBelow, Cursor, InLoop, AtEntry, StartTgid
<1>3. StableListed'
  BY DEF TypeOK, StableListed, Cursor, InLoop, AtEntry, StartTgid
<1>4. StableAlive'
  BY DEF TypeOK, StableAlive, Processes
<1>5. RefsCounted'
  BY DEF TypeOK, RefsCounted, RefsOf, Returned
<1>6. PositionKept'
  BY DEF TypeOK, PositionKept, InLoop, AtEntry
<1> QED
  BY <1>1, <1>2, <1>3, <1>4, <1>5, <1>6

\* Entering proc_pid_readdir() preserves IInv: the cursor stays where f_pos
\* left it and the reaper's reference is counted.
LEMMA ReaddirStartIInv == ASSUME IInv, NEW r \in Readers, ReaddirStart(r) PROVE IInv'
<1> USE PidMaxAssumption, RoomAssumption, HookAssumption
<1> USE DEF IInv, ReaddirStart, vars
<1>1. TypeOK'
  <2>1. CASE ~ ReaperAlive
    BY <2>1 DEF TypeOK
  <2>2. CASE ReaperAlive
    <3>1. PICK n \in 1 .. MaxRoom : room' = [room EXCEPT ![r] = n]
      BY <2>2
    <3>2. room' \in [Readers -> 0 .. MaxRoom]
      BY <3>1 DEF TypeOK
    <3> QED
      BY <2>2, <3>2 DEF TypeOK, PCs
  <2> QED
    BY <2>1, <2>2
<1>2. ListedBelow'
  BY DEF TypeOK, ListedBelow, Cursor, InLoop, AtEntry, StartTgid
<1>3. StableListed'
  BY DEF TypeOK, StableListed, Cursor, InLoop, AtEntry, StartTgid
<1>4. StableAlive'
  BY DEF StableAlive, Processes
<1>5. RefsCounted'
  BY DEF TypeOK, RefsCounted, RefsOf, Returned
<1>6. PositionKept'
  BY DEF TypeOK, PositionKept, InLoop, AtEntry
<1> QED
  BY <1>1, <1>2, <1>3, <1>4, <1>5, <1>6

\* The loop over proc_base_stuff preserves IInv: the cursor stays below the
\* first pid number, or the call returns and puts the reaper.
LEMMA BaseEntryIInv == ASSUME IInv, NEW r \in Readers, BaseEntry(r) PROVE IInv'
<1> USE PidMaxAssumption, RoomAssumption, HookAssumption
<1> USE DEF IInv, BaseEntry
<1>1. CASE BufferFull(r, 1)
  <2>1. TypeOK'
    BY <1>1 DEF BufferFull, TypeOK, PCs, Returned
  <2>2. Cursor(r)' = Cursor(r) /\ \A q \in Readers : Cursor(q)' = Cursor(q)
    BY <1>1 DEF BufferFull, TypeOK, Cursor, InLoop, AtEntry, StartTgid
  <2>3. ListedBelow' /\ StableListed' /\ StableAlive'
    BY <1>1, <2>2 DEF BufferFull, ListedBelow, StableListed, StableAlive, Processes
  <2>4. RefsCounted'
    BY <1>1 DEF BufferFull, TypeOK, RefsCounted, RefsOf, Returned
  <2>5. PositionKept'
    BY <1>1 DEF BufferFull, TypeOK, PositionKept, InLoop, AtEntry
  <2> QED
    BY <2>1, <2>3, <2>4, <2>5
<1>2. CASE FillBase(r)
  <2>1. /\ f_pos[r] + 1 \in FIRST_PROCESS_ENTRY .. EndPos
        /\ room[r] - 1 \in 0 .. MaxRoom
    BY <1>2 DEF FillBase, TypeOK, EndPos, TGID_OFFSET
  <2>2. TypeOK'
    BY <1>2, <2>1 DEF FillBase, TypeOK
  <2>3. \A q \in Readers : Cursor(q)' = Cursor(q) \/ (Cursor(q) = -1 /\ Cursor(q)' = 0)
    <3> SUFFICES ASSUME NEW q \in Readers
                 PROVE  Cursor(q)' = Cursor(q) \/ (Cursor(q) = -1 /\ Cursor(q)' = 0)
      OBVIOUS
    <3>1. CASE q = r
      <4>1. f_pos[r] = 256 /\ f_pos'[r] = 257
        BY <1>2 DEF FillBase, TypeOK, EndPos, TGID_OFFSET
      <4> QED
        BY <3>1, <4>1, <1>2 DEF FillBase, Cursor, InLoop, AtEntry, StartTgid, TGID_OFFSET
    <3>2. CASE q # r
      BY <3>2, <1>2 DEF FillBase, TypeOK, Cursor, InLoop, AtEntry, StartTgid
    <3> QED
      BY <3>1, <3>2
  <2>a. \A q \in Readers : \A p \in listed[q] \cup stable[q] : p \in Nat /\ p >= 1
    BY DEF TypeOK, PidNr
  <2>4. ListedBelow'
    BY <1>2, <2>3, <2>a DEF FillBase, ListedBelow
  <2>5. StableListed'
    BY <1>2, <2>3, <2>a DEF FillBase, StableListed
  <2>6. StableAlive' /\ RefsCounted'
    BY <1>2 DEF FillBase, StableAlive, Processes, RefsCounted
  <2>7. PositionKept'
    BY <1>2 DEF FillBase, TypeOK, PositionKept, InLoop, AtEntry
  <2> QED
    BY <2>2, <2>4, <2>5, <2>6, <2>7
<1> QED
  BY <1>1, <1>2

\* Setting iter.tgid from f_pos preserves IInv: the cursor does not move.
LEMMA BaseDoneIInv == ASSUME IInv, NEW r \in Readers, BaseDone(r) PROVE IInv'
<1> USE PidMaxAssumption, RoomAssumption, HookAssumption
<1> USE DEF IInv, BaseDone
<1>1. TypeOK'
  BY DEF TypeOK, PCs, EndPos, TGID_OFFSET, StartTgid
<1>2. ListedBelow'
  BY DEF TypeOK, ListedBelow, Cursor, InLoop, AtEntry, StartTgid
<1>3. StableListed'
  BY DEF TypeOK, StableListed, Cursor, InLoop, AtEntry, StartTgid
<1>4. StableAlive'
  BY DEF StableAlive, Processes
<1>5. RefsCounted'
  BY DEF TypeOK, RefsCounted, RefsOf, Returned
<1>6. PositionKept'
  <2> SUFFICES ASSUME NEW q \in Readers
               PROVE  /\ InLoop(q)' => f_pos'[q] >= TGID_OFFSET
                      /\ AtEntry(q)' => /\ f_pos'[q] = tgid'[q] + TGID_OFFSET
                                        /\ tgid'[q] \in PidNr
                      /\ InLoop(q)' /\ f_pos'[q] = EndPos => tgid'[q] = PID_MAX_LIMIT
    BY DEF PositionKept
  <2>1. CASE q = r
    BY <2>1 DEF TypeOK, InLoop, AtEntry, TGID_OFFSET, EndPos, StartTgid
  <2>2. CASE q # r
    BY <2>2 DEF TypeOK, PositionKept, InLoop, AtEntry
  <2> QED
    BY <2>1, <2>2
<1> QED
  BY <1>1, <1>2, <1>3, <1>4, <1>5, <1>6

\* Passing over a number preserves IInv: what is not a group leader's pid is
\* in no stable set, so nothing stable is skipped.
LEMMA SkipNumberIInv == ASSUME IInv, NEW r \in Readers, SkipNumber(r) PROVE IInv'
<1> USE PidMaxAssumption, RoomAssumption, HookAssumption
<1> USE DEF IInv, SkipNumber
<1>1. TypeOK'
  BY DEF TypeOK, PCs, Probing, SlotAt, PidNr
<1>2. ListedBelow'
  BY DEF TypeOK, ListedBelow, Cursor, InLoop, AtEntry, StartTgid, PidNr, Probing
<1>3. StableListed'
  BY DEF TypeOK, StableListed, Cursor, InLoop, AtEntry, StartTgid, StableAlive, Processes, SlotAt, PidNr, Probing
<1>4. StableAlive'
  BY DEF StableAlive, Processes
<1>5. RefsCounted'
  BY DEF TypeOK, RefsCounted, RefsOf, Returned, Probing
<1>6. PositionKept'
  BY DEF TypeOK, PositionKept, InLoop, AtEntry, Probing, EndPos, TGID_OFFSET
<1> QED
  BY <1>1, <1>2, <1>3, <1>4, <1>5, <1>6

\* Finding a process preserves IInv: f_pos now names the cursor.
LEMMA FoundTgidIInv == ASSUME IInv, NEW r \in Readers, FoundTgid(r) PROVE IInv'
<1> USE PidMaxAssumption, RoomAssumption, HookAssumption
<1> USE DEF IInv, FoundTgid
<1>1. TypeOK'
  BY DEF TypeOK, PCs, EndPos, TGID_OFFSET, Probing, SlotAt, PidNr
<1>2. ListedBelow'
  BY DEF TypeOK, ListedBelow, Cursor, InLoop, AtEntry, StartTgid, Probing
<1>3. StableListed'
  BY DEF TypeOK, StableListed, Cursor, InLoop, AtEntry, StartTgid, Probing
<1>4. StableAlive'
  BY DEF StableAlive, Processes
<1>5. RefsCounted'
  BY DEF TypeOK, RefsCounted, RefsOf, Returned, Probing
<1>6. PositionKept'
  BY DEF TypeOK, PositionKept, InLoop, AtEntry, Probing, SlotAt, PidNr, TGID_OFFSET, EndPos, has_group_leader_pid
<1> QED
  BY <1>1, <1>2, <1>3, <1>4, <1>5, <1>6

\* The end of the loop preserves IInv: no number lies above the cursor.
LEMMA NoMoreTgidIInv == ASSUME IInv, NEW r \in Readers, NoMoreTgid(r) PROVE IInv'
<1> USE PidMaxAssumption, RoomAssumption, HookAssumption
<1> USE DEF IInv, NoMoreTgid
<1>1. TypeOK'
  BY DEF TypeOK, PCs, Returned, EndPos, TGID_OFFSET
<1>2. ListedBelow'
  BY DEF TypeOK, ListedBelow, Cursor, InLoop, AtEntry, StartTgid, PidNr, EndPos, TGID_OFFSET
<1>3. StableListed'
  BY DEF TypeOK, StableListed, Cursor, InLoop, AtEntry, StartTgid, PidNr, EndPos, TGID_OFFSET
<1>4. StableAlive'
  BY DEF StableAlive, Processes
<1>5. RefsCounted'
  BY DEF TypeOK, RefsCounted, RefsOf, Returned
<1>6. PositionKept'
  BY DEF TypeOK, PositionKept, InLoop, AtEntry
<1> QED
  BY <1>1, <1>2, <1>3, <1>4, <1>5, <1>6

\* Loading the hook pointer preserves IInv.
LEMMA FetchHookIInv == ASSUME IInv, NEW r \in Readers, FetchHook(r) PROVE IInv'
<1> USE PidMaxAssumption, RoomAssumption, HookAssumption
<1> USE DEF IInv, FetchHook
<1>1. TypeOK'
  BY DEF TypeOK, PCs
<1>2. ListedBelow'
  BY DEF TypeOK, ListedBelow, Cursor, InLoop, AtEntry, StartTgid
<1>3. StableListed'
  BY DEF TypeOK, StableListed, Cursor, InLoop, AtEntry, StartTgid
<1>4. StableAlive'
  BY DEF StableAlive, Processes
<1>5. RefsCounted'
  BY DEF TypeOK, RefsCounted, RefsOf, Returned
<1>6. PositionKept'
  BY DEF TypeOK, PositionKept, InLoop, AtEntry
<1> QED
  BY <1>1, <1>2, <1>3, <1>4, <1>5, <1>6

\* The hook's return preserves IInv.
LEMMA HookReturnsIInv == ASSUME IInv, NEW r \in Readers, HookReturns(r) PROVE IInv'
<1> USE PidMaxAssumption, RoomAssumption, HookAssumption
<1> USE DEF IInv, HookReturns
<1>1. TypeOK'
  BY DEF TypeOK, PCs
<1>2. ListedBelow'
  BY DEF TypeOK, ListedBelow, Cursor, InLoop, AtEntry, StartTgid
<1>3. StableListed'
  BY DEF TypeOK, StableListed, Cursor, InLoop, AtEntry, StartTgid
<1>4. StableAlive'
  BY DEF StableAlive, Processes
<1>5. RefsCounted'
  BY DEF TypeOK, RefsCounted, RefsOf, Returned
<1>6. PositionKept'
  BY DEF TypeOK, PositionKept, InLoop, AtEntry
<1> QED
  BY <1>1, <1>2, <1>3, <1>4, <1>5, <1>6

\* Filling in an entry preserves IInv: the process joins the listing as the
\* cursor passes it; a full buffer leaves it to the next call.
LEMMA FillIInv == ASSUME IInv, NEW r \in Readers, Fill(r) PROVE IInv'
<1> USE PidMaxAssumption, RoomAssumption, HookAssumption
<1> USE DEF IInv, Fill
<1>1. tgid[r] \in PidNr /\ f_pos[r] = tgid[r] + TGID_OFFSET
  BY DEF PositionKept, AtEntry
<1>2. CASE BufferFull(r, 2)
  <2>1. TypeOK'
    BY <1>2 DEF BufferFull, TypeOK, PCs, Returned
  <2>2. \A q \in Readers : Cursor(q)' = Cursor(q)
    BY <1>1, <1>2 DEF BufferFull, TypeOK, Cursor, InLoop, AtEntry, StartTgid,
                      PidNr, TGID_OFFSET
  <2>3. ListedBelow' /\ StableListed' /\ StableAlive'
    BY <1>2, <2>2 DEF BufferFull, ListedBelow, StableListed, StableAlive, Processes
  <2>4. RefsCounted'
    BY <1>2 DEF BufferFull, TypeOK, RefsCounted, RefsOf, Returned
  <2>5. PositionKept'
    BY <1>2 DEF BufferFull, TypeOK, PositionKept, InLoop, AtEntry
  <2> QED
    BY <2>1, <2>3, <2>4, <2>5
<1>3. CASE FillEntry(r)
  <2>1. /\ tgid[r] + 1 \in 0 .. PID_MAX_LIMIT
        /\ room[r] - 1 \in 0 .. MaxRoom
        /\ listed[r] \cup {tgid[r]} \in SUBSET PidNr
    BY <1>1, <1>3 DEF FillEntry, TypeOK, PidNr
  <2>2. TypeOK'
    BY <1>3, <2>1 DEF FillEntry, TypeOK, PCs
  <2>3. /\ Cursor(r) = tgid[r] /\ Cursor(r)' = tgid[r] + 1
        /\ \A q \in Readers \ {r} : Cursor(q)' = Cursor(q)
    BY <1>3 DEF FillEntry, TypeOK, Cursor, InLoop, AtEntry, StartTgid
  <2>4. ListedBelow'
    BY SMTT(30), <1>1, <1>3, <2>3 DEF FillEntry, TypeOK, ListedBelow, PidNr
  <2>5. StableListed'
    BY SMTT(30), <1>1, <1>3, <2>3 DEF FillEntry, TypeOK, StableListed, PidNr
  <2>6. StableAlive'
    BY <1>3 DEF FillEntry, StableAlive, Processes
  <2>7. RefsCounted'
    BY <1>3 DEF FillEntry, TypeOK, RefsCounted, RefsOf, Returned
  <2>8. PositionKept'
    BY SMTT(30), <1>1, <1>3 DEF FillEntry, TypeOK, PositionKept, InLoop, AtEntry, EndPos,
                      TGID_OFFSET, PidNr
  <2> QED
    BY <2>2, <2>4, <2>5, <2>6, <2>7, <2>8
<1> QED
  BY <1>2, <1>3

\* IInv is inductive: no step of a reader or of a process breaks it.
LEMMA NextIInv == IInv /\ [Next]_vars => IInv'
<1> SUFFICES ASSUME IInv, [Next]_vars PROVE IInv'
  OBVIOUS
<1>1. CASE UNCHANGED vars
  BY <1>1 DEF vars, IInv, TypeOK, ListedBelow, StableListed, StableAlive, Processes,
              RefsCounted, PositionKept, Cursor, StartTgid, InLoop, AtEntry
<1>2. CASE Environment
  BY <1>2, EnvironmentIInv
<1>3. ASSUME NEW r \in Readers, Open(r) \/ Close(r) \/ ReaddirStart(r) PROVE IInv'
  BY <1>3, OpenIInv, CloseIInv, ReaddirStartIInv
<1>4. ASSUME NEW r \in Readers, ReaderStep(r) PROVE IInv'
  BY <1>4, BaseEntryIInv, BaseDoneIInv, SkipNumberIInv, FoundTgidIInv,
     NoMoreTgidIInv, FetchHookIInv, HookReturnsIInv, FillIInv DEF ReaderStep
<1> QED
  BY <1>1, <1>2, <1>3, <1>4 DEF Next

\* IInv holds in every reachable state of the listing.
THEOREM Inductive == Spec => []IInv
  BY InitIInv, NextIInv, PTL DEF Spec

\* Type correctness: iter.tgid and f_pos never leave their ranges.
THEOREM TypeCorrect == Spec => []TypeOK
<1>1. IInv => TypeOK
  BY DEF IInv
<1> QED
  BY <1>1, Inductive, PTL

\* A listing never hands out a pid twice: everything listed lies below the
\* cursor, and the process at hand is at the cursor.
THEOREM NoPidTwice == Spec => []NoDuplicate
<1>1. IInv => NoDuplicate
  BY DEF IInv, NoDuplicate, ListedBelow, Cursor, InLoop, TypeOK
<1> QED
  BY <1>1, Inductive, PTL

\* At the end position the cursor lies above every pid number, so IInv says
\* that everything stable is listed.
LEMMA CompleteFromIInv == IInv => ListingComplete
<1> SUFFICES ASSUME IInv, NEW r \in Readers, f_pos[r] = EndPos, NEW p \in stable[r]
             PROVE  p \in listed[r]
  BY DEF ListingComplete
<1> USE PidMaxAssumption
<1>1. p \in PidNr
  BY DEF IInv, TypeOK
<1>2. Cursor(r) = PID_MAX_LIMIT
  BY DEF IInv, PositionKept, Cursor, StartTgid, EndPos, TGID_OFFSET
<1> QED
  BY <1>1, <1>2 DEF IInv, StableListed, PidNr

\* A finished listing has every process that lived through it.
THEOREM NoProcessMissed == Spec => []ListingComplete
  BY CompleteFromIInv, Inductive, PTL

\* No task reference outlives the call that took it.
THEOREM NoReferenceLeaked == Spec => []RefsBalanced
<1>1. IInv => RefsBalanced
  BY DEF IInv, RefsBalanced, RefsCounted, RefsOf
<1> QED
  BY <1>1, Inductive, PTL

-----------------------------------------------------------------------------
(* The listing implements DirListing: every step maps to one of its steps  *)
(* or to none.                                                             *)

\* The abstract view changes only with the variables it is made of.
LEMMA SameView ==
  ASSUME Processes' = Processes, listed' = listed, stable' = stable,
         \A r \in Readers : StageOf(r)' = StageOf(r) /\ PickedBy(r)' = PickedBy(r)
  PROVE  UNCHANGED DL!vars
  BY DEF DL!vars

\* A process step is a name that comes, goes or stays.
LEMMA EnvironmentView == IInv /\ Environment => [DL!Next]_(DL!vars)
<1> SUFFICES ASSUME IInv, NEW p \in PidNr,
                    Fork(p) \/ Exit(p) \/ FreePid(p) \/ DeThreadBegin(p) \/ DeThreadEnd(p)
             PROVE [DL!Next]_(DL!vars)
  BY DEF Environment
<1>1. /\ UNCHANGED readerVars
      /\ pidmap' = [pidmap EXCEPT ![p] = pidmap'[p]]
      /\ pidmap \in [PidNr -> Slots]
  BY DEF Fork, Exit, FreePid, DeThreadBegin, DeThreadEnd, SetSlot, IInv, TypeOK
<1>2. \A r \in Readers : StageOf(r)' = StageOf(r) /\ PickedBy(r)' = PickedBy(r)
  BY <1>1 DEF readerVars, StageOf, PickedBy, AtEntry
<1>3. CASE p \notin Processes /\ p \in Processes'
  <2>1. Processes' = Processes \cup {p} /\ stable' = stable
    BY <1>1, <1>3 DEF Processes, Fork, Exit, FreePid, DeThreadBegin, DeThreadEnd, SetSlot,
                      has_group_leader_pid
  <2>2. DL!Appear(p)
    BY <1>1, <1>2, <1>3, <2>1 DEF DL!Appear, readerVars
  <2> QED
    BY <2>2 DEF DL!Next
<1>4. CASE p \in Processes /\ p \notin Processes'
  <2>1. Processes' = Processes \ {p}
    BY <1>1, <1>4 DEF Processes
  <2>2. stable' = [r \in Readers |-> stable[r] \ {p}]
    BY <1>1, <1>4 DEF Processes, Fork, Exit, FreePid, DeThreadBegin, DeThreadEnd, SetSlot,
                      has_group_leader_pid
  <2>3. DL!Vanish(p)
    BY <1>1, <1>2, <1>4, <2>1, <2>2 DEF DL!Vanish, readerVars
  <2> QED
    BY <2>3 DEF DL!Next
<1>5. CASE p \in Processes <=> p \in Processes'
  <2>1. Processes' = Processes
    BY <1>1, <1>5 DEF Processes
  <2>2. stable' = stable
    <3>1. CASE Exit(p)
      <4>1. p \notin Processes
        BY <1>1, <1>5, <3>1 DEF Exit, SetSlot, Processes, has_group_leader_pid
      <4>2. \A r \in Readers : p \notin stable[r]
        BY <4>1 DEF IInv, StableAlive
      <4>3. stable \in [Readers -> SUBSET PidNr]
        BY DEF IInv, TypeOK
      <4> QED
        BY <3>1, <4>2, <4>3 DEF Exit
    <3>2. CASE ~ Exit(p)
      BY <3>2 DEF Fork, FreePid, DeThreadBegin, DeThreadEnd
    <3> QED
      BY <3>1, <3>2
  <2> QED
    BY <1>1, <1>2, <2>1, <2>2, SameView DEF readerVars
<1> QED
  BY <1>3, <1>4, <1>5

\* Opening and closing the file open and close the listing.
LEMMA OpenCloseView ==
  ASSUME IInv, NEW r \in Readers, Open(r) \/ Close(r) PROVE DL!Next
<1> USE PidMaxAssumption
<1>1. Processes' = Processes
  BY DEF Open, Close, Processes
<1>2. /\ pc \in [Readers -> PCs] /\ f_pos \in [Readers -> FIRST_PROCESS_ENTRY .. EndPos]
      /\ tgid \in [Readers -> 0 .. PID_MAX_LIMIT]
  BY DEF IInv, TypeOK
<1>3. \A q \in Readers : PickedBy(q)' = PickedBy(q)
  <2>1. PickedBy(r) = {} /\ PickedBy(r)' = {}
    BY <1>2 DEF Open, Close, PickedBy, AtEntry
  <2>2. ASSUME NEW q \in Readers, q # r
        PROVE  pc'[q] = pc[q] /\ tgid'[q] = tgid[q]
    BY <1>2, <2>2 DEF Open, Close
  <2>3. ASSUME NEW q \in Readers, q # r
        PROVE  PickedBy(q)' = PickedBy(q)
    BY <2>2, <2>3 DEF PickedBy, AtEntry
  <2> QED
    BY <2>1, <2>3
<1>4. 256 # EndPos
  BY DEF EndPos, TGID_OFFSET
<1>5. CASE Open(r)
  <2>1. StageOf(r) = "closed" /\ StageOf(r)' = "open"
    BY <1>2, <1>4, <1>5 DEF Open, StageOf, EndPos, TGID_OFFSET
  <2>2. \A q \in Readers \ {r} : StageOf(q)' = StageOf(q)
    BY <1>2, <1>5 DEF Open, StageOf
  <2>3. DL!Open(r)
    BY <1>1, <1>3, <1>5, <2>1, <2>2 DEF Open, DL!Open
  <2> QED
    BY <2>3 DEF DL!Next
<1>6. CASE Close(r)
  <2>1. StageOf(r) # "closed" /\ StageOf(r)' = "closed" /\ PickedBy(r) = {}
    BY <1>2, <1>6 DEF Close, StageOf, PickedBy, AtEntry
  <2>2. \A q \in Readers \ {r} : StageOf(q)' = StageOf(q)
    BY <1>2, <1>6 DEF Close, StageOf
  <2>3. DL!Close(r)
    BY <1>1, <1>3, <1>6, <2>1, <2>2 DEF Close, DL!Close
  <2> QED
    BY <2>3 DEF DL!Next
<1> QED
  BY <1>5, <1>6

\* Finding a process picks a name that is there and not yet shown.
LEMMA FoundTgidView == ASSUME IInv, NEW r \in Readers, FoundTgid(r) PROVE DL!Next
<1> USE PidMaxAssumption
<1>1. Processes' = Processes /\ listed' = listed /\ stable' = stable
  BY DEF FoundTgid, Processes
<1>2. tgid[r] \in Processes
  BY DEF FoundTgid, Probing, SlotAt, Processes, has_group_leader_pid
<1>3. tgid[r] \in PidNr /\ tgid[r] \notin listed[r]
  BY <1>2 DEF Processes, IInv, ListedBelow, Cursor, InLoop, FoundTgid, Probing, PidNr
<1>4. /\ pc \in [Readers -> PCs] /\ f_pos \in [Readers -> FIRST_PROCESS_ENTRY .. EndPos]
      /\ pc[r] = "next" /\ pc' = [pc EXCEPT ![r] = "hook"] /\ tgid' = tgid
      /\ f_pos' = [f_pos EXCEPT ![r] = tgid[r] + TGID_OFFSET]
  BY DEF IInv, TypeOK, FoundTgid, Probing
<1>5. f_pos[r] # EndPos /\ f_pos'[r] # EndPos
  BY <1>3, <1>4 DEF IInv, PositionKept, InLoop, PidNr, EndPos, TGID_OFFSET
<1>6. \A q \in Readers : StageOf(q)' = StageOf(q)
  BY <1>4, <1>5 DEF StageOf
<1>7. StageOf(r) = "open" /\ PickedBy(r) = {} /\ PickedBy(r)' = {tgid[r]}
  BY <1>4, <1>5 DEF StageOf, PickedBy, AtEntry
<1>8. \A q \in Readers \ {r} : PickedBy(q)' = PickedBy(q)
  BY <1>4 DEF PickedBy, AtEntry
<1>9. DL!Pick(r, tgid[r])
  BY <1>1, <1>2, <1>3, <1>6, <1>7, <1>8 DEF DL!Pick
<1> QED
  BY <1>3, <1>9 DEF DL!Next

\* The end of the loop ends the listing, with all that is due shown; a call
\* at the end position changes nothing.
LEMMA NoMoreTgidView ==
  ASSUME IInv, NEW r \in Readers, NoMoreTgid(r) PROVE [DL!Next]_(DL!vars)
<1> USE PidMaxAssumption
<1>1. Processes' = Processes /\ listed' = listed /\ stable' = stable
  BY DEF NoMoreTgid, Processes
<1>2. /\ pc \in [Readers -> PCs] /\ f_pos \in [Readers -> FIRST_PROCESS_ENTRY .. EndPos]
      /\ pc[r] = "next" /\ pc' = [pc EXCEPT ![r] = "idle"] /\ tgid' = tgid
      /\ f_pos' = [f_pos EXCEPT ![r] = EndPos]
      /\ EndPos \in Nat
  BY DEF IInv, TypeOK, NoMoreTgid, EndPos, TGID_OFFSET
<1>3. \A q \in Readers : PickedBy(q)' = PickedBy(q)
  BY <1>2 DEF PickedBy, AtEntry
<1>4. PickedBy(r) = {} /\ StageOf(r)' = "ended" /\ StageOf(r) \in {"open", "ended"}
  BY <1>2 DEF PickedBy, AtEntry, StageOf
<1>5. \A q \in Readers \ {r} : StageOf(q)' = StageOf(q)
  BY <1>2 DEF StageOf
<1>6. CASE StageOf(r) = "ended"
  BY <1>1, <1>3, <1>4, <1>5, <1>6, SameView
<1>7. CASE StageOf(r) = "open"
  <2>1. stable[r] \subseteq listed[r]
    BY DEF IInv, TypeOK, StableListed, Cursor, InLoop, NoMoreTgid, PidNr
  <2>2. DL!End(r)
    BY <1>1, <1>3, <1>4, <1>5, <1>7, <2>1 DEF DL!End
  <2> QED
    BY <2>2 DEF DL!Next
<1> QED
  BY <1>4, <1>6, <1>7

\* Filling the entry in shows the name; a full buffer drops it.
LEMMA FillView == ASSUME IInv, NEW r \in Readers, Fill(r) PROVE DL!Next
<1>1. Processes' = Processes /\ stable' = stable /\ f_pos' = f_pos
  BY DEF Fill, FillEntry, BufferFull, Processes
<1>2. /\ pc \in [Readers -> PCs] /\ tgid \in [Readers -> 0 .. PID_MAX_LIMIT]
      /\ pc[r] = "fill" /\ pc'[r] \in {"next", "idle"}
      /\ pc' = [pc EXCEPT ![r] = pc'[r]]
      /\ \A q \in Readers \ {r} : tgid'[q] = tgid[q]
  BY DEF IInv, TypeOK, Fill, FillEntry, BufferFull
<1>3. \A q \in Readers : StageOf(q)' = StageOf(q)
  BY <1>1, <1>2 DEF StageOf
<1>4. PickedBy(r) = {tgid[r]} /\ PickedBy(r)' = {}
  BY <1>2 DEF PickedBy, AtEntry
<1>5. \A q \in Readers \ {r} : PickedBy(q)' = PickedBy(q)
  BY <1>2 DEF PickedBy, AtEntry
<1>6. CASE FillEntry(r)
  <2>1. listed' = [listed EXCEPT ![r] = @ \cup PickedBy(r)]
    BY <1>4, <1>6 DEF FillEntry
  <2>2. DL!Show(r)
    BY <1>1, <1>3, <1>4, <1>5, <2>1 DEF DL!Show
  <2> QED
    BY <2>2 DEF DL!Next
<1>7. CASE BufferFull(r, 2)
  <2>1. listed' = listed
    BY <1>7 DEF BufferFull
  <2>2. DL!Drop(r)
    BY <1>1, <1>3, <1>4, <1>5, <2>1 DEF DL!Drop
  <2> QED
    BY <2>2 DEF DL!Next
<1> QED
  BY <1>6, <1>7 DEF Fill

\* All other steps of a call are inside the handler: the view stays.
LEMMA InsideView ==
  ASSUME IInv, NEW r \in Readers,
         \/ ReaddirStart(r) \/ BaseEntry(r) \/ BaseDone(r) \/ SkipNumber(r)
         \/ FetchHook(r) \/ HookReturns(r)
  PROVE  UNCHANGED DL!vars
<1> USE PidMaxAssumption
<1>1. Processes' = Processes /\ listed' = listed /\ stable' = stable
  BY DEF ReaddirStart, BaseEntry, FillBase, BufferFull, BaseDone, SkipNumber, FetchHook,
         HookReturns, Processes, vars
<1>2. /\ pc \in [Readers -> PCs] /\ f_pos \in [Readers -> FIRST_PROCESS_ENTRY .. EndPos]
      /\ tgid \in [Readers -> 0 .. PID_MAX_LIMIT]
  BY DEF IInv, TypeOK
<1>3. \A q \in Readers : PickedBy(q)' = PickedBy(q)
  BY <1>2 DEF ReaddirStart, BaseEntry, FillBase, BufferFull, BaseDone, SkipNumber, FetchHook,
              HookReturns, PickedBy, AtEntry, vars, Probing
<1>4. \A q \in Readers : StageOf(q)' = StageOf(q)
  BY <1>2 DEF ReaddirStart, BaseEntry, FillBase, BufferFull, BaseDone, SkipNumber, FetchHook,
              HookReturns, StageOf, vars, Probing, EndPos, TGID_OFFSET
<1> QED
  BY <1>1, <1>3, <1>4, SameView

\* No step of the listing leaves the abstract one.
LEMMA NextView == IInv /\ [Next]_vars => [DL!Next]_(DL!vars)
<1> SUFFICES ASSUME IInv, [Next]_vars PROVE [DL!Next]_(DL!vars)
  OBVIOUS
<1>1. CASE UNCHANGED vars
  <2>1. /\ Processes' = Processes /\ listed' = listed /\ stable' = stable
        /\ \A r \in Readers : StageOf(r)' = StageOf(r) /\ PickedBy(r)' = PickedBy(r)
    BY <1>1 DEF vars, Processes, StageOf, PickedBy, AtEntry
  <2> QED
    BY <2>1, SameView
<1>2. CASE Environment
  BY <1>2, EnvironmentView
<1>3. ASSUME NEW r \in Readers, Open(r) \/ Close(r) \/ ReaddirStart(r)
      PROVE [DL!Next]_(DL!vars)
  BY <1>3, OpenCloseView, InsideView
<1>4. ASSUME NEW r \in Readers, ReaderStep(r) PROVE [DL!Next]_(DL!vars)
  BY <1>4, InsideView, FoundTgidView, NoMoreTgidView, FillView DEF ReaderStep
<1> QED
  BY <1>1, <1>2, <1>3, <1>4 DEF Next

\* proc_pid_readdir() implements the abstract directory listing.
THEOREM ListingRefined == Spec => ImplementsListing
<1>1. Init => DL!Init
  BY PidMaxAssumption DEF Init, DL!Init, StageOf, PickedBy, AtEntry, Processes
<1> QED
  BY <1>1, NextView, Inductive, PTL DEF Spec, ImplementsListing, DL!Spec

-----------------------------------------------------------------------------
(* The listing and the users of its hook.                                  *)

HIInv == IInv /\ HTypeOK

\* A step that changes no more of the listing than the hook pointer keeps IInv.
LEMMA HookOnlyIInv ==
    ASSUME IInv, hook' \in HookFns, UNCHANGED <<pidmap, readerVars, stable>>
    PROVE  IInv'
<1>1. TypeOK'
  BY DEF IInv, TypeOK, readerVars
<1>2. /\ ListedBelow' /\ StableListed' /\ StableAlive' /\ RefsCounted' /\ PositionKept'
  BY DEF IInv, readerVars, ListedBelow, StableListed, StableAlive, Processes,
         RefsCounted, PositionKept, Cursor, StartTgid, InLoop, AtEntry
<1> QED
  BY <1>1, <1>2 DEF IInv

\* Every step of a module or of a listing that runs beside it keeps the
\* listing's inductive invariant and the modules' types.
LEMMA NextHIInv == HIInv /\ [HNext]_hvars => HIInv'
<1> SUFFICES ASSUME HIInv, [HNext]_hvars PROVE HIInv'
  OBVIOUS
<1> USE DEF HIInv
<1>1. CASE UNCHANGED hvars
  <2>1. UNCHANGED vars
    BY <1>1 DEF hvars
  <2>2. IInv'
    BY <2>1, NextIInv
  <2> QED
    BY <1>1, <2>2 DEF hvars, modVars, HTypeOK, IInv
<1>2. CASE Listing
  <2>1. Next
    BY <1>2 DEF Listing, Next, ReaderStep
  <2>2. IInv'
    BY <2>1, NextIInv
  <2> QED
    BY <1>2, <2>2 DEF Listing, modVars, HTypeOK, IInv
<1>3. ASSUME NEW m \in Mods,
             InitMark(m) \/ InitSave(m) \/ InitSet(m) \/ Cleanup(m) \/ Unload(m)
      PROVE  HIInv'
  <2>1. /\ hook' \in HookFns
        /\ UNCHANGED <<pidmap, readerVars, stable>>
    BY <1>3, ModsAssumption
    DEF InitMark, InitSave, InitSet, Cleanup, Unload, HTypeOK, TypeOK, vars, readerVars
  <2>2. IInv'
    BY <2>1, HookOnlyIInv
  <2>3. mod' \in [Mods -> ModStates] /\ original' \in [Mods -> HookFns]
    BY <1>3 DEF InitMark, InitSave, InitSet, Cleanup, Unload, HTypeOK, TypeOK, ModStates
  <2> QED
    BY <2>1, <2>2, <2>3 DEF HTypeOK, IInv
<1>4. ASSUME NEW r \in Readers, HookCall(r) PROVE HIInv'
  <2>1. Next /\ UNCHANGED modVars
    BY <1>4 DEF HookCall, Next, ReaderStep
  <2>2. IInv'
    BY <2>1, NextIInv
  <2> QED
    BY <2>1, <2>2 DEF modVars, HTypeOK, IInv
<1> QED
  BY <1>1, <1>2, <1>3, <1>4 DEF HNext, ModStep

\* The listing's invariant holds whatever modules do to the hook.
LEMMA InductiveH == HSpec => []HIInv
<1>1. HInit => HIInv
  <2> SUFFICES ASSUME HInit PROVE HIInv
    OBVIOUS
  <2>1. IInv
    BY InitIInv DEF HInit
  <2>2. HTypeOK
    BY <2>1, HookAssumption DEF HInit, HTypeOK, IInv, ModStates
  <2> QED
    BY <2>1, <2>2 DEF HIInv
<1> QED
  BY <1>1, NextHIInv, PTL DEF HSpec

\* No module can make the kernel's listing lose a process: with any number of
\* hook users loading and unloading, a finished listing is still complete.
THEOREM HookedListingComplete == HSpec => []ListingComplete
<1>1. HIInv => ListingComplete
  BY CompleteFromIInv DEF HIInv
<1> QED
  BY <1>1, InductiveH, PTL

\* With one user of the hook the pointer never leads into unloaded code:
\* cleanup_module() always finds its own function and puts the dummy back.
THEOREM HookNeverDangles ==
    ASSUME \A m, n \in Mods : m = n
    PROVE  HSpec => []HookLive
<1>1. HInit => OwnerOnly
  BY DEF HInit, Init, OwnerOnly
<1>2. OwnerOnly /\ HTypeOK /\ [HNext]_hvars => OwnerOnly'
  <2> SUFFICES ASSUME OwnerOnly, HTypeOK, [HNext]_hvars PROVE OwnerOnly'
    OBVIOUS
  <2>1. CASE hook' = hook /\ UNCHANGED modVars
    BY <2>1 DEF OwnerOnly, modVars
  <2>2. ASSUME NEW m \in Mods,
               InitMark(m) \/ InitSave(m) \/ InitSet(m) \/ Cleanup(m) \/ Unload(m)
        PROVE  OwnerOnly'
    <3>1. \A n \in Mods : n = m
      OBVIOUS
    <3> QED
      BY <2>2, <3>1
      DEF InitMark, InitSave, InitSet, Cleanup, Unload, OwnerOnly, HTypeOK, vars
  <2>3. CASE Listing \/ \E r \in Readers : HookCall(r)
    <3>1. UNCHANGED <<hook, modVars>>
      BY <2>3 DEF Listing, HookCall, Environment, Fork, Exit, FreePid,
                  DeThreadBegin, DeThreadEnd, SetSlot, Open, Close, ReaddirStart, vars,
                  BaseEntry, FillBase, BufferFull, BaseDone, SkipNumber, FoundTgid,
                  NoMoreTgid, FetchHook, HookReturns, Fill, FillEntry
    <3> QED
      BY <3>1, <2>1
  <2>4. CASE UNCHANGED hvars
    BY <2>4, <2>1 DEF hvars, vars
  <2> QED
    BY <2>2, <2>3, <2>4 DEF HNext, ModStep
<1>3. OwnerOnly => HookLive
  BY ModsAssumption DEF OwnerOnly, HookLive, Resident
<1>4. HIInv => HTypeOK
  BY DEF HIInv
<1> QED
  BY <1>1, <1>2, <1>3, <1>4, InductiveH, PTL DEF HSpec

\* Whatever users of the hook come and go, the listing of /proc implements
\* the abstract directory listing.
THEOREM HookedListingRefined == HSpec => ImplementsListing
<1>1. HInit => DL!Init
  BY PidMaxAssumption DEF HInit, Init, DL!Init, StageOf, PickedBy, AtEntry, Processes
<1>2. HIInv /\ [HNext]_hvars => [DL!Next]_(DL!vars)
  <2> SUFFICES ASSUME HIInv, [HNext]_hvars PROVE [DL!Next]_(DL!vars)
    OBVIOUS
  <2>1. IInv
    BY DEF HIInv
  <2>2. CASE UNCHANGED <<pidmap, readerVars, stable>>
    <3>1. /\ Processes' = Processes /\ listed' = listed /\ stable' = stable
          /\ \A r \in Readers : StageOf(r)' = StageOf(r) /\ PickedBy(r)' = PickedBy(r)
      BY <2>2 DEF readerVars, Processes, StageOf, PickedBy, AtEntry
    <3> QED
      BY <3>1, SameView
  <2>3. CASE Listing \/ \E r \in Readers : HookCall(r)
    <3>1. Next
      BY <2>3 DEF Listing, HookCall, Next, ReaderStep
    <3> QED
      BY <2>1, <3>1, NextView
  <2>4. CASE ModStep
    <3>1. UNCHANGED <<pidmap, readerVars, stable>>
      BY <2>4 DEF ModStep, InitMark, InitSave, InitSet, Cleanup, Unload, vars, readerVars
    <3> QED
      BY <2>2, <3>1
  <2>5. CASE UNCHANGED hvars
    BY <2>5, <2>2 DEF hvars, vars, readerVars
  <2> QED
    BY <2>3, <2>4, <2>5 DEF HNext
<1> QED
  BY <1>1, <1>2, InductiveH, PTL DEF HSpec, ImplementsListing, DL!Spec

\* A step of a module that takes its turn keeps the chain.
LEMMA InTurnChain ==
    ASSUME Chain, HTypeOK, InTurn, NEW m \in Mods,
           InitMark(m) \/ InitSave(m) \/ InitSet(m) \/ Cleanup(m) \/ Unload(m)
    PROVE  Chain'
<1> USE ModsAssumption
<1>1. /\ mod \in [Mods -> ModStates] /\ original \in [Mods -> HookFns] /\ hook \in HookFns
      /\ m # dummy_in_proc_pid_readdir
  BY DEF HTypeOK, TypeOK
<1>2. CASE InitMark(m) \/ Unload(m)
  <2>1. /\ hook' = hook /\ original' = original /\ Live' = Live
        /\ \A n \in Mods : mod'[n] = "saved" <=> mod[n] = "saved"
    BY <1>1, <1>2 DEF InitMark, Unload, Live, vars
  <2> QED
    BY <2>1 DEF Chain
<1>3. CASE InitSave(m)
  <2>1. NoneSaved
    BY <1>3 DEF InTurn
  <2>2. /\ hook' = hook /\ Live' = Live
        /\ original'[m] = hook /\ \A n \in Mods \ {m} : original'[n] = original[n]
        /\ m \notin Live
        /\ \A n \in Mods : mod'[n] = "saved" <=> n = m
    BY <1>1, <1>3, <2>1 DEF InitSave, Live, NoneSaved, vars
  <2>3. \A n \in Live : n \in Mods \ {m}
    BY <2>2 DEF Live
  <2> QED
    BY <2>2, <2>3 DEF Chain
<1>4. CASE InitSet(m)
  <2>1. /\ hook' = m /\ original' = original /\ Live' = Live \cup {m} /\ m \notin Live
        /\ original[m] = hook
        /\ \A n \in Mods : mod'[n] # "saved"
    BY <1>1, <1>4 DEF InitSet, Live, Chain
  <2> QED
    BY <1>1, <2>1 DEF Chain
<1>5. CASE Cleanup(m)
  <2>1. NoneSaved /\ hook = m
    BY <1>5 DEF InTurn
  <2>2. /\ hook' = original[m] /\ original' = original /\ Live' = Live \ {m} /\ m \in Live
        /\ \A n \in Mods : mod'[n] # "saved"
    BY <1>1, <1>5, <2>1 DEF Cleanup, Live, NoneSaved
  <2> QED
    BY <1>1, <2>1, <2>2 DEF Chain
<1> QED
  BY <1>2, <1>3, <1>4, <1>5

\* Any number of modules may use the hook, and the pointer still never leads
\* into unloaded code, if they take turns and the last in is the first out.
THEOREM HookNeverDanglesInTurn ==
    HInit /\ [][HNext /\ InTurn]_hvars => []HookLive
<1>1. HInit => Chain
  BY DEF HInit, Init, Chain, Live
<1>2. Chain /\ HTypeOK /\ [HNext /\ InTurn]_hvars => Chain'
  <2> SUFFICES ASSUME Chain, HTypeOK, [HNext /\ InTurn]_hvars PROVE Chain'
    OBVIOUS
  <2>1. CASE hook' = hook /\ UNCHANGED modVars
    BY <2>1 DEF Chain, modVars, Live
  <2>2. CASE ModStep /\ InTurn
    BY <2>2, InTurnChain DEF ModStep
  <2>3. CASE Listing \/ \E r \in Readers : HookCall(r)
    <3>1. UNCHANGED <<hook, modVars>>
      BY <2>3 DEF Listing, HookCall, Environment, Fork, Exit, FreePid,
                  DeThreadBegin, DeThreadEnd, SetSlot, Open, Close, ReaddirStart, vars,
                  BaseEntry, FillBase, BufferFull, BaseDone, SkipNumber, FoundTgid,
                  NoMoreTgid, FetchHook, HookReturns, Fill, FillEntry
    <3> QED
      BY <3>1, <2>1
  <2>4. CASE UNCHANGED hvars
    BY <2>4, <2>1 DEF hvars, vars
  <2> QED
    BY <2>2, <2>3, <2>4 DEF HNext
<1>3. Chain => HookLive
  BY ModsAssumption DEF Chain, Live, HookLive, Resident
<1>4. HInit => HIInv
  <2> SUFFICES ASSUME HInit PROVE HIInv
    OBVIOUS
  <2>1. IInv
    BY InitIInv DEF HInit
  <2> QED
    BY <2>1, HookAssumption DEF HInit, HTypeOK, IInv, ModStates, HIInv
<1>5. HIInv /\ [HNext /\ InTurn]_hvars => HIInv'
  BY NextHIInv
<1>6. HIInv => HTypeOK
  BY DEF HIInv
<1> QED
  BY <1>1, <1>2, <1>3, <1>4, <1>5, <1>6, PTL
=============================================================================

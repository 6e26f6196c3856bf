--------------------------- MODULE ProcSimProofs ---------------------------
(***************************************************************************)
(* Theorems about ProcSim, for every number of descriptors, every size of  *)
(* program, memory, stack and save area, with and without ExecFirst.       *)
(*                                                                         *)
(* What exit restores comes out of the save area, so that even the types   *)
(* of mem, ustk and cpu depend on the save records being intact.  IInv     *)
(* adds that to TypeOK: a live record is laid out the way clone writes it, *)
(* holds what clone put there, and no record overlaps another or reaches   *)
(* beyond next_save_process_address.                                       *)
(*                                                                         *)
(* The second half is about the images behind the descriptors, the running *)
(* one and those the save area holds: what every operation makes of them.  *)
(* Clean makes NoLeftovers inductive, and with a lemma per action the save *)
(* area implements the stack of ProcStack.                                 *)
(***************************************************************************)
EXTENDS ProcSim, SequenceTheorems, TLAPS

\* Only the current process may have an unfinished fork, and just one.
OneFork ==
    /\ proc[0].forked = 0
    /\ \A l \in 1 .. npn - 1 : proc[l].forked <= IF l = npn - 1 THEN 1 ELSE 0

\* The record in descriptor d is laid out the way clone writes it.
Contiguous(d) ==
    /\ d.memAddr = d.stackAddr + 1
    /\ d.ustkAddr = d.memAddr + d.memLen
    /\ d.savedBrk = d.memLen

\* The save area has, where the record in d says, a process image.
Intact(d, area) ==
    /\ area[d.stackAddr] \in Cpu
    /\ area[d.stackAddr].sp = StkTop - d.ustkLen
    /\ \A i \in 0 .. d.memLen - 1 : area[d.memAddr + i] \in Values
    /\ \A i \in 0 .. d.ustkLen - 1 : area[d.ustkAddr + i] \in Values

RecordsOK ==
    \A l \in 1 .. Waiting : Contiguous(proc[l]) /\ Intact(proc[l], save)

IInv ==
    /\ TypeOK
    /\ OneFork
    /\ RecordsOK
    /\ LiveRecordsAllocated
    /\ ExecFirst => SaveAreaIsStack

-----------------------------------------------------------------------------
(* The operators of the model *)

USE ParamsAssumption

\* Copying n cells keeps the length and gives cells of either array.
LEMMA CopiedType ==
    ASSUME NEW N \in Nat, NEW S, NEW dst \in [0 .. N - 1 -> S],
           NEW d \in Int, NEW src, NEW s \in Int, NEW n \in Int,
           \A i \in 0 .. n - 1 : src[s + i] \in S
    PROVE  Copied(dst, d, src, s, n) \in [0 .. N - 1 -> S]
<1>1. SUFFICES ASSUME NEW a \in 0 .. N - 1
               PROVE  Copied(dst, d, src, s, n)[a] \in S
  BY DEF Copied
<1>2. CASE a \in d .. d + n - 1
  <2>1. a - d \in 0 .. n - 1
    BY <1>2
  <2> QED
    BY <1>2, <2>1 DEF Copied
<1>3. CASE a \notin d .. d + n - 1
  BY <1>3 DEF Copied
<1> QED
  BY <1>2, <1>3

\* A cell outside the destination of a copy is unchanged.
LEMMA CopiedOutside ==
    ASSUME NEW dst, NEW d, NEW src, NEW s, NEW n,
           NEW a \in DOMAIN dst, a \notin d .. d + n - 1
    PROVE  Copied(dst, d, src, s, n)[a] = dst[a]
BY DEF Copied

\* A cell inside it is the corresponding cell of the source.
LEMMA CopiedInside ==
    ASSUME NEW dst, NEW d \in Int, NEW src, NEW s \in Int, NEW n \in Int,
           NEW i \in 0 .. n - 1, d + i \in DOMAIN dst
    PROVE  Copied(dst, d, src, s, n)[d + i] = src[s + i]
BY DEF Copied

\* Loading a program fills the window with cells that memory may hold.
LEMMA LoadedType ==
    ASSUME NEW p \in Progs, NEW old \in [0 .. MemCap - 1 -> Values]
    PROVE  /\ LoadedMem(p, old) \in [0 .. MemCap - 1 -> Values]
           /\ EntryCpu(p) \in Cpu
BY DEF LoadedMem, EntryCpu, Cpu, Values

LEMMA WithArgsType ==
    ASSUME NEW path \in Progs \cup {NoProg}, NEW stk \in [0 .. StkTop - 1 -> Values]
    PROVE  WithArgs(stk, path) \in [0 .. StkTop - 1 -> Values]
BY DEF WithArgs, Values

\* Registers after a push, a pop or the return of a call.
LEMMA CpuType ==
    ASSUME NEW c \in Cpu, NEW n \in 0 .. StkTop, NEW v \in {-1, 0, 1}
    PROVE  /\ [c EXCEPT !.sp = n, !.a0 = v] \in Cpu
           /\ [c EXCEPT !.a0 = v] \in Cpu
           /\ c.prog \in Values
BY DEF Cpu, Values

-----------------------------------------------------------------------------
LEMMA InitIInv == Init => IInv
<1> SUFFICES ASSUME Init PROVE IInv
  OBVIOUS
<1>1. ClearedDescriptor \in Descriptor
  BY DEF ClearedDescriptor, Descriptor, StatusCodes, FaultCode
<1>2. cpu \in Cpu
  BY DEF Init, EntryCpu, Cpu
<1>3. TypeOK
  BY <1>1, <1>2 DEF Init, TypeOK, Values
<1>4. OneFork
  BY DEF Init, OneFork, ClearedDescriptor
<1>5. Waiting = 0
  BY DEF Init, Waiting
<1>6. RecordsOK /\ LiveRecordsAllocated /\ SaveAreaIsStack
  BY <1>5 DEF RecordsOK, LiveRecordsAllocated, SaveAreaIsStack, SavedUpTo, Init
<1> QED
  BY <1>3, <1>4, <1>6 DEF IInv

-----------------------------------------------------------------------------
(* Steps *)

\* The two descriptors hold the same save record.
SameRecord(d, e) ==
    /\ d.stackAddr = e.stackAddr /\ d.memAddr = e.memAddr /\ d.memLen = e.memLen
    /\ d.ustkAddr = e.ustkAddr /\ d.ustkLen = e.ustkLen /\ d.savedBrk = e.savedBrk

\* A step that neither adds a live record nor touches the save area keeps the
\* records, provided that next_save_process_address stays above them.
LEMMA RecordsKept ==
    ASSUME RecordsOK, LiveRecordsAllocated, save' = save,
           Waiting \in Nat, Waiting' \in Nat, Waiting' <= Waiting,
           \A l \in 1 .. Waiting' : SameRecord(proc[l], proc'[l]),
           \A l \in 1 .. Waiting' : RecordEnd(l) <= nextSave'
    PROVE  /\ RecordsOK' /\ LiveRecordsAllocated'
           /\ SaveAreaIsStack /\ nextSave' = SavedUpTo(Waiting') => SaveAreaIsStack'
<1>1. \A l \in 1 .. Waiting' : l \in 1 .. Waiting
  OBVIOUS
<1>2. \A l \in 1 .. Waiting' : /\ RecordEnd(l)' = RecordEnd(l)
                               /\ RecordStart(l)' = RecordStart(l)
  BY DEF SameRecord, RecordEnd, RecordStart
<1>3. RecordsOK'
  <2> SUFFICES ASSUME NEW l \in 1 .. Waiting'
               PROVE  Contiguous(proc[l])' /\ Intact(proc[l], save)'
    BY DEF RecordsOK
  <2>1. Contiguous(proc[l]) /\ Intact(proc[l], save) /\ SameRecord(proc[l], proc'[l])
    BY <1>1 DEF RecordsOK
  <2> QED
    BY <2>1 DEF Contiguous, Intact, SameRecord
<1>4. LiveRecordsAllocated'
  <2> SUFFICES ASSUME NEW l \in 1 .. Waiting'
               PROVE  /\ RecordEnd(l)' <= nextSave'
                      /\ \A m \in 1 .. l - 1 : RecordEnd(m)' <= RecordStart(l)'
    BY DEF LiveRecordsAllocated
  <2>1. RecordEnd(l)' <= nextSave'
    BY <1>2
  <2>2. ASSUME NEW m \in 1 .. l - 1 PROVE RecordEnd(m)' <= RecordStart(l)'
    <3>1. m \in 1 .. Waiting' /\ l \in 1 .. Waiting
      OBVIOUS
    <3> QED
      BY <1>2, <3>1 DEF LiveRecordsAllocated
  <2> QED
    BY <2>1, <2>2
<1>5. ASSUME SaveAreaIsStack, nextSave' = SavedUpTo(Waiting') PROVE SaveAreaIsStack'
  <2>1. ASSUME NEW k \in 0 .. Waiting' PROVE SavedUpTo(k)' = SavedUpTo(k)
    <3>1. k # 0 => k \in 1 .. Waiting'
      OBVIOUS
    <3> QED
      BY <1>2, <3>1 DEF SavedUpTo
  <2>2. nextSave' = SavedUpTo(Waiting)'
    <3>1. Waiting' # 0 => Waiting' \in 1 .. Waiting'
      OBVIOUS
    <3> QED
      BY <1>2, <1>5, <3>1 DEF SavedUpTo
  <2>3. ASSUME NEW l \in 1 .. Waiting' PROVE RecordStart(l)' = SavedUpTo(l - 1)'
    <3>1. l - 1 \in 0 .. Waiting' /\ l \in 1 .. Waiting
      OBVIOUS
    <3> QED
      BY <1>2, <1>5, <2>1, <3>1 DEF SaveAreaIsStack
  <2> QED
    BY <2>2, <2>3 DEF SaveAreaIsStack
<1> QED
  BY <1>3, <1>4, <1>5

\* Facts that every step of a running process starts from.
LEMMA RunningFacts ==
    ASSUME IInv, Running
    PROVE  /\ npn \in 2 .. MaxProcs
           /\ Current \in 1 .. MaxProcs - 1
           /\ proc[Current] \in Descriptor
           /\ proc[Current].forked \in {0, 1}
           /\ Waiting = IF Child THEN npn - 1 ELSE npn - 2
           /\ Waiting \in Nat
<1>1. npn \in 2 .. MaxProcs /\ Current \in 1 .. MaxProcs - 1
  BY SMTT(60) DEF IInv, TypeOK, Running, Current
<1>2. proc[Current] \in Descriptor
  BY <1>1 DEF IInv, TypeOK
<1>3. proc[Current].forked <= 1
  BY <1>1 DEF IInv, OneFork, Current
<1>4. proc[Current].forked \in Nat
  BY <1>2 DEF Descriptor
<1> QED
  BY <1>1, <1>2, <1>3, <1>4 DEF Waiting

\* A step of the user program, or a call that leaves descriptors, levels and
\* save area alone, needs only keep its types.
LEMMA LocalStep ==
    ASSUME IInv, Running,
           UNCHANGED <<mode, npn, proc, nextSave, save>>,
           mem' \in [0 .. MemCap - 1 -> Values], brk' \in 0 .. MemCap,
           ustk' \in [0 .. StkTop - 1 -> Values], cpu' \in Cpu
    PROVE  IInv'
<1>1. TypeOK'
  BY DEF IInv, TypeOK
<1>2. OneFork'
  BY DEF IInv, OneFork
<1>3. Waiting' = Waiting
  BY DEF Waiting, Child, Current
<1>4. RecordsOK' /\ LiveRecordsAllocated'
  BY <1>3 DEF IInv, RecordsOK, LiveRecordsAllocated, Contiguous, Intact, RecordEnd, RecordStart
<1>5. SaveAreaIsStack => SaveAreaIsStack'
  BY <1>3 DEF SaveAreaIsStack, SavedUpTo, RecordEnd, RecordStart
<1> QED
  BY <1>1, <1>2, <1>4, <1>5 DEF IInv

LEMMA UserStepIInv == IInv /\ UserStep => IInv'
<1> SUFFICES ASSUME IInv, UserStep PROVE IInv'
  OBVIOUS
<1>1. cpu \in Cpu /\ cpu.sp \in 0 .. StkTop /\ Running
  BY DEF IInv, TypeOK, Cpu, UserStep, Store, Push, Pop
<1> USE DEF IInv, TypeOK
<1>2. ASSUME NEW i \in Touched, Store(i) PROVE IInv'
  BY <1>1, <1>2, LocalStep, CpuType DEF Store
<1>3. CASE Push
  <2>1. cpu.sp - 1 \in 0 .. StkTop - 1 /\ cpu.sp - 1 \in 0 .. StkTop
    BY <1>1, <1>3, SMTT(60) DEF Push
  <2>2. cpu' \in Cpu
    BY <1>1, <1>3, <2>1, CpuType DEF Push
  <2> QED
    BY <1>1, <1>3, <2>1, <2>2, CpuType, LocalStep DEF Push
<1>4. CASE Pop
  <2>1. cpu.sp + 1 \in 0 .. StkTop
    BY <1>1, <1>4, SMTT(60) DEF Pop
  <2>2. cpu' \in Cpu
    BY <1>1, <1>4, <2>1, CpuType DEF Pop
  <2> QED
    BY <1>1, <1>4, <2>2, LocalStep DEF Pop
<1> QED
  BY <1>2, <1>3, <1>4 DEF UserStep

LEMMA WaitIInv == ASSUME NEW i \in WaitSlots, NEW ret \in {0, 1} PROVE IInv /\ Wait(i, ret) => IInv'
<1> SUFFICES ASSUME IInv, Wait(i, ret) PROVE IInv'
  OBVIOUS
<1>1. Running
  BY DEF Wait
<1>2. StatusWord[proc[Current].status] \in Values
  BY <1>1, RunningFacts DEF Descriptor, Values
<1>3. cpu' \in Cpu
  BY CpuType DEF IInv, TypeOK, Wait, Cpu
<1> QED
  BY <1>1, <1>2, <1>3, LocalStep DEF IInv, TypeOK, Wait

LEMMA BrkIInv == ASSUME NEW n \in Brks PROVE IInv /\ Brk(n) => IInv'
<1> SUFFICES ASSUME IInv, Brk(n) PROVE IInv'
  OBVIOUS
<1>1. Running
  BY DEF Brk
<1>2. cpu' \in Cpu
  BY CpuType DEF IInv, TypeOK, Brk, Cpu
<1>3. mem' \in [0 .. MemCap - 1 -> Values] /\ brk' \in 0 .. MemCap
  BY SMTT(60) DEF IInv, TypeOK, Brk, BreakAllowed, Values
<1> QED
  BY <1>1, <1>2, <1>3, LocalStep DEF IInv, TypeOK, Brk

\* A directory, a set of open files or a status is no part of a save record.
LEMMA AttributeType ==
    ASSUME NEW d \in Descriptor, NEW dir \in Dirs, NEW F \in SUBSET Fds,
           NEW c \in StatusCodes,
           NEW e \in {[d EXCEPT !.cwd = dir], [d EXCEPT !.fds = F], [d EXCEPT !.status = c]}
    PROVE  e \in Descriptor /\ SameRecord(d, e) /\ e.forked = d.forked
<1>1. CASE e = [d EXCEPT !.cwd = dir]
  BY <1>1 DEF Descriptor, SameRecord
<1>2. CASE e = [d EXCEPT !.fds = F]
  BY <1>2 DEF Descriptor, SameRecord
<1>3. CASE e = [d EXCEPT !.status = c]
  BY <1>3 DEF Descriptor, SameRecord
<1> QED
  BY <1>1, <1>2, <1>3

\* chdir and the file calls change fields of the current descriptor that no
\* save record is made of.
LEMMA AttributesIInv ==
    ASSUME NEW dir \in Dirs, NEW F \in SUBSET Fds
    PROVE  IInv /\ (Chdir(dir) \/ SetFds(F)) => IInv'
<1> SUFFICES ASSUME IInv, Chdir(dir) \/ SetFds(F) PROVE IInv'
  OBVIOUS
<1>1. Running
  BY DEF Chdir, SetFds
<1> DEFINE d == proc[Current]
           e == IF Chdir(dir) THEN [d EXCEPT !.cwd = dir] ELSE [d EXCEPT !.fds = F]
<1>0. proc' = [proc EXCEPT ![Current] = e]
  BY DEF Chdir, SetFds
<1>a. e \in Descriptor /\ SameRecord(d, e) /\ e.forked = d.forked
  <2>1. \E c \in StatusCodes : TRUE
    BY DEF StatusCodes
  <2> QED
    BY <1>1, <2>1, RunningFacts, AttributeType
<1> HIDE DEF e
<1>2. proc' \in [0 .. MaxProcs - 1 -> Descriptor]
  BY <1>0, <1>a DEF IInv, TypeOK
<1>3. \A l \in 0 .. MaxProcs - 1 : SameRecord(proc[l], proc'[l]) /\ proc'[l].forked = proc[l].forked
  BY <1>0, <1>a DEF IInv, TypeOK, SameRecord
<1>4. cpu' \in Cpu
  BY CpuType DEF IInv, TypeOK, Chdir, SetFds, Cpu
<1>5. TypeOK'
  BY <1>2, <1>4 DEF IInv, TypeOK, Chdir, SetFds
<1>6. UNCHANGED <<npn, nextSave, save>>
  BY DEF Chdir, SetFds
<1>7. OneFork'
  BY <1>1, <1>3, <1>6, RunningFacts DEF IInv, OneFork
<1>8. Waiting' = Waiting
  BY <1>1, <1>3, <1>6, RunningFacts DEF Waiting, Child, Current
<1>9. \A l \in 1 .. Waiting : RecordEnd(l) <= nextSave /\ l \in 0 .. MaxProcs - 1
  BY <1>1, RunningFacts DEF IInv, LiveRecordsAllocated
<1>10. RecordsOK' /\ LiveRecordsAllocated' /\ (SaveAreaIsStack => SaveAreaIsStack')
  <2>1. Waiting' = Waiting /\ Waiting \in Nat /\ Waiting' <= Waiting
    BY <1>1, <1>8, RunningFacts
  <2>2. SaveAreaIsStack => nextSave' = SavedUpTo(Waiting')
    BY <1>6, <1>8 DEF SaveAreaIsStack
  <2> QED
    BY <1>3, <1>6, <1>9, <2>1, <2>2, RecordsKept DEF IInv
<1> QED
  BY <1>5, <1>7, <1>10 DEF IInv

-----------------------------------------------------------------------------
(* clone *)

\* What clone leaves in the save area: everything below the old end, then the
\* trap frame, then the memory, then the live user stack.
LEMMA CloneSaves ==
    ASSUME IInv, Clone
    PROVE  LET ulen == StkTop - cpu.sp IN
           /\ save' \in [0 .. SaveCap - 1 -> Values \cup Cpu]
           /\ nextSave' = nextSave + 1 + brk + ulen
           /\ nextSave' \in 0 .. SaveCap
           /\ \A a \in 0 .. nextSave - 1 : save'[a] = save[a]
           /\ save'[nextSave] = cpu
           /\ \A i \in 0 .. brk - 1 : save'[nextSave + 1 + i] = mem[i]
           /\ \A i \in 0 .. ulen - 1 : save'[nextSave + 1 + brk + i] = ustk[cpu.sp + i]
<1> DEFINE ulen  == StkTop - cpu.sp
           frame == [z \in {0} |-> cpu]
           A1 == Copied(save, nextSave, frame, 0, 1)
           A2 == Copied(A1, nextSave + 1, mem, 0, brk)
           A3 == Copied(A2, nextSave + 1 + brk, ustk, cpu.sp, ulen)
           Cells == Values \cup Cpu
<1>1. /\ nextSave \in Nat /\ brk \in Nat /\ brk <= MemCap /\ SaveCap \in Nat
      /\ cpu \in Cpu /\ cpu.sp \in 0 .. StkTop
      /\ mem \in [0 .. MemCap - 1 -> Values] /\ ustk \in [0 .. StkTop - 1 -> Values]
      /\ save \in [0 .. SaveCap - 1 -> Cells]
  BY SMTT(60) DEF IInv, TypeOK, Cpu
<1>2. ulen \in Nat /\ nextSave + 1 + brk + ulen <= SaveCap
  BY <1>1, SMTT(60) DEF Clone, SaveEnd
<1>3. save' = A3 /\ nextSave' = nextSave + 1 + brk + ulen
  BY DEF Clone, SaveEnd
<1> HIDE DEF ulen, Cells
<1>4. A1 \in [0 .. SaveCap - 1 -> Cells]
  <2>1. \A i \in 0 .. 0 : frame[0 + i] \in Cells
    BY <1>1 DEF Cells
  <2>2. \A a \in nextSave .. nextSave + 1 - 1 : a - nextSave \in 0 .. 0
    BY <1>1
  <2> HIDE DEF frame
  <2> QED
    BY <1>1, <2>1, <2>2 DEF Copied
<1>5. A2 \in [0 .. SaveCap - 1 -> Cells]
  <2>1. \A i \in 0 .. brk - 1 : mem[0 + i] \in Cells
    BY <1>1, SMTT(60) DEF Cells
  <2>2. \A a \in nextSave + 1 .. nextSave + 1 + brk - 1 : a - (nextSave + 1) \in 0 .. brk - 1
    BY <1>1
  <2> HIDE DEF A1
  <2> QED
    BY <1>1, <1>4, <2>1, <2>2 DEF Copied
<1>6. A3 \in [0 .. SaveCap - 1 -> Cells]
  <2>1. \A i \in 0 .. ulen - 1 : ustk[cpu.sp + i] \in Cells
    BY <1>1, SMTT(60) DEF Cells, ulen
  <2>2. \A a \in nextSave + 1 + brk .. nextSave + 1 + brk + ulen - 1 :
           a - (nextSave + 1 + brk) \in 0 .. ulen - 1
    BY <1>1, <1>2
  <2> HIDE DEF A2
  <2> QED
    BY <1>1, <1>2, <1>5, <2>1, <2>2 DEF Copied
<1>7. \A a \in 0 .. nextSave - 1 : A3[a] = save[a]
  BY <1>1, <1>2 DEF Copied
<1>8. A3[nextSave] = cpu
  BY <1>1, <1>2, SMTT(60) DEF Copied
<1>9. \A i \in 0 .. brk - 1 : A3[nextSave + 1 + i] = mem[i]
  BY <1>1, <1>2 DEF Copied
<1>10. \A i \in 0 .. ulen - 1 : A3[nextSave + 1 + brk + i] = ustk[cpu.sp + i]
  BY <1>1, <1>2 DEF Copied
<1>11. nextSave' \in 0 .. SaveCap
  BY <1>1, <1>2, <1>3, SMTT(60)
<1> HIDE DEF A3
<1> QED
  BY <1>3, <1>6, <1>7, <1>8, <1>9, <1>10, <1>11 DEF ulen, Cells

\* The descriptor clone leaves.
LEMMA RecordedType ==
    ASSUME NEW d \in Descriptor, d.forked = 0,
           nextSave \in Nat, brk \in 0 .. MemCap, StkTop - cpu.sp \in 0 .. StkTop
    PROVE  LET e == Recorded(d) IN
           /\ e \in Descriptor
           /\ e.forked = 1
           /\ e.stackAddr = nextSave /\ e.memAddr = nextSave + 1 /\ e.memLen = brk
           /\ e.ustkAddr = nextSave + 1 + brk /\ e.ustkLen = StkTop - cpu.sp
           /\ e.savedBrk = brk
<1>1. /\ d.status \in StatusCodes /\ d.cwd \in Dirs /\ d.fds \in SUBSET Fds
      /\ nextSave + 1 \in Nat /\ nextSave + 1 + brk \in Nat
  BY DEF Descriptor
<1> QED
  BY <1>1 DEF Recorded, Descriptor

HIDE ParamsAssumption

LEMMA ConstFacts ==
    /\ MemCap \in Nat /\ StkTop \in Nat /\ SaveCap \in Nat
    /\ MaxProcs \in Nat /\ MaxProcs >= 2
BY ParamsAssumption

LEMMA CloneIInv == IInv /\ Clone => IInv'
<1> SUFFICES ASSUME IInv, Clone PROVE IInv'
  OBVIOUS
<1> DEFINE ulen == StkTop - cpu.sp
           e == Recorded(proc[Current])
<1>1. Running /\ ~Child
  BY DEF Clone
<1>2. /\ nextSave \in Nat /\ brk \in 0 .. MemCap
      /\ cpu \in Cpu /\ cpu.sp \in 0 .. StkTop /\ ulen \in 0 .. StkTop
      /\ mem \in [0 .. MemCap - 1 -> Values] /\ ustk \in [0 .. StkTop - 1 -> Values]
      /\ proc \in [0 .. MaxProcs - 1 -> Descriptor]
  BY ConstFacts DEF IInv, TypeOK, Cpu
<1>s. /\ nextSave' = nextSave + 1 + brk + ulen
      /\ \A a \in 0 .. nextSave - 1 : save'[a] = save[a]
      /\ save'[nextSave] = cpu
      /\ \A i \in 0 .. brk - 1 : save'[nextSave + 1 + i] = mem[i]
      /\ \A i \in 0 .. ulen - 1 : save'[nextSave + 1 + brk + i] = ustk[cpu.sp + i]
  BY CloneSaves
<1>n. /\ brk \in Nat /\ ulen \in Nat /\ cpu.sp \in Nat /\ cpu.sp = StkTop - ulen
      /\ nextSave \in Nat /\ nextSave' \in Nat /\ nextSave <= nextSave'
      /\ nextSave' = nextSave + 1 + brk + ulen
  BY <1>2, <1>s, ConstFacts
<1>3. /\ e \in Descriptor
      /\ e.forked = 1
      /\ e.stackAddr = nextSave /\ e.memAddr = nextSave + 1 /\ e.memLen = brk
      /\ e.ustkAddr = nextSave + 1 + brk /\ e.ustkLen = ulen /\ e.savedBrk = brk
  <2>1. proc[Current] \in Descriptor /\ proc[Current].forked = 0
    BY <1>1, RunningFacts DEF Child, Descriptor
  <2> QED
    BY <1>2, <2>1, RecordedType
<1>4. proc' = [proc EXCEPT ![Current] = e] /\ npn' = npn /\ mode' = mode
  BY DEF Clone
<1> HIDE DEF e, ulen
<1>5. proc' \in [0 .. MaxProcs - 1 -> Descriptor] /\ proc'[Current] = e
  BY <1>1, <1>2, <1>3, <1>4, RunningFacts
<1>6. \A l \in 0 .. MaxProcs - 1 : l # Current => proc'[l] = proc[l]
  BY <1>2, <1>4
<1>7. TypeOK'
  <2>1. cpu' \in Cpu
    BY <1>2, CpuType DEF Clone
  <2> QED
    BY <1>5, <2>1, CloneSaves DEF Clone, IInv, TypeOK
<1>8. OneFork'
  <2>1. \A l \in 1 .. npn - 2 : proc'[l].forked <= 0
    <3>1. \A l \in 1 .. npn - 2 : proc'[l] = proc[l] /\ proc[l].forked <= 0
      BY <1>1, <1>6, RunningFacts, ConstFacts DEF IInv, OneFork, Current
    <3> QED
      BY <3>1
  <2>2. proc'[npn - 1].forked = 1 /\ proc'[0].forked = 0
    BY <1>1, <1>3, <1>5, <1>6, RunningFacts, ConstFacts DEF IInv, OneFork, Current
  <2> QED
    BY <1>1, <1>4, <2>1, <2>2, RunningFacts DEF OneFork
<1>9. Waiting = npn - 2 /\ Waiting' = npn - 1 /\ npn \in 2 .. MaxProcs /\ Current = npn - 1
  BY <1>1, <1>3, <1>4, <1>5, RunningFacts DEF Waiting, Child, Current
<1>10. ASSUME NEW l \in 1 .. npn - 2
       PROVE  /\ proc'[l] = proc[l] /\ Contiguous(proc[l])
              /\ Intact(proc[l], save')
              /\ RecordEnd(l) <= nextSave
  <2>1. proc'[l] = proc[l] /\ proc[l] \in Descriptor
    BY <1>2, <1>6, <1>9, ConstFacts
  <2>2. Contiguous(proc[l]) /\ Intact(proc[l], save) /\ RecordEnd(l) <= nextSave
    BY <1>9 DEF IInv, RecordsOK, LiveRecordsAllocated
  <2>3. /\ proc[l].stackAddr \in 0 .. nextSave - 1
        /\ \A i \in 0 .. proc[l].memLen - 1 : proc[l].memAddr + i \in 0 .. nextSave - 1
        /\ \A i \in 0 .. proc[l].ustkLen - 1 : proc[l].ustkAddr + i \in 0 .. nextSave - 1
    <3> DEFINE d == proc[l]
    <3>1. /\ d.stackAddr \in Nat /\ d.memLen \in Nat /\ d.ustkLen \in Nat
          /\ d.memAddr = d.stackAddr + 1 /\ d.ustkAddr = d.memAddr + d.memLen
          /\ d.ustkAddr + d.ustkLen <= nextSave
          /\ d.memAddr \in Nat /\ d.ustkAddr \in Nat /\ nextSave \in Nat
      BY <1>2, <2>1, <2>2 DEF Contiguous, RecordEnd, Descriptor
    <3> HIDE DEF d
    <3>2. /\ d.stackAddr \in 0 .. nextSave - 1
          /\ \A i \in 0 .. d.memLen - 1 : d.memAddr + i \in 0 .. nextSave - 1
          /\ \A i \in 0 .. d.ustkLen - 1 : d.ustkAddr + i \in 0 .. nextSave - 1
      BY <3>1
    <3> QED
      BY <3>2 DEF d
  <2>4. \A a \in 0 .. nextSave - 1 : save'[a] = save[a]
    BY <1>s
  <2>5. Intact(proc[l], save')
    BY <2>2, <2>3, <2>4 DEF Intact
  <2> QED
    BY <2>1, <2>2, <2>5
<1>11. Contiguous(e) /\ Intact(e, save')
  <2>1. Contiguous(e)
    BY <1>2, <1>3 DEF Contiguous
  <2>2. save'[e.stackAddr] = cpu /\ cpu.sp = StkTop - e.ustkLen
    BY <1>3, <1>s, <1>n
  <2>3. \A i \in 0 .. e.memLen - 1 : save'[e.memAddr + i] \in Values
    <3>0. \A i \in 0 .. brk - 1 : i \in 0 .. MemCap - 1
      BY <1>2, ConstFacts
    <3>1. \A i \in 0 .. brk - 1 : mem[i] \in Values
      BY <1>2, <3>0
    <3> QED
      BY <1>3, <1>s, <3>1
  <2>4. \A i \in 0 .. e.ustkLen - 1 : save'[e.ustkAddr + i] \in Values
    <3>1. \A i \in 0 .. ulen - 1 : cpu.sp + i \in 0 .. StkTop - 1
      BY <1>n, ConstFacts
    <3>2. \A i \in 0 .. ulen - 1 : ustk[cpu.sp + i] \in Values
      BY <1>2, <3>1
    <3> QED
      BY <1>3, <1>s, <3>2
  <2> QED
    BY <1>2, <2>1, <2>2, <2>3, <2>4 DEF Intact
<1>12. RecordsOK'
  BY <1>5, <1>9, <1>10, <1>11 DEF RecordsOK
<1>13. LiveRecordsAllocated'
  <2>1. RecordEnd(npn - 1)' = nextSave' /\ RecordStart(npn - 1)' = nextSave /\ nextSave' \in Nat
    <3>1. /\ RecordEnd(npn - 1)' = e.ustkAddr + e.ustkLen
          /\ RecordStart(npn - 1)' = e.stackAddr
      <4>1. proc'[npn - 1] = e
        BY <1>5, <1>9
      <4> QED
        BY <1>4, <4>1 DEF RecordEnd, RecordStart
    <3> QED
      BY <1>3, <1>n, <3>1
  <2>2. \A l \in 1 .. npn - 2 : /\ RecordEnd(l)' = RecordEnd(l) /\ RecordStart(l)' = RecordStart(l)
                                /\ RecordEnd(l) <= nextSave /\ RecordEnd(l) \in Int
    <3>1. \A l \in 1 .. npn - 2 : proc[l] \in Descriptor
      BY <1>2, <1>9, ConstFacts
    <3> QED
      BY <1>10, <3>1 DEF RecordEnd, RecordStart, Descriptor
  <2>4. \A l \in 1 .. npn - 2 : \A k \in 1 .. l - 1 : RecordEnd(k) <= RecordStart(l)
    BY <1>9 DEF IInv, LiveRecordsAllocated
  <2>5. ASSUME NEW l \in 1 .. npn - 1
        PROVE  /\ RecordEnd(l)' <= nextSave'
               /\ \A k \in 1 .. l - 1 : RecordEnd(k)' <= RecordStart(l)'
    <3>1. CASE l = npn - 1
      <4>1. l - 1 = npn - 2
        BY <1>9, <3>1
      <4> QED
        BY <1>4, <1>n, <2>1, <2>2, <3>1, <4>1
    <3>2. CASE l # npn - 1
      <4>1. l \in 1 .. npn - 2
        BY <1>9, <3>2
      <4>2. \A k \in 1 .. l - 1 : k \in 1 .. npn - 2
        BY <1>9, <4>1
      <4>3. RecordEnd(l) <= nextSave'
        BY <1>n, <2>2, <4>1
      <4> QED
        BY <2>2, <2>4, <4>1, <4>2, <4>3
    <3> QED
      BY <3>1, <3>2
  <2> QED
    BY <1>9, <2>5 DEF LiveRecordsAllocated
<1>14. SaveAreaIsStack => SaveAreaIsStack'
  <2> SUFFICES ASSUME SaveAreaIsStack PROVE SaveAreaIsStack'
    OBVIOUS
  <2>1. \A l \in 1 .. npn - 2 : proc'[l] = proc[l]
    BY <1>10
  <2>2. /\ proc'[npn - 1].stackAddr = nextSave
        /\ proc'[npn - 1].ustkAddr + proc'[npn - 1].ustkLen = nextSave'
    BY <1>3, <1>5, <1>9, <1>n
  <2>3. nextSave = SavedUpTo(npn - 2) /\ \A l \in 1 .. npn - 2 : RecordStart(l) = SavedUpTo(l - 1)
    BY <1>9 DEF SaveAreaIsStack
  <2>4. \A k \in 0 .. npn - 2 : SavedUpTo(k)' = SavedUpTo(k)
    <3>1. \A k \in 0 .. npn - 2 : k # 0 => k \in 1 .. npn - 2
      BY <1>9
    <3> QED
      BY <2>1, <3>1 DEF SavedUpTo, RecordEnd
  <2>5. ASSUME NEW l \in 1 .. npn - 1 PROVE RecordStart(l)' = SavedUpTo(l - 1)'
    <3>1. l - 1 \in 0 .. npn - 2
      BY <1>9
    <3>2. CASE l = npn - 1
      <4>1. l - 1 = npn - 2
        BY <1>9, <3>2
      <4> QED
        BY <2>2, <2>3, <2>4, <3>1, <3>2, <4>1 DEF RecordStart
    <3>3. CASE l # npn - 1
      <4>1. l \in 1 .. npn - 2
        BY <1>9, <3>3
      <4> QED
        BY <2>1, <2>3, <2>4, <3>1, <4>1 DEF RecordStart
    <3> QED
      BY <3>2, <3>3
  <2>6. SavedUpTo(Waiting)' = nextSave'
    BY <1>9, <2>2 DEF SavedUpTo, RecordEnd
  <2> QED
    BY <1>9, <2>5, <2>6 DEF SaveAreaIsStack
<1> QED
  BY <1>7, <1>8, <1>12, <1>13, <1>14 DEF IInv

-----------------------------------------------------------------------------
(* Loading a program *)

\* A descriptor keeps its save record when a program is loaded into it or its
\* forked count goes down.
LEMMA EnteredType ==
    ASSUME NEW d \in Descriptor, NEW dir \in Dirs
    PROVE  /\ Entered(d, dir) \in Descriptor
           /\ Entered(d, dir).forked = 0
           /\ SameRecord(d, Entered(d, dir))
BY DEF Entered, Descriptor, SameRecord

LEMMA UnforkedType ==
    ASSUME NEW d \in Descriptor
    PROVE  /\ Unforked(d) \in Descriptor
           /\ d.forked <= 1 => Unforked(d).forked = 0
           /\ d.forked = 0 => Unforked(d) = d
           /\ SameRecord(d, Unforked(d))
           /\ Unforked(d).cwd = d.cwd
<1>1. CASE d.forked > 0
  BY <1>1 DEF Unforked, Descriptor, SameRecord
<1>2. CASE ~(d.forked > 0)
  BY <1>2 DEF Unforked, Descriptor, SameRecord
<1> QED
  BY <1>1, <1>2

LEMMA ShellRunIInv == ASSUME NEW p \in Progs PROVE IInv /\ ShellRun(p) => IInv'
<1> SUFFICES ASSUME IInv, ShellRun(p) PROVE IInv'
  OBVIOUS
<1>1. npn = 1 /\ npn' = 2 /\ mode' = "user" /\ UNCHANGED <<nextSave, save>>
  BY ConstFacts DEF IInv, TypeOK, ShellRun
<1>2. 0 \in 0 .. MaxProcs - 1 /\ 1 \in 0 .. MaxProcs - 1
  BY ConstFacts
<1> DEFINE e == Entered(proc[1], proc[0].cwd)
<1>3. e \in Descriptor /\ e.forked = 0
  <2>1. proc[1] \in Descriptor /\ proc[0] \in Descriptor
    BY <1>2 DEF IInv, TypeOK
  <2>2. proc[0].cwd \in Dirs
    BY <2>1 DEF Descriptor
  <2> QED
    BY <2>1, <2>2, EnteredType
<1>4. proc' = [proc EXCEPT ![1] = e]
  BY <1>1 DEF ShellRun
<1> HIDE DEF e
<1>5. proc' \in [0 .. MaxProcs - 1 -> Descriptor] /\ proc'[1] = e /\ proc'[0] = proc[0]
  BY <1>2, <1>3, <1>4 DEF IInv, TypeOK
<1>6. mem' \in [0 .. MemCap - 1 -> Values] /\ ustk' \in [0 .. StkTop - 1 -> Values] /\ cpu' \in Cpu
  BY LoadedType, WithArgsType DEF ShellRun, IInv, TypeOK
<1>7. brk' \in 0 .. MemCap
  BY ParamsAssumption DEF ShellRun, Larger
<1>8. TypeOK'
  BY <1>1, <1>5, <1>6, <1>7, ConstFacts DEF IInv, TypeOK
<1>9. OneFork'
  BY <1>1, <1>3, <1>5 DEF IInv, OneFork
<1>10. Waiting' = 0
  BY <1>1, <1>3, <1>5 DEF Waiting, Child, Current
<1>11. RecordsOK' /\ LiveRecordsAllocated'
  BY <1>10 DEF RecordsOK, LiveRecordsAllocated
<1>12. SaveAreaIsStack => SaveAreaIsStack'
  <2>1. Waiting = 0
    BY <1>1 DEF Waiting
  <2> QED
    BY <1>1, <1>10, <2>1 DEF SaveAreaIsStack, SavedUpTo
<1> QED
  BY <1>8, <1>9, <1>11, <1>12 DEF IInv

LEMMA ExecveFailIInv == IInv /\ ExecveFail => IInv'
<1> SUFFICES ASSUME IInv, ExecveFail PROVE IInv'
  OBVIOUS
<1>1. Running /\ UNCHANGED <<mode, npn, nextSave, save, mem, brk>>
  BY DEF ExecveFail
<1>2. /\ Current = npn - 1 /\ npn \in 2 .. MaxProcs /\ Current \in 1 .. MaxProcs - 1
      /\ proc[Current] \in Descriptor /\ proc[Current].forked <= 1
      /\ Waiting \in Nat /\ Waiting <= npn - 1 /\ npn - 2 <= Waiting
  BY <1>1, RunningFacts, ConstFacts DEF Current
<1> DEFINE e == Unforked(proc[Current])
<1>3. e \in Descriptor /\ e.forked = 0 /\ SameRecord(proc[Current], e)
  BY <1>2, UnforkedType
<1>4. proc' = [proc EXCEPT ![Current] = e]
  BY DEF ExecveFail
<1> HIDE DEF e
<1>5. /\ proc' \in [0 .. MaxProcs - 1 -> Descriptor] /\ proc'[Current] = e
      /\ \A l \in 0 .. MaxProcs - 1 : l # Current => proc'[l] = proc[l]
  BY <1>2, <1>3, <1>4, ConstFacts DEF IInv, TypeOK
<1>6. TypeOK'
  <2>1. cpu' \in Cpu /\ ustk' \in [0 .. StkTop - 1 -> Values]
    <3>1. 0 \in 0 .. StkTop
      BY ConstFacts
    <3>2. cpu' \in Cpu
      BY <3>1, CpuType DEF IInv, TypeOK, ExecveFail
    <3>3. ustk' \in [0 .. StkTop - 1 -> Values]
      BY WithArgsType DEF IInv, TypeOK, ExecveFail
    <3> QED
      BY <3>2, <3>3
  <2> QED
    BY <1>1, <1>5, <2>1 DEF IInv, TypeOK
<1>7. OneFork'
  <2>1. proc'[0].forked = 0
    BY <1>2, <1>5, ConstFacts DEF IInv, OneFork
  <2>2. ASSUME NEW l \in 1 .. npn - 1 PROVE proc'[l].forked <= IF l = npn - 1 THEN 1 ELSE 0
    <3>1. l \in 0 .. MaxProcs - 1
      BY <1>2, ConstFacts
    <3> QED
      BY <1>2, <1>3, <1>5, <3>1 DEF IInv, OneFork
  <2> QED
    BY <1>1, <2>1, <2>2 DEF OneFork
<1>8. Waiting' = npn - 2
  BY <1>1, <1>2, <1>3, <1>5 DEF Waiting, Child, Current
<1>9. \A l \in 1 .. Waiting' : l \in 0 .. MaxProcs - 1 /\ l \in 1 .. Waiting /\ l # Current
  BY <1>2, <1>8, ConstFacts
<1>10. \A l \in 1 .. Waiting' : SameRecord(proc[l], proc'[l]) /\ RecordEnd(l) <= nextSave'
  BY <1>1, <1>5, <1>9 DEF IInv, LiveRecordsAllocated, SameRecord
<1>11. Waiting' \in Nat /\ Waiting' <= Waiting
  BY <1>2, <1>8
<1>12. RecordsOK' /\ LiveRecordsAllocated'
  BY <1>1, <1>2, <1>10, <1>11, RecordsKept DEF IInv
<1>13. ExecFirst => SaveAreaIsStack'
  <2> SUFFICES ASSUME ExecFirst PROVE SaveAreaIsStack'
    OBVIOUS
  <2>1. ~Child /\ SaveAreaIsStack
    BY DEF ExecveFail, IInv
  <2>2. Waiting' = Waiting
    BY <1>1, <1>8, <2>1, RunningFacts
  <2>3. nextSave' = SavedUpTo(Waiting')
    BY <1>1, <2>1, <2>2 DEF SaveAreaIsStack
  <2> QED
    BY <1>1, <1>2, <1>10, <1>11, <2>1, <2>3, RecordsKept DEF IInv
<1> QED
  BY <1>6, <1>7, <1>12, <1>13 DEF IInv

\* execve gives a forked caller the next descriptor and keeps its record live;
\* any other caller is replaced, and nobody has begun to wait.
LEMMA ExecveIInv == ASSUME NEW p \in Progs PROVE IInv /\ Execve(p) => IInv'
<1> SUFFICES ASSUME IInv, Execve(p) PROVE IInv'
  OBVIOUS
<1>1. /\ Running /\ UNCHANGED <<mode, nextSave, save>>
      /\ npn' = ExecLevel /\ proc' = ExecProc /\ ExecLevel <= MaxProcs
  BY DEF Execve
<1>2. /\ Current = npn - 1 /\ npn \in 2 .. MaxProcs /\ Current \in 1 .. MaxProcs - 1
      /\ proc[Current] \in Descriptor /\ proc[Current].forked \in {0, 1}
      /\ Waiting = IF Child THEN npn - 1 ELSE npn - 2
      /\ Waiting \in Nat /\ (CreatesLevel <=> Child) /\ npn - 1 \in 0 .. MaxProcs - 1
  <2>1. npn \in 2 .. MaxProcs /\ (CreatesLevel <=> Child)
    BY <1>1, RunningFacts, ConstFacts DEF CreatesLevel
  <2> QED
    BY <1>1, <2>1, RunningFacts, ConstFacts DEF Current
<1>3. proc \in [0 .. MaxProcs - 1 -> Descriptor]
  BY DEF IInv, TypeOK
<1>4. \E dir \in Dirs :
         proc' = [[proc EXCEPT ![npn - 1] = Unforked(@)] EXCEPT ![npn' - 1] = Entered(@, dir)]
  <2>1. npn' \in Nat /\ npn' - 1 \in 0 .. MaxProcs - 1 /\ npn' - 2 \in 0 .. MaxProcs - 1
    BY <1>1, <1>2, ConstFacts DEF ExecLevel
  <2>2. proc[npn' - 1].cwd \in Dirs /\ proc[npn' - 2].cwd \in Dirs
    <3>1. proc[npn' - 1] \in Descriptor /\ proc[npn' - 2] \in Descriptor
      BY <1>3, <2>1
    <3> QED
      BY <3>1 DEF Descriptor
  <2>3. (npn' - 1) - 1 = npn' - 2
    BY <2>1
  <2> QED
    BY <1>1, <1>2, <2>2, <2>3 DEF ExecProc
<1>5. PICK dir \in Dirs :
         proc' = [[proc EXCEPT ![npn - 1] = Unforked(@)] EXCEPT ![npn' - 1] = Entered(@, dir)]
  BY <1>4
<1> DEFINE old  == Unforked(proc[npn - 1])
           mid  == [proc EXCEPT ![npn - 1] = old]
           e    == Entered(mid[npn' - 1], dir)
<1>6. old \in Descriptor /\ old.forked = 0 /\ SameRecord(proc[npn - 1], old)
  BY <1>2, UnforkedType
<1> HIDE DEF old
<1>7. /\ mid \in [0 .. MaxProcs - 1 -> Descriptor]
      /\ \A l \in 0 .. MaxProcs - 1 : mid[l] = IF l = npn - 1 THEN old ELSE proc[l]
  BY <1>2, <1>3, <1>6
<1>8. proc' = [mid EXCEPT ![npn' - 1] = e]
  BY <1>5 DEF old
<1> HIDE DEF mid
<1>9. npn' \in 2 .. MaxProcs /\ npn' = (IF Child THEN npn + 1 ELSE npn)
  BY <1>1, <1>2, ConstFacts DEF ExecLevel
<1>10. e \in Descriptor /\ e.forked = 0
  <2>1. npn' - 1 \in 0 .. MaxProcs - 1
    BY <1>9, ConstFacts
  <2>2. mid[npn' - 1] \in Descriptor
    BY <1>7, <2>1
  <2> QED
    BY <2>2, EnteredType
<1> HIDE DEF e
<1>11. /\ proc' \in [0 .. MaxProcs - 1 -> Descriptor]
       /\ \A l \in 0 .. MaxProcs - 1 :
             proc'[l] = IF l = npn' - 1 THEN e ELSE IF l = npn - 1 THEN old ELSE proc[l]
  BY <1>7, <1>8, <1>10
<1>12. TypeOK'
  <2>1. mem' \in [0 .. MemCap - 1 -> Values] /\ ustk' \in [0 .. StkTop - 1 -> Values] /\ cpu' \in Cpu
    BY LoadedType, WithArgsType DEF Execve, IInv, TypeOK
  <2>2. brk' \in 0 .. MemCap
    BY ParamsAssumption DEF Execve
  <2> QED
    BY <1>1, <1>9, <1>11, <2>1, <2>2, ConstFacts DEF IInv, TypeOK, Running
<1>13. OneFork'
  <2>1. proc'[0].forked = 0
    <3>1. 0 \in 0 .. MaxProcs - 1 /\ 0 # npn' - 1 /\ 0 # npn - 1
      BY <1>2, <1>9, ConstFacts
    <3> QED
      BY <1>11, <3>1 DEF IInv, OneFork
  <2>2. ASSUME NEW l \in 1 .. npn' - 1 PROVE proc'[l].forked <= IF l = npn' - 1 THEN 1 ELSE 0
    <3>1. l \in 0 .. MaxProcs - 1
      BY <1>9, ConstFacts
    <3>2. l \in 1 .. npn
      BY <1>2, <1>9
    <3>3. CASE l = npn' - 1 \/ l = npn - 1
      BY <1>6, <1>10, <1>11, <3>1, <3>3
    <3>4. CASE l # npn' - 1 /\ l # npn - 1
      <4>1. proc'[l] = proc[l] /\ l \in 1 .. npn - 1
        BY <1>2, <1>9, <1>11, <3>1, <3>2, <3>4
      <4>2. proc[l].forked <= 0
        BY <3>4, <4>1 DEF IInv, OneFork
      <4> QED
        BY <3>4, <4>1, <4>2
    <3> QED
      BY <3>3, <3>4
  <2> QED
    BY <2>1, <2>2 DEF OneFork
<1>14. Waiting' = Waiting
  <2>1. proc'[npn' - 1].forked = 0
    BY <1>9, <1>10, <1>11, ConstFacts
  <2>2. Waiting' = npn' - 2
    BY <1>9, <2>1 DEF Waiting, Child, Current
  <2> QED
    BY <1>2, <1>9, <2>2
<1>15. \A l \in 1 .. Waiting : l \in 0 .. MaxProcs - 1 /\ l # npn' - 1
  BY <1>2, <1>9, ConstFacts
<1>16. \A l \in 1 .. Waiting : SameRecord(proc[l], proc'[l])
  BY <1>6, <1>11, <1>15 DEF SameRecord
<1>17. RecordsOK' /\ LiveRecordsAllocated' /\ (SaveAreaIsStack => SaveAreaIsStack')
  <2>1. \A l \in 1 .. Waiting : RecordEnd(l) <= nextSave'
    BY <1>1 DEF IInv, LiveRecordsAllocated
  <2>2. SaveAreaIsStack => nextSave' = SavedUpTo(Waiting')
    BY <1>1, <1>14 DEF SaveAreaIsStack
  <2>3. Waiting' <= Waiting
    BY <1>2, <1>14
  <2> QED
    BY <1>1, <1>2, <1>14, <1>16, <2>1, <2>2, <2>3, RecordsKept DEF IInv
<1> QED
  BY <1>12, <1>13, <1>17 DEF IInv

-----------------------------------------------------------------------------
(* exit *)

\* What exit copies back is a process image, because the record is intact.
LEMMA ResumeTypes ==
    ASSUME IInv, NEW l \in 1 .. Waiting, l \in 0 .. MaxProcs - 1,
           NEW code \in StatusCodes, Resume(l, code)
    PROVE  /\ mem' \in [0 .. MemCap - 1 -> Values]
           /\ ustk' \in [0 .. StkTop - 1 -> Values]
           /\ cpu' \in Cpu
           /\ brk' \in 0 .. MemCap
           /\ nextSave' \in 0 .. SaveCap
<1> DEFINE d == proc[l]
<1>1. d \in Descriptor /\ Contiguous(d) /\ Intact(d, save) /\ RecordEnd(l) <= nextSave
  BY DEF IInv, TypeOK, RecordsOK, LiveRecordsAllocated
<1>2. /\ d.stackAddr \in Nat /\ d.memAddr \in Nat /\ d.ustkAddr \in Nat
      /\ d.memLen \in 0 .. MemCap /\ d.ustkLen \in 0 .. StkTop
      /\ d.memLen \in Nat /\ d.ustkLen \in Nat
      /\ d.savedBrk = d.memLen
      /\ d.memAddr = d.stackAddr + 1 /\ d.ustkAddr = d.memAddr + d.memLen
  BY <1>1, ConstFacts DEF Descriptor, Contiguous
<1>3. d.ustkAddr + d.ustkLen <= nextSave /\ nextSave \in 0 .. SaveCap
  BY <1>1 DEF RecordEnd, IInv, TypeOK
<1>4. /\ mem' = Copied(mem, 0, save, d.memAddr, d.memLen)
      /\ ustk' = Copied(ustk, StkTop - d.ustkLen, save, d.ustkAddr, d.ustkLen)
      /\ cpu' = [save[d.stackAddr] EXCEPT !.a0 = 1]
      /\ brk' = d.savedBrk
      /\ nextSave' = d.stackAddr
  BY DEF Resume, Reported, Freed, ParentStack
<1>5. mem' \in [0 .. MemCap - 1 -> Values]
  <2>1. \A i \in 0 .. d.memLen - 1 : save[d.memAddr + i] \in Values
    BY <1>1 DEF Intact
  <2>2. mem \in [0 .. MemCap - 1 -> Values] /\ MemCap \in Nat
    BY ConstFacts DEF IInv, TypeOK
  <2> HIDE DEF d
  <2>3. 0 \in Int /\ d.memAddr \in Int /\ d.memLen \in Int
    BY <1>2
  <2>4. Copied(mem, 0, save, d.memAddr, d.memLen) \in [0 .. MemCap - 1 -> Values]
    BY <2>1, <2>2, <2>3, CopiedType, Zenon
  <2> QED
    BY <1>4, <2>4
<1>6. ustk' \in [0 .. StkTop - 1 -> Values]
  <2>1. \A i \in 0 .. d.ustkLen - 1 : save[d.ustkAddr + i] \in Values
    BY <1>1 DEF Intact
  <2>2. ustk \in [0 .. StkTop - 1 -> Values] /\ StkTop \in Nat
    BY ConstFacts DEF IInv, TypeOK
  <2> HIDE DEF d
  <2>3. StkTop - d.ustkLen \in Int /\ d.ustkAddr \in Int /\ d.ustkLen \in Int
    BY <1>2, ConstFacts
  <2>4. Copied(ustk, StkTop - d.ustkLen, save, d.ustkAddr, d.ustkLen) \in [0 .. StkTop - 1 -> Values]
    BY <2>1, <2>2, <2>3, CopiedType, Zenon
  <2> QED
    BY <1>4, <2>4
<1>7. cpu' \in Cpu
  <2>1. save[d.stackAddr] \in Cpu /\ 0 \in 0 .. StkTop
    BY <1>1, ConstFacts DEF Intact
  <2> QED
    BY <1>4, <2>1, CpuType
<1> HIDE DEF d
<1>8. brk' \in 0 .. MemCap /\ nextSave' \in 0 .. SaveCap
  BY <1>2, <1>3, <1>4, ConstFacts
<1> QED
  BY <1>5, <1>6, <1>7, <1>8

LEMMA ExitIInv == ASSUME NEW code \in Codes \cup {FaultCode} PROVE IInv /\ Exit(code) => IInv'
<1> SUFFICES ASSUME IInv, Exit(code) PROVE IInv'
  OBVIOUS
<1>1. Running /\ npn' = npn - 1
  BY DEF Exit
<1>2. npn \in 2 .. MaxProcs /\ Waiting \in Nat /\ npn - 2 <= Waiting /\ Waiting <= npn - 1
  BY <1>1, RunningFacts, ConstFacts
<1>3. proc \in [0 .. MaxProcs - 1 -> Descriptor]
  BY DEF IInv, TypeOK
<1>4. CASE npn - 1 = 1 /\ ToShell
  <2>1. npn = 2 /\ npn' = 1 /\ mode' = "shell" /\ UNCHANGED <<proc, nextSave, save, mem, brk, ustk, cpu>>
    BY <1>1, <1>2, <1>4 DEF ToShell
  <2>2. TypeOK'
    BY <2>1, ConstFacts DEF IInv, TypeOK
  <2>3. OneFork'
    BY <2>1 DEF IInv, OneFork
  <2>4. Waiting' = 0
    BY <2>1 DEF Waiting
  <2>5. RecordsOK' /\ LiveRecordsAllocated'
    BY <2>4 DEF RecordsOK, LiveRecordsAllocated
  <2>6. ExecFirst => SaveAreaIsStack'
    <3>1. ExecFirst => Waiting = 0 /\ SaveAreaIsStack
      BY <1>1, <2>1, RunningFacts DEF Exit, IInv
    <3> QED
      BY <2>1, <2>4, <3>1 DEF SaveAreaIsStack, SavedUpTo
  <2> QED
    BY <2>2, <2>3, <2>5, <2>6 DEF IInv
<1>5. CASE npn - 1 # 1 /\ Resume(npn - 2, code)
  <2> DEFINE l == npn - 2
             e == [proc[l] EXCEPT !.status = code]
  <2>1. /\ npn \in 3 .. MaxProcs /\ l \in 1 .. Waiting /\ l \in 1 .. npn - 1
        /\ l \in 0 .. MaxProcs - 1 /\ l # npn - 1
    BY <1>2, <1>5, ConstFacts
  <2>2. code \in StatusCodes
    BY DEF StatusCodes
  <2>3. e \in Descriptor /\ SameRecord(proc[l], e) /\ e.forked = proc[l].forked
    <3>1. proc[l] \in Descriptor
      BY <1>3, <2>1
    <3>2. proc[l].cwd \in Dirs /\ proc[l].fds \in SUBSET Fds
      BY <3>1 DEF Descriptor
    <3> HIDE DEF l
    <3> QED
      BY <2>2, <3>1, <3>2, AttributeType
  <2>4. /\ proc' = [proc EXCEPT ![l] = e] /\ save' = save /\ mode' = mode
        /\ nextSave' = RecordStart(l)
    BY <1>5 DEF Resume, Reported, RecordStart, Freed
  <2> HIDE DEF e
  <2>5. /\ proc' \in [0 .. MaxProcs - 1 -> Descriptor]
        /\ \A k \in 0 .. MaxProcs - 1 :
              SameRecord(proc[k], proc'[k]) /\ proc'[k].forked = proc[k].forked
    BY <1>3, <2>1, <2>3, <2>4 DEF SameRecord
  <2>6. TypeOK'
    <3>1. Resume(l, code)
      BY <1>5
    <3>2. npn' \in 1 .. MaxProcs /\ (mode = "user" <=> npn' > 1)
      BY <1>1, <2>1, ConstFacts DEF Running
    <3> HIDE DEF l
    <3> QED
      BY <1>1, <2>1, <2>2, <2>4, <2>5, <3>1, <3>2, ResumeTypes DEF IInv, TypeOK, Running
  <2>7. \A k \in 1 .. npn - 2 : k \in 0 .. MaxProcs - 1 /\ proc'[k].forked <= 0
    <3>1. \A k \in 1 .. npn - 2 : k \in 0 .. MaxProcs - 1 /\ k \in 1 .. npn - 1 /\ k # npn - 1
      BY <1>2, ConstFacts
    <3>2. \A k \in 1 .. npn - 2 : proc[k].forked <= 0
      BY <3>1 DEF IInv, OneFork
    <3> QED
      BY <2>5, <3>1, <3>2
  <2>8. OneFork'
    <3>1. proc'[0].forked = 0
      BY <2>5, ConstFacts DEF IInv, OneFork
    <3>2. \A k \in 1 .. npn' - 1 : k \in 1 .. npn - 2
      BY <1>1, <1>2
    <3>3. \A k \in 1 .. npn' - 1 : proc'[k] \in Descriptor
      BY <2>5, <2>7, <3>2
    <3> QED
      BY <2>7, <3>1, <3>2, <3>3 DEF OneFork, Descriptor
  <2>9. Waiting' = npn - 3
    <3>1. npn' - 1 = npn - 2 /\ npn' # 1 /\ npn - 2 \in 1 .. npn - 2
      BY <1>1, <2>1
    <3>2. proc'[npn' - 1].forked <= 0 /\ proc'[npn' - 1] \in Descriptor
      BY <2>5, <2>7, <3>1
    <3>3. ~(proc'[npn' - 1].forked > 0)
      BY <3>2 DEF Descriptor
    <3>4. Waiting' = npn' - 2
      BY <3>1, <3>3 DEF Waiting, Child, Current
    <3> QED
      BY <1>1, <2>1, <3>4
  <2>10. \A k \in 1 .. Waiting' : RecordEnd(k) <= nextSave'
    <3>1. \A k \in 1 .. Waiting' : k \in 1 .. l - 1
      BY <2>1, <2>9
    <3> HIDE DEF l
    <3> QED
      BY <2>1, <2>4, <3>1 DEF IInv, LiveRecordsAllocated
  <2>11. \A k \in 1 .. Waiting' : SameRecord(proc[k], proc'[k])
    <3>1. \A k \in 1 .. Waiting' : k \in 1 .. npn - 2
      BY <2>1, <2>9
    <3> QED
      BY <2>5, <2>7, <3>1
  <2>12. Waiting' \in Nat /\ Waiting' <= Waiting
    BY <1>2, <2>1, <2>9
  <2>13. RecordsOK' /\ LiveRecordsAllocated'
    BY <1>2, <2>4, <2>10, <2>11, <2>12, RecordsKept DEF IInv
  <2>14. ExecFirst => SaveAreaIsStack'
    <3> SUFFICES ASSUME ExecFirst PROVE SaveAreaIsStack'
      OBVIOUS
    <3>1. ~Child /\ SaveAreaIsStack
      BY DEF Exit, IInv
    <3>2. Waiting = npn - 2 /\ l - 1 = Waiting'
      BY <1>1, <2>1, <2>9, <3>1, RunningFacts
    <3>3. nextSave' = SavedUpTo(Waiting')
      BY <2>1, <2>4, <3>1, <3>2 DEF SaveAreaIsStack
    <3> QED
      BY <1>2, <2>4, <2>10, <2>11, <2>12, <3>1, <3>3, RecordsKept DEF IInv
  <2> QED
    BY <2>6, <2>8, <2>13, <2>14 DEF IInv
<1> QED
  BY <1>4, <1>5 DEF Exit

-----------------------------------------------------------------------------
(* The invariant *)

LEMMA StutterIInv == IInv /\ UNCHANGED vars => IInv'
<1> SUFFICES ASSUME IInv, UNCHANGED vars PROVE IInv'
  OBVIOUS
<1>1. UNCHANGED <<mode, npn, proc, nextSave, save, mem, brk, ustk, cpu>>
  BY DEF vars
<1>2. TypeOK' /\ OneFork'
  BY <1>1 DEF IInv, TypeOK, OneFork
<1>3. Waiting' = Waiting
  BY <1>1 DEF Waiting, Child, Current
<1>5. SaveAreaIsStack => SaveAreaIsStack'
  BY <1>1, <1>3 DEF SaveAreaIsStack, SavedUpTo, RecordEnd, RecordStart
<1>4. RecordsOK' /\ LiveRecordsAllocated'
  BY <1>1, <1>3 DEF IInv, RecordsOK, LiveRecordsAllocated, Contiguous, Intact, RecordEnd, RecordStart
<1> QED
  BY <1>2, <1>4, <1>5 DEF IInv

LEMMA NextIInv == IInv /\ [Next]_vars => IInv'
<1> SUFFICES ASSUME IInv, [Next]_vars PROVE IInv'
  OBVIOUS
<1>1. ASSUME NEW p \in Progs, ShellRun(p) PROVE IInv'
  BY <1>1, ShellRunIInv
<1>2. CASE UserStep
  BY <1>2, UserStepIInv
<1>3. CASE Syscall
  <2>1. CASE Clone
    BY <2>1, CloneIInv
  <2>2. CASE ExecveFail
    BY <2>2, ExecveFailIInv
  <2>3. ASSUME NEW p \in Progs, Execve(p) PROVE IInv'
    BY <2>3, ExecveIInv
  <2>4. ASSUME NEW c \in Codes \cup {FaultCode}, Exit(c) PROVE IInv'
    BY <2>4, ExitIInv
  <2>5. ASSUME NEW i \in WaitSlots, NEW ret \in {0, 1}, Wait(i, ret) PROVE IInv'
    BY <2>5, WaitIInv
  <2>6. ASSUME NEW n \in Brks, Brk(n) PROVE IInv'
    BY <2>6, BrkIInv
  <2>7. ASSUME NEW dir \in Dirs, Chdir(dir) PROVE IInv'
    <3>1. {} \in SUBSET Fds
      OBVIOUS
    <3> QED
      BY <2>7, <3>1, AttributesIInv
  <2>8. ASSUME NEW F \in SUBSET Fds, SetFds(F) PROVE IInv'
    <3>1. Root \in Dirs
      BY ParamsAssumption
    <3> QED
      BY <2>8, <3>1, AttributesIInv
  <2> QED
    BY <1>3, <2>1, <2>2, <2>3, <2>4, <2>5, <2>6, <2>7, <2>8 DEF Syscall
<1>4. CASE UNCHANGED vars
  BY <1>4, StutterIInv
<1> QED
  BY <1>1, <1>2, <1>3, <1>4 DEF Next

THEOREM InductiveInvariant == Spec => []IInv
BY InitIInv, NextIInv, PTL DEF Spec

\* Every variable keeps its type.  This is not a formality here: what exit
\* puts into memory, stack and registers comes out of the save area.
THEOREM TypeCorrect == Spec => []TypeOK
<1>1. IInv => TypeOK
  BY DEF IInv
<1> QED
  BY <1>1, InductiveInvariant, PTL

\* Whatever the descendants of a waiting parent do, exits without exec and
\* failed execs included, its save record stays allocated and no other record
\* overlaps it.
THEOREM SaveRecordsSafe == Spec => []LiveRecordsAllocated
<1>1. IInv => LiveRecordsAllocated
  BY DEF IInv
<1> QED
  BY <1>1, InductiveInvariant, PTL

\* As long as children call exec before they exit, as libc's do, the save area
\* is exactly the stack of the waiting parents' records: exit frees what clone
\* took, no more and no less, and the shell finds the area empty again.
THEOREM SaveAreaStack == Spec => [](ExecFirst => SaveAreaIsStack)
<1>1. IInv => (ExecFirst => SaveAreaIsStack)
  BY DEF IInv
<1> QED
  BY <1>1, InductiveInvariant, PTL

-----------------------------------------------------------------------------
(* Images *)

\* The save records of the processes that go on waiting are those of before.
SavedKept == \A l \in 1 .. Waiting : l <= Waiting' => SavedImage(l)' = SavedImage(l)

\* The shell's own descriptor is never run in.
ShellLevel == proc[0].cwd = Root

LEMMA SameSaved ==
    ASSUME UNCHANGED save, \A l \in 1 .. Waiting : l <= Waiting' => SameRecord(proc[l], proc'[l])
    PROVE  SavedKept
<1> SUFFICES ASSUME NEW l \in 1 .. Waiting, l <= Waiting'
             PROVE  SavedImage(l)' = SavedImage(l)
  BY DEF SavedKept
<1>1. SameRecord(proc[l], proc'[l])
  OBVIOUS
<1> QED
  BY <1>1 DEF SavedImage, SameRecord

\* Of memory and stack an image has what lies below the break and above the
\* stack pointer.
LEMMA ImagesAlike ==
    ASSUME NEW c \in Cpu, NEW b \in Nat, NEW m, NEW n, NEW s, NEW t,
           \A i \in 0 .. b - 1 : m[i] = n[i],
           \A i \in c.sp .. StkTop - 1 : s[i] = t[i]
    PROVE  ImageOf(b, m, s, c) = ImageOf(b, n, t, c)
BY DEF ImageOf

\* A return value is a matter of the registers.
LEMMA ImageReturns ==
    ASSUME NEW c \in Cpu, NEW b, NEW m, NEW s, NEW v
    PROVE  WithReturn(ImageOf(b, m, s, c), v) = ImageOf(b, m, s, [c EXCEPT !.a0 = v])
<1>1. [c EXCEPT !.a0 = v].sp = c.sp
  BY DEF Cpu
<1> DEFINE img == ImageOf(b, m, s, c)
           M == [i \in 0 .. b - 1 |-> m[i]]
           S == [i \in c.sp .. StkTop - 1 |-> s[i]]
<1>2. img = [mem |-> M, stk |-> S, cpu |-> c]
  BY DEF ImageOf
<1>3. ImageOf(b, m, s, [c EXCEPT !.a0 = v]) = [mem |-> M, stk |-> S, cpu |-> [c EXCEPT !.a0 = v]]
  BY <1>1 DEF ImageOf
<1> HIDE DEF img, M, S
<1>4. [img EXCEPT !.cpu.a0 = v] = [mem |-> M, stk |-> S, cpu |-> [c EXCEPT !.a0 = v]]
  BY <1>2
<1> QED
  BY <1>3, <1>4 DEF WithReturn, img

LEMMA ImageFields ==
    ASSUME IInv, Running
    PROVE  /\ Cur = ImageOf(brk, mem, ustk, cpu)
           /\ Cur.mem = [i \in 0 .. brk - 1 |-> mem[i]]
           /\ Cur.stk = [i \in cpu.sp .. StkTop - 1 |-> ustk[i]]
           /\ Cur.cpu = cpu
           /\ Cur # NoImage
<1>1. Cur = ImageOf(brk, mem, ustk, cpu)
  BY DEF Cur
<1>2. ImageOf(brk, mem, ustk, cpu) \in Images
  <2>1. cpu \in Cpu /\ cpu.sp \in 0 .. StkTop /\ brk \in 0 .. MemCap
    BY DEF IInv, TypeOK, Cpu
  <2>2. [i \in 0 .. brk - 1 |-> mem[i]] \in [0 .. brk - 1 -> Values]
    <3>1. \A i \in 0 .. brk - 1 : i \in 0 .. MemCap - 1
      BY <2>1, ConstFacts
    <3> QED
      BY <3>1 DEF IInv, TypeOK
  <2>3. [i \in cpu.sp .. StkTop - 1 |-> ustk[i]] \in [cpu.sp .. StkTop - 1 -> Values]
    <3>1. \A i \in cpu.sp .. StkTop - 1 : i \in 0 .. StkTop - 1
      BY <2>1, ConstFacts
    <3> QED
      BY <3>1 DEF IInv, TypeOK
  <2> QED
    BY <2>1, <2>2, <2>3 DEF ImageOf, Images
<1> QED
  BY <1>1, <1>2, NoImageAssumption DEF ImageOf

\* A fork leaves the image of the caller in the save area.
LEMMA ForkImages ==
    ASSUME IInv, Clone
    PROVE  /\ Cur' = WithReturn(Cur, 0)
           /\ Waiting = npn - 2 /\ Waiting' = npn - 1 /\ npn' = npn /\ npn \in 2 .. MaxProcs
           /\ SavedKept
           /\ \A l \in Nat : l = npn - 1 => SavedImage(l)' = Cur
           /\ \A l \in 0 .. npn - 1 : OwnPart(proc'[l]) = OwnPart(proc[l])
<1> DEFINE ulen == StkTop - cpu.sp
           e == Recorded(proc[Current])
<1>1. Running /\ ~Child /\ IInv'
  BY CloneIInv DEF Clone
<1>2. /\ nextSave \in Nat /\ brk \in 0 .. MemCap
      /\ cpu \in Cpu /\ cpu.sp \in 0 .. StkTop /\ ulen \in 0 .. StkTop
      /\ proc \in [0 .. MaxProcs - 1 -> Descriptor]
  BY ConstFacts DEF IInv, TypeOK, Cpu
<1>3. /\ \A a \in 0 .. nextSave - 1 : save'[a] = save[a]
      /\ save'[nextSave] = cpu
      /\ \A i \in 0 .. brk - 1 : save'[nextSave + 1 + i] = mem[i]
      /\ \A i \in 0 .. ulen - 1 : save'[nextSave + 1 + brk + i] = ustk[cpu.sp + i]
  BY CloneSaves
<1>4. /\ e.forked = 1
      /\ e.stackAddr = nextSave /\ e.memAddr = nextSave + 1 /\ e.memLen = brk
      /\ e.ustkAddr = nextSave + 1 + brk /\ e.ustkLen = ulen /\ e.savedBrk = brk
      /\ OwnPart(e) = OwnPart(proc[Current])
  <2>1. proc[Current] \in Descriptor /\ proc[Current].forked = 0
    BY <1>1, RunningFacts DEF Child, Descriptor
  <2> QED
    BY <1>2, <2>1, RecordedType DEF Recorded, OwnPart
<1>5. /\ npn \in 2 .. MaxProcs /\ Current = npn - 1 /\ npn' = npn /\ mode' = mode
      /\ proc' = [proc EXCEPT ![Current] = e]
      /\ cpu' = [cpu EXCEPT !.a0 = 0] /\ UNCHANGED <<mem, brk, ustk>>
  BY <1>1, RunningFacts DEF Clone, Current
<1> HIDE DEF e, ulen
<1>6. proc'[npn - 1] = e /\ \A l \in 0 .. MaxProcs - 1 : l # npn - 1 => proc'[l] = proc[l]
  BY <1>2, <1>5, ConstFacts
<1>7. Waiting = npn - 2 /\ Waiting' = npn - 1
  BY <1>1, <1>4, <1>5, <1>6, RunningFacts DEF Waiting, Child, Current
<1>8. Cur' = WithReturn(Cur, 0)
  <2>1. Running'
    BY <1>1, <1>5 DEF Running
  <2>2. Cur = ImageOf(brk, mem, ustk, cpu) /\ Cur' = ImageOf(brk, mem, ustk, [cpu EXCEPT !.a0 = 0])
    BY <1>1, <1>5, <2>1 DEF Cur
  <2> QED
    BY <1>2, <2>2, ImageReturns
<1>9. SavedKept
  <2> SUFFICES ASSUME NEW l \in 1 .. npn - 2 PROVE SavedImage(l)' = SavedImage(l)
    BY <1>7 DEF SavedKept
  <2>1. proc'[l] = proc[l] /\ proc[l] \in Descriptor
    BY <1>2, <1>5, <1>6, ConstFacts
  <2>2. Contiguous(proc[l]) /\ RecordEnd(l) <= nextSave
    BY <1>7 DEF IInv, RecordsOK, LiveRecordsAllocated
  <2> DEFINE d == proc[l]
  <2>3. /\ d.stackAddr \in Nat /\ d.memLen \in Nat /\ d.ustkLen \in Nat
        /\ d.memAddr = d.stackAddr + 1 /\ d.ustkAddr = d.memAddr + d.memLen
        /\ d.ustkAddr + d.ustkLen <= nextSave
        /\ d.memAddr \in Nat /\ d.ustkAddr \in Nat /\ nextSave \in Nat
    BY <1>2, <2>1, <2>2 DEF Contiguous, RecordEnd, Descriptor
  <2> HIDE DEF d
  <2>4. /\ d.stackAddr \in 0 .. nextSave - 1
        /\ \A i \in 0 .. d.memLen - 1 : d.memAddr + i \in 0 .. nextSave - 1
        /\ \A i \in StkTop - d.ustkLen .. StkTop - 1 :
             d.ustkAddr + i - (StkTop - d.ustkLen) \in 0 .. nextSave - 1
    <3>1. /\ d.stackAddr \in 0 .. nextSave - 1
          /\ \A i \in 0 .. d.memLen - 1 : d.memAddr + i \in 0 .. nextSave - 1
      BY <2>3
    <3>2. ASSUME NEW i \in StkTop - d.ustkLen .. StkTop - 1
          PROVE  d.ustkAddr + i - (StkTop - d.ustkLen) \in 0 .. nextSave - 1
      BY <2>3, ConstFacts
    <3> QED
      BY <3>1, <3>2
  <2>5. /\ save'[d.stackAddr] = save[d.stackAddr]
        /\ \A i \in 0 .. d.memLen - 1 : save'[d.memAddr + i] = save[d.memAddr + i]
        /\ \A i \in StkTop - d.ustkLen .. StkTop - 1 :
             save'[d.ustkAddr + i - (StkTop - d.ustkLen)] = save[d.ustkAddr + i - (StkTop - d.ustkLen)]
    BY <1>3, <2>4
  <2> QED
    BY <2>1, <2>5 DEF SavedImage, d
<1>10. ASSUME NEW l \in Nat, l = npn - 1 PROVE SavedImage(l)' = Cur
  <2>1. SavedImage(l)' =
          [mem |-> [i \in 0 .. brk - 1 |-> save'[nextSave + 1 + i]],
           stk |-> [i \in StkTop - ulen .. StkTop - 1 |-> save'[nextSave + 1 + brk + i - (StkTop - ulen)]],
           cpu |-> save'[nextSave]]
    BY <1>4, <1>6, <1>10 DEF SavedImage
  <2>2. StkTop - ulen = cpu.sp
    BY <1>2, ConstFacts DEF ulen
  <2>3. \A i \in cpu.sp .. StkTop - 1 : save'[nextSave + 1 + brk + i - cpu.sp] = ustk[i]
    <3> SUFFICES ASSUME NEW i \in cpu.sp .. StkTop - 1
                 PROVE  save'[nextSave + 1 + brk + i - cpu.sp] = ustk[i]
      OBVIOUS
    <3>1. i - cpu.sp \in 0 .. ulen - 1 /\ cpu.sp + (i - cpu.sp) = i
      BY <1>2, ConstFacts DEF ulen
    <3>2. save'[nextSave + 1 + brk + (i - cpu.sp)] = ustk[cpu.sp + (i - cpu.sp)]
      BY <1>3, <3>1
    <3>3. nextSave + 1 + brk + (i - cpu.sp) = nextSave + 1 + brk + i - cpu.sp
      BY <1>2
    <3> QED
      BY <3>1, <3>2, <3>3
  <2>4. Cur = ImageOf(brk, mem, ustk, cpu)
    BY <1>1 DEF Cur
  <2> QED
    BY <1>3, <2>1, <2>2, <2>3, <2>4 DEF ImageOf
<1>11. ASSUME NEW l \in 0 .. npn - 1
       PROVE  OwnPart(proc'[l]) = OwnPart(proc[l])
  <2>1. l \in 0 .. MaxProcs - 1
    BY <1>5, ConstFacts
  <2> QED
    BY <1>4, <1>5, <1>6, <2>1
<1> QED
  BY <1>5, <1>7, <1>8, <1>9, <1>10, <1>11

\* Loading clears all that a program is given.
LoadClears ==
    /\ ShellFloor <= ZeroLen
    /\ \A p \in Progs : FileLen[p] + Pad <= ZeroLen

LEMMA LoadedImages ==
    ASSUME NEW p \in Progs, NEW b \in Nat, b <= ZeroLen, b <= MemCap
    PROVE  ImageOf(b, LoadedMem(p, mem), WithArgs(ustk, p), EntryCpu(p)) = LoadedImage(p, b)
<1>1. EntryCpu(p) \in Cpu /\ EntryCpu(p).sp = StkTop - ArgLen
  BY ParamsAssumption DEF EntryCpu, Cpu
<1>2. \A i \in 0 .. b - 1 : LoadedMem(p, mem)[i] = LoadedMem(p, [j \in 0 .. MemCap - 1 |-> Zero])[i]
  BY ParamsAssumption DEF LoadedMem
<1>3. \A i \in StkTop - ArgLen .. StkTop - 1 :
        WithArgs(ustk, p)[i] = WithArgs([j \in 0 .. StkTop - 1 |-> Zero], p)[i]
  BY ParamsAssumption DEF WithArgs
<1> QED
  BY <1>1, <1>2, <1>3 DEF LoadedImage, ImageOf

\* execve puts the loaded program in the caller's place, or on a level of its
\* own, and wakes nobody.
LEMMA ExecImages ==
    ASSUME IInv, NEW p \in Progs, Execve(p), LoadClears
    PROVE  /\ Cur' = ExecImage(p)
           /\ Waiting' = Waiting /\ SavedKept
           /\ npn \in 2 .. MaxProcs /\ npn' = (IF Child THEN npn + 1 ELSE npn)
           /\ \A l \in 0 .. npn - 1 : l < npn' - 1 => OwnPart(proc'[l]) = OwnPart(proc[l])
           /\ proc'[npn' - 1].cwd = proc[npn - 1].cwd /\ proc'[npn' - 1].fds = {}
           /\ proc'[npn' - 1].status \in StatusCodes
           /\ ~Child => proc'[npn' - 1].status = proc[npn - 1].status
<1>1. /\ Running /\ UNCHANGED <<mode, nextSave, save>>
      /\ npn' = ExecLevel /\ proc' = ExecProc /\ ExecLevel <= MaxProcs
  BY DEF Execve
<1>2. /\ Current = npn - 1 /\ npn \in 2 .. MaxProcs /\ Current \in 1 .. MaxProcs - 1
      /\ Waiting = IF Child THEN npn - 1 ELSE npn - 2
      /\ (CreatesLevel <=> Child)
  <2>1. npn \in 2 .. MaxProcs /\ (CreatesLevel <=> Child)
    BY <1>1, RunningFacts, ConstFacts DEF CreatesLevel
  <2> QED
    BY <1>1, <2>1, RunningFacts, ConstFacts DEF Current
<1>3. proc \in [0 .. MaxProcs - 1 -> Descriptor] /\ proc' \in [0 .. MaxProcs - 1 -> Descriptor]
  BY ExecveIInv DEF IInv, TypeOK
<1>4. npn' = (IF Child THEN npn + 1 ELSE npn) /\ npn' \in 2 .. MaxProcs
  BY <1>1, <1>2, ConstFacts DEF ExecLevel
<1> DEFINE old == Unforked(proc[npn - 1])
           mid == [proc EXCEPT ![npn - 1] = old]
           e   == Entered(mid[npn' - 1], proc[npn - 1].cwd)
<1>5. proc' = [mid EXCEPT ![npn' - 1] = e]
  <2>1. CASE Child
    <3>1. npn' - 1 = npn /\ npn - 1 \in 0 .. MaxProcs - 1
      BY <1>2, <1>4, <2>1
    <3>2. ExecLevel - 1 = npn /\ (ExecLevel - 1) - 1 = npn - 1 /\ CreatesLevel
      BY <1>1, <1>2, <2>1, <3>1
    <3> QED
      BY <1>1, <1>2, <3>1, <3>2 DEF ExecProc
  <2>2. CASE ~Child
    <3>1. npn' - 1 = npn - 1 /\ ExecLevel - 1 = npn - 1 /\ ~CreatesLevel
      BY <1>1, <1>2, <1>4, <2>2
    <3> QED
      BY <1>1, <1>2, <3>1 DEF ExecProc
  <2> QED
    BY <2>1, <2>2
<1>6. /\ old \in Descriptor /\ OwnPart(old) = OwnPart(proc[npn - 1])
      /\ SameRecord(proc[npn - 1], old)
  <2>1. proc[npn - 1] \in Descriptor
    BY <1>2, <1>3
  <2>2. /\ Unforked(proc[npn - 1]).fds = proc[npn - 1].fds
        /\ Unforked(proc[npn - 1]).status = proc[npn - 1].status
    BY <2>1 DEF Unforked, Descriptor
  <2> QED
    BY <2>1, <2>2, UnforkedType DEF OwnPart
<1> HIDE DEF old
<1>7. \A l \in 0 .. MaxProcs - 1 : mid[l] = IF l = npn - 1 THEN old ELSE proc[l]
  BY <1>2, <1>3
<1>8. DOMAIN mid = 0 .. MaxProcs - 1
  BY <1>3
<1> HIDE DEF mid
<1>9. e.cwd = proc[npn - 1].cwd /\ e.fds = {} /\ e.status = mid[npn' - 1].status
  BY DEF Entered
<1> HIDE DEF e
<1>10. \A l \in 0 .. MaxProcs - 1 :
         proc'[l] = IF l = npn' - 1 THEN e ELSE IF l = npn - 1 THEN old ELSE proc[l]
  BY <1>5, <1>7, <1>8
<1>11. npn' - 1 \in 0 .. MaxProcs - 1 /\ npn - 1 \in 0 .. MaxProcs - 1
  BY <1>2, <1>4, ConstFacts
<1>12. ASSUME NEW l \in 0 .. npn - 1, l < npn' - 1 PROVE OwnPart(proc'[l]) = OwnPart(proc[l])
  <2>1. l \in 0 .. MaxProcs - 1 /\ l # npn' - 1
    BY <1>2, <1>4, <1>12, ConstFacts
  <2> QED
    BY <1>6, <1>10, <2>1
<1>13. proc'[npn' - 1] = e
  BY <1>10, <1>11
<1>14. e.status \in StatusCodes
  BY <1>3, <1>11, <1>13 DEF Descriptor
<1>15. ~Child => e.status = proc[npn - 1].status
  BY <1>4, <1>6, <1>7, <1>9, <1>11 DEF OwnPart
<1>16. Waiting' = Waiting
  <2>1. e.forked = 0
    BY DEF e, Entered
  <2> QED
    BY <1>2, <1>4, <1>13, <2>1 DEF Waiting, Child, Current
<1>17. SavedKept
  <2>1. \A l \in 1 .. Waiting : l \in 0 .. MaxProcs - 1 /\ l # npn' - 1
    BY <1>2, <1>4, ConstFacts
  <2>2. \A l \in 1 .. Waiting : SameRecord(proc[l], proc'[l])
    BY <1>6, <1>10, <2>1 DEF SameRecord
  <2> QED
    BY <1>1, <2>2, SameSaved
<1>18. Cur' = ExecImage(p)
  <2>1. FileLen[p] + Pad \in Nat /\ FileLen[p] + Pad <= MemCap
    BY ParamsAssumption
  <2>2. Running'
    BY <1>1 DEF Running
  <2>3. Cur' = ImageOf(FileLen[p] + Pad, LoadedMem(p, mem), WithArgs(ustk, p), EntryCpu(p))
    BY <2>2 DEF Cur, Execve
  <2> QED
    BY <2>1, <2>3, LoadedImages DEF ExecImage, LoadClears
<1> QED
  BY <1>2, <1>4, <1>9, <1>12, <1>13, <1>14, <1>15, <1>16, <1>17, <1>18

\* The shell starts a program while nobody waits.
LEMMA ShellRunImages ==
    ASSUME IInv, ShellLevel, NEW p \in Progs, ShellRun(p), LoadClears
    PROVE  /\ Cur = NoImage /\ Cur' = ShellImage(p)
           /\ Waiting = 0 /\ Waiting' = 0 /\ npn = 1 /\ npn' = 2
           /\ proc'[1].cwd = Root /\ proc'[1].fds = {} /\ proc'[1].status \in StatusCodes
           /\ proc'[0] = proc[0]
<1>1. npn = 1 /\ npn' = 2 /\ ~Running /\ Running' /\ UNCHANGED <<nextSave, save>>
  BY ConstFacts DEF IInv, TypeOK, ShellRun, Running
<1>2. 0 \in 0 .. MaxProcs - 1 /\ 1 \in 0 .. MaxProcs - 1
  BY ConstFacts
<1> DEFINE e == Entered(proc[1], proc[0].cwd)
<1>3. proc' = [proc EXCEPT ![1] = e]
  BY <1>1 DEF ShellRun
<1>4. e.cwd = Root /\ e.fds = {} /\ e.forked = 0
  BY DEF Entered, ShellLevel
<1> HIDE DEF e
<1>5. proc'[1] = e /\ proc'[0] = proc[0]
  BY <1>2, <1>3 DEF IInv, TypeOK
<1>6. e.status \in StatusCodes
  <2>1. proc' \in [0 .. MaxProcs - 1 -> Descriptor]
    BY ShellRunIInv DEF IInv, TypeOK
  <2> QED
    BY <1>2, <1>5, <2>1 DEF Descriptor
<1>7. Waiting = 0 /\ Waiting' = 0
  BY <1>1, <1>4, <1>5 DEF Waiting, Child, Current
<1>8. Cur' = ShellImage(p)
  <2> DEFINE b == Larger(ShellFloor, FileLen[p] + Pad)
  <2>1. b \in Nat /\ b <= MemCap /\ b <= ZeroLen
    BY ParamsAssumption DEF Larger, LoadClears
  <2>2. Cur' = ImageOf(b, LoadedMem(p, mem), WithArgs(ustk, p), EntryCpu(p))
    BY <1>1 DEF Cur, ShellRun
  <2> HIDE DEF b
  <2>3. Cur' = LoadedImage(p, b)
    BY <2>1, <2>2, LoadedImages
  <2> QED
    BY <2>3 DEF ShellImage, b
<1> QED
  BY <1>1, <1>4, <1>5, <1>6, <1>7, <1>8 DEF Cur

\* A failing execve leaves its mark on the stack, and a child without a
\* process of its own.
LEMMA ExecFailImages ==
    ASSUME IInv, ExecveFail
    PROVE  /\ Cur' = WithArgsOnTop(Cur)
           /\ Waiting' = npn - 2 /\ npn' = npn /\ npn \in 2 .. MaxProcs /\ SavedKept
           /\ ~Child => proc' = proc
           /\ proc'[0] = proc[0]
<1>1. Running /\ Running' /\ UNCHANGED <<mode, npn, nextSave, save, mem, brk>>
  BY DEF ExecveFail, Running
<1>2. /\ Current = npn - 1 /\ npn \in 2 .. MaxProcs
      /\ proc[Current] \in Descriptor
      /\ Waiting = IF Child THEN npn - 1 ELSE npn - 2
  BY <1>1, RunningFacts, ConstFacts DEF Current
<1>3. proc \in [0 .. MaxProcs - 1 -> Descriptor]
  BY DEF IInv, TypeOK
<1> DEFINE e == Unforked(proc[npn - 1])
<1>4. proc' = [proc EXCEPT ![npn - 1] = e]
  BY <1>2 DEF ExecveFail
<1>5. /\ SameRecord(proc[npn - 1], e) /\ e.forked = 0
      /\ ~Child => e = proc[npn - 1]
  <2>1. proc[npn - 1].forked \in {0, 1}
    BY <1>1, <1>2, RunningFacts
  <2> QED
    BY <1>2, <2>1, UnforkedType DEF Child
<1> HIDE DEF e
<1>6. \A l \in 0 .. MaxProcs - 1 : proc'[l] = IF l = npn - 1 THEN e ELSE proc[l]
  BY <1>3, <1>4
<1>7. Waiting' = npn - 2
  BY <1>1, <1>2, <1>5, <1>6, ConstFacts DEF Waiting, Child, Current
<1>8. SavedKept
  <2>1. \A l \in 1 .. Waiting : l \in 0 .. MaxProcs - 1
    BY <1>2, ConstFacts
  <2>2. \A l \in 1 .. Waiting : SameRecord(proc[l], proc'[l])
    BY <1>5, <1>6, <2>1 DEF SameRecord
  <2> QED
    BY <1>1, <2>2, SameSaved
<1>9. ~Child => proc' = proc
  BY <1>3, <1>4, <1>5
<1>10. proc'[0] = proc[0]
  BY <1>2, <1>6, ConstFacts
<1>11. Cur' = WithArgsOnTop(Cur)
  <2> DEFINE S == [i \in cpu.sp .. StkTop - 1 |-> ustk[i]]
             T == [i \in cpu.sp .. StkTop - 1 |-> IF i >= StkTop - ArgLen THEN NoProg ELSE ustk[i]]
             M == [i \in 0 .. brk - 1 |-> mem[i]]
  <2>1. cpu \in Cpu /\ cpu.sp \in 0 .. StkTop /\ cpu' = [cpu EXCEPT !.a0 = -1] /\ cpu'.sp = cpu.sp
    BY DEF IInv, TypeOK, Cpu, ExecveFail
  <2>2. Cur = [mem |-> M, stk |-> S, cpu |-> cpu]
    BY <1>1 DEF Cur, ImageOf
  <2>3. \A i \in cpu.sp .. StkTop - 1 : WithArgs(ustk, NoProg)[i] = T[i]
    BY <2>1, ConstFacts DEF WithArgs
  <2>4. Cur' = [mem |-> M, stk |-> T, cpu |-> cpu']
    BY <1>1, <2>1, <2>3 DEF Cur, ImageOf, ExecveFail
  <2>5. T = [i \in DOMAIN S |-> IF i >= StkTop - ArgLen THEN NoProg ELSE S[i]]
    OBVIOUS
  <2> HIDE DEF M, S, T
  <2>6. WithReturn(Cur, -1) = [mem |-> M, stk |-> S, cpu |-> cpu']
    BY <2>1, <2>2 DEF WithReturn
  <2> QED
    BY <2>2, <2>4, <2>5, <2>6 DEF WithArgsOnTop
<1> QED
  BY <1>1, <1>2, <1>7, <1>8, <1>9, <1>10, <1>11

\* exit gives the parent its image back, or the shell control.
LEMMA ExitImages ==
    ASSUME IInv, NEW code \in Codes \cup {FaultCode}, Exit(code)
    PROVE  /\ npn \in 2 .. MaxProcs /\ npn' = npn - 1 /\ SavedKept
           /\ proc'[0].cwd = proc[0].cwd
           /\ npn = 2 => Cur' = NoImage /\ Waiting' = 0
           /\ npn # 2 =>
                /\ Waiting' = npn - 3
                /\ \A l \in Nat : l = npn - 2 => Cur' = WithReturn(SavedImage(l), 1)
                /\ \A l \in 1 .. npn - 2 :
                     OwnPart(proc'[l]) = [OwnPart(proc[l]) EXCEPT
                                            !.status = IF l = npn - 2 THEN code ELSE @]
<1>1. Running /\ npn' = npn - 1 /\ IInv'
  BY ExitIInv DEF Exit
<1>2. npn \in 2 .. MaxProcs /\ Waiting \in Nat /\ npn - 2 <= Waiting /\ Waiting <= npn - 1
  BY <1>1, RunningFacts, ConstFacts
<1>3. proc \in [0 .. MaxProcs - 1 -> Descriptor]
  BY DEF IInv, TypeOK
<1>4. CASE npn = 2
  <2>1. mode' = "shell" /\ UNCHANGED <<proc, save>> /\ npn' = 1
    BY <1>1, <1>4 DEF Exit, ToShell
  <2>2. Cur' = NoImage /\ Waiting' = 0
    BY <2>1 DEF Cur, Running, Waiting
  <2>3. SavedKept
    BY <2>1, SameSaved DEF SameRecord
  <2> QED
    BY <1>1, <1>2, <1>4, <2>1, <2>2, <2>3
<1>5. CASE npn # 2
  <2> DEFINE m == npn - 2
             d == proc[m]
             e == [d EXCEPT !.status = code]
  <2>1. /\ npn \in 3 .. MaxProcs /\ m \in 1 .. Waiting /\ m \in 1 .. npn - 1
        /\ m \in 0 .. MaxProcs - 1 /\ Resume(m, code)
    BY <1>1, <1>2, <1>5, ConstFacts DEF Exit
  <2>2. code \in StatusCodes
    BY DEF StatusCodes
  <2>3. d \in Descriptor /\ Contiguous(d) /\ Intact(d, save)
    BY <1>3, <2>1 DEF IInv, RecordsOK
  <2>4. /\ proc' = [proc EXCEPT ![m] = e] /\ save' = save /\ mode' = mode
        /\ mem' = Copied(mem, 0, save, d.memAddr, d.memLen)
        /\ ustk' = Copied(ustk, StkTop - d.ustkLen, save, d.ustkAddr, d.ustkLen)
        /\ cpu' = [save[d.stackAddr] EXCEPT !.a0 = 1]
        /\ brk' = d.savedBrk
    BY <2>1 DEF Resume, Reported, ParentStack
  <2>5. /\ SameRecord(d, e) /\ e.cwd = d.cwd /\ e.forked = d.forked
        /\ OwnPart(e) = [OwnPart(d) EXCEPT !.status = code]
    BY <2>3 DEF Descriptor, SameRecord, OwnPart
  <2> HIDE DEF e
  <2>6. \A l \in 0 .. MaxProcs - 1 : proc'[l] = IF l = m THEN e ELSE proc[l]
    BY <1>3, <2>4
  <2>7. Waiting' = npn - 3
    <3>1. npn - 2 \in 1 .. npn - 1 /\ npn - 2 # npn - 1 /\ npn - 2 \in 0 .. MaxProcs - 1
      BY <2>1
    <3>2. proc[npn - 2].forked <= 0 /\ proc[npn - 2] \in Descriptor
      BY <1>3, <3>1 DEF IInv, OneFork
    <3>3. proc'[npn - 2].forked = proc[npn - 2].forked
      BY <2>5, <2>6, <3>1
    <3>4. ~(proc'[npn' - 1].forked > 0)
      BY <1>1, <1>2, <3>2, <3>3 DEF Descriptor
    <3> QED
      BY <1>1, <2>1, <3>4 DEF Waiting, Child, Current
  <2>8. SavedKept
    <3>1. \A l \in 1 .. Waiting : l \in 0 .. MaxProcs - 1
      BY <1>2, ConstFacts
    <3>2. \A l \in 1 .. Waiting : SameRecord(proc[l], proc'[l])
      BY <2>5, <2>6, <3>1 DEF SameRecord
    <3> QED
      BY <2>4, <3>2, SameSaved
  <2>9. proc'[0].cwd = proc[0].cwd
    BY <2>1, <2>5, <2>6, ConstFacts
  <2>10. ASSUME NEW l \in 1 .. npn - 2
         PROVE  OwnPart(proc'[l]) = [OwnPart(proc[l]) EXCEPT
                                       !.status = IF l = npn - 2 THEN code ELSE @]
    <3>1. l \in 0 .. MaxProcs - 1 /\ proc[l] \in Descriptor
      BY <1>2, <1>3, ConstFacts
    <3> QED
      BY <2>5, <2>6, <3>1 DEF OwnPart
  <2>11. Cur' = WithReturn(SavedImage(m), 1)
    <3> HIDE DEF d
    <3>1. /\ d.memLen \in 0 .. MemCap /\ d.ustkLen \in 0 .. StkTop /\ d.savedBrk = d.memLen
          /\ d.memAddr \in Nat /\ d.ustkAddr \in Nat
      BY <2>3 DEF Descriptor, Contiguous
    <3> DEFINE c == save[d.stackAddr]
               M == [i \in 0 .. d.memLen - 1 |-> save[d.memAddr + i]]
               S == [i \in StkTop - d.ustkLen .. StkTop - 1 |->
                       save[d.ustkAddr + i - (StkTop - d.ustkLen)]]
    <3>2. c \in Cpu /\ c.sp = StkTop - d.ustkLen /\ cpu'.sp = c.sp
      BY <2>3, <2>4 DEF Intact, Cpu
    <3>3. SavedImage(m) = [mem |-> M, stk |-> S, cpu |-> c]
      BY DEF SavedImage, d
    <3>4. \A i \in 0 .. d.memLen - 1 : mem'[i] = M[i]
      <4>1. \A i \in 0 .. d.memLen - 1 : i \in DOMAIN mem
        BY <3>1, ConstFacts DEF IInv, TypeOK
      <4> QED
        BY <2>4, <3>1, <4>1 DEF Copied
    <3>5. \A i \in StkTop - d.ustkLen .. StkTop - 1 : ustk'[i] = S[i]
      <4> SUFFICES ASSUME NEW i \in StkTop - d.ustkLen .. StkTop - 1 PROVE ustk'[i] = S[i]
        OBVIOUS
      <4>1. i \in DOMAIN ustk
        BY <3>1, ConstFacts DEF IInv, TypeOK
      <4>2. i \in StkTop - d.ustkLen .. StkTop - d.ustkLen + d.ustkLen - 1
        BY <3>1, ConstFacts
      <4>3. ustk'[i] = save[d.ustkAddr + (i - (StkTop - d.ustkLen))]
        BY <2>4, <4>1, <4>2 DEF Copied
      <4>4. d.ustkAddr + (i - (StkTop - d.ustkLen)) = d.ustkAddr + i - (StkTop - d.ustkLen)
        BY <3>1, ConstFacts
      <4> QED
        BY <4>3, <4>4
    <3>6. Cur' = ImageOf(brk', mem', ustk', cpu')
      BY <1>1, <2>4 DEF Cur, Running
    <3>7. Cur' = [mem |-> M, stk |-> S, cpu |-> cpu']
      BY <2>4, <3>1, <3>2, <3>4, <3>5, <3>6 DEF ImageOf
    <3> HIDE DEF M, S
    <3> QED
      BY <2>4, <3>3, <3>7 DEF WithReturn
  <2> QED
    BY <1>1, <1>2, <1>5, <2>7, <2>8, <2>9, <2>10, <2>11
<1> QED
  BY <1>4, <1>5

\* Whatever leaves descriptors and save area alone leaves the waiting alone.
LEMMA LocalImages ==
    ASSUME UNCHANGED <<npn, proc, save>>
    PROVE  Waiting' = Waiting /\ SavedKept /\ Level' = Level /\ Suspended' = Suspended
<1>1. Waiting' = Waiting
  BY DEF Waiting, Child, Current
<1>2. SavedKept
  BY SameSaved DEF SameRecord
<1>3. Suspended' = Suspended
  BY <1>1 DEF Suspended, SavedImage
<1> QED
  BY <1>1, <1>2, <1>3 DEF Level

\* chdir and the file calls return to a caller that has another directory or
\* other files.
LEMMA AttributesImages ==
    ASSUME IInv, NEW dir \in Dirs, NEW F \in SUBSET Fds, Chdir(dir) \/ SetFds(F)
    PROVE  /\ Cur' = WithReturn(Cur, 0)
           /\ Waiting' = Waiting /\ SavedKept /\ npn' = npn /\ npn \in 2 .. MaxProcs
           /\ \A l \in 0 .. npn - 1 : l # npn - 1 => proc'[l] = proc[l]
           /\ proc'[npn - 1].status = proc[npn - 1].status
<1>1. Running /\ Running' /\ UNCHANGED <<mode, npn, nextSave, save, mem, brk, ustk>>
  BY DEF Chdir, SetFds, Running
<1>2. npn \in 2 .. MaxProcs /\ Current = npn - 1
  BY <1>1, RunningFacts DEF Current
<1>3. proc \in [0 .. MaxProcs - 1 -> Descriptor] /\ npn - 1 \in 0 .. MaxProcs - 1
  BY <1>2, ConstFacts DEF IInv, TypeOK
<1> DEFINE d == proc[npn - 1]
           e == IF Chdir(dir) THEN [d EXCEPT !.cwd = dir] ELSE [d EXCEPT !.fds = F]
<1>4. proc' = [proc EXCEPT ![npn - 1] = e]
  BY <1>2 DEF Chdir, SetFds
<1>5. SameRecord(d, e) /\ e.forked = d.forked /\ e.status = d.status
  BY <1>3 DEF Descriptor, SameRecord
<1> HIDE DEF e
<1>6. \A l \in 0 .. MaxProcs - 1 : proc'[l] = IF l = npn - 1 THEN e ELSE proc[l]
  BY <1>3, <1>4
<1>7. Waiting' = Waiting
  BY <1>1, <1>3, <1>5, <1>6 DEF Waiting, Child, Current
<1>8. SavedKept
  <2>1. \A l \in 1 .. Waiting : l \in 0 .. MaxProcs - 1
    BY <1>1, <1>2, RunningFacts, ConstFacts
  <2>2. \A l \in 1 .. Waiting : SameRecord(proc[l], proc'[l])
    BY <1>5, <1>6, <2>1 DEF SameRecord
  <2> QED
    BY <1>1, <2>2, SameSaved
<1>9. Cur' = WithReturn(Cur, 0)
  <2>1. Cur = ImageOf(brk, mem, ustk, cpu) /\ Cur' = ImageOf(brk, mem, ustk, cpu')
    BY <1>1 DEF Cur
  <2>2. cpu' = [cpu EXCEPT !.a0 = 0] /\ cpu \in Cpu
    BY DEF Chdir, SetFds, IInv, TypeOK
  <2> QED
    BY <2>1, <2>2, ImageReturns
<1>10. \A l \in 0 .. npn - 1 : l # npn - 1 => proc'[l] = proc[l]
  BY <1>2, <1>6, ConstFacts
<1> QED
  BY <1>1, <1>2, <1>3, <1>5, <1>6, <1>7, <1>8, <1>9, <1>10

\* A store makes of the image what computing can make of it.
LEMMA StoreImages ==
    ASSUME IInv, NEW i \in Touched, Store(i)
    PROVE  Cur' \in ComputedOf(Cur) /\ UNCHANGED <<npn, proc, save>>
<1>1. Running /\ Running' /\ UNCHANGED <<mode, npn, proc, save, brk, ustk>> /\ i < brk
  BY DEF Store, Running
<1> DEFINE M == [j \in 0 .. brk - 1 |-> mem[j]]
           S == [j \in cpu.sp .. StkTop - 1 |-> ustk[j]]
<1>2. cpu \in Cpu /\ cpu' = [cpu EXCEPT !.a0 = 0] /\ cpu'.sp = cpu.sp
  BY DEF IInv, TypeOK, Cpu, Store
<1>3. i \in 0 .. brk - 1 /\ \A j \in 0 .. brk - 1 : j \in DOMAIN mem
  BY <1>1, ParamsAssumption DEF IInv, TypeOK
<1>4. \A j \in 0 .. brk - 1 : mem'[j] = [M EXCEPT ![i] = cpu.prog][j]
  BY <1>3 DEF Store
<1>5. Cur = [mem |-> M, stk |-> S, cpu |-> cpu]
  BY <1>1 DEF Cur, ImageOf
<1>6. Cur' = [mem |-> [M EXCEPT ![i] = cpu.prog], stk |-> S, cpu |-> cpu']
  BY <1>1, <1>2, <1>4 DEF Cur, ImageOf
<1>7. i \in DOMAIN M
  BY <1>3
<1> HIDE DEF M, S
<1>8. WithReturn(Cur, 0) = [mem |-> M, stk |-> S, cpu |-> cpu']
  BY <1>2, <1>5 DEF WithReturn
<1>9. Cur' = Stored(Cur, i)
  BY <1>5, <1>6, <1>8 DEF Stored
<1>10. i \in Touched \cap DOMAIN Cur.mem
  BY <1>5, <1>7
<1> QED
  BY <1>1, <1>9, <1>10 DEF ComputedOf

\* So does a push or a pop.
LEMMA StackImages ==
    ASSUME IInv, Push \/ Pop
    PROVE  Cur' \in ComputedOf(Cur) /\ UNCHANGED <<npn, proc, save>>
<1>1. Running /\ Running' /\ UNCHANGED <<mode, npn, proc, save, brk, mem>>
  BY DEF Push, Pop, Running
<1> DEFINE n == IF Push THEN cpu.sp - 1 ELSE cpu.sp + 1
           M == [j \in 0 .. brk - 1 |-> mem[j]]
           S == [j \in cpu.sp .. StkTop - 1 |-> ustk[j]]
           T == [j \in n .. StkTop - 1 |-> IF j < cpu.sp THEN cpu.prog ELSE S[j]]
<1>2. cpu \in Cpu /\ cpu.sp \in 0 .. StkTop
  BY DEF IInv, TypeOK, Cpu
<1>3. n \in {cpu.sp - 1, cpu.sp + 1} /\ n \in 0 .. StkTop
  BY <1>2, ConstFacts DEF Push, Pop
<1>4. cpu' = [cpu EXCEPT !.sp = n, !.a0 = 0]
  <2>1. CASE Push
    BY <2>1, <1>2 DEF Push, Cpu
  <2>2. CASE ~Push
    BY <2>2, <1>2 DEF Pop, Cpu
  <2> QED
    BY <2>1, <2>2
<1>5. cpu'.sp = n
  BY <1>2, <1>4 DEF Cpu
<1>6. \A j \in n .. StkTop - 1 : ustk'[j] = T[j]
  <2> SUFFICES ASSUME NEW j \in n .. StkTop - 1 PROVE ustk'[j] = T[j]
    OBVIOUS
  <2>1. j \in DOMAIN ustk
    BY <1>3, ConstFacts DEF IInv, TypeOK
  <2>2. CASE Push
    <3>1. ustk' = [ustk EXCEPT ![cpu.sp - 1] = cpu.prog] /\ n = cpu.sp - 1
      BY <2>2 DEF Push
    <3> QED
      BY <3>1, <2>1, <1>2, ConstFacts
  <2>3. CASE ~Push
    <3>1. ustk' = ustk /\ n = cpu.sp + 1
      BY <2>3 DEF Pop
    <3> QED
      BY <3>1, <1>2, ConstFacts
  <2> QED
    BY <2>2, <2>3
<1>7. Cur = [mem |-> M, stk |-> S, cpu |-> cpu]
  BY <1>1 DEF Cur, ImageOf
<1>8. Cur' = [mem |-> M, stk |-> T, cpu |-> cpu']
  <2>1. Cur' = ImageOf(brk, mem, ustk', cpu')
    BY <1>1 DEF Cur
  <2>2. [j \in cpu'.sp .. StkTop - 1 |-> ustk'[j]] = T
    BY <1>5, <1>6
  <2> HIDE DEF n, T
  <2> QED
    BY <2>1, <2>2 DEF ImageOf
<1>9. StackFrom(Cur, n) = [mem |-> M, stk |-> T, cpu |-> cpu']
  <2> HIDE DEF n, M, S
  <2> QED
    BY <1>4, <1>7 DEF StackFrom
<1>10. Cur.cpu = cpu
  BY <1>7
<1> HIDE DEF n, M, S, T
<1> QED
  BY <1>1, <1>3, <1>8, <1>9, <1>10 DEF ComputedOf

\* brk moves the end of the image's memory.
LEMMA BrkImages ==
    ASSUME IInv, NEW b \in Brks, Brk(b)
    PROVE  Cur' = BreakAt(Cur, b) /\ UNCHANGED <<npn, proc, save>>
<1>1. Running /\ Running' /\ UNCHANGED <<mode, npn, proc, save, ustk>>
  BY DEF Brk, Running
<1> DEFINE M == [j \in 0 .. brk - 1 |-> mem[j]]
           S == [j \in cpu.sp .. StkTop - 1 |-> ustk[j]]
           N == [j \in 0 .. b - 1 |-> IF j \in 0 .. brk - 1 THEN M[j] ELSE Zero]
<1>2. cpu \in Cpu /\ brk \in 0 .. MemCap /\ b \in Nat
  BY ParamsAssumption DEF IInv, TypeOK
<1>3. Cur = [mem |-> M, stk |-> S, cpu |-> cpu] /\ DOMAIN Cur.mem = 0 .. brk - 1
  BY <1>1 DEF Cur, ImageOf
<1>4. CASE b > MemCap
  <2>1. cpu' = [cpu EXCEPT !.a0 = -1] /\ UNCHANGED <<mem, brk>>
    BY <1>2, <1>4, ConstFacts DEF Brk, BreakAllowed
  <2>2. Cur = ImageOf(brk, mem, ustk, cpu) /\ Cur' = ImageOf(brk, mem, ustk, cpu')
    BY <1>1, <2>1 DEF Cur
  <2>3. Cur' = WithReturn(Cur, -1)
    BY <1>2, <2>1, <2>2, ImageReturns
  <2> QED
    BY <1>1, <1>4, <2>3 DEF BreakAt
<1>5. CASE ~(b > MemCap)
  <2>1. /\ cpu' = [cpu EXCEPT !.a0 = 0] /\ brk' = b
        /\ mem' = [j \in 0 .. MemCap - 1 |-> IF j \in brk .. b - 1 THEN Zero ELSE mem[j]]
    BY <1>2, <1>5, ConstFacts DEF Brk, BreakAllowed
  <2>2. cpu'.sp = cpu.sp
    BY <1>2, <2>1 DEF Cpu
  <2>3. \A j \in 0 .. b - 1 : mem'[j] = N[j]
    BY <1>2, <1>5, <2>1, ConstFacts
  <2>4. Cur' = [mem |-> N, stk |-> S, cpu |-> cpu']
    <3>1. Cur' = ImageOf(b, mem', ustk, cpu')
      BY <1>1, <2>1 DEF Cur
    <3>2. [j \in 0 .. b - 1 |-> mem'[j]] = N
      BY <2>3
    <3> HIDE DEF N
    <3> QED
      BY <2>2, <3>1, <3>2 DEF ImageOf
  <2>5. N = [j \in 0 .. b - 1 |-> IF j \in DOMAIN Cur.mem THEN Cur.mem[j] ELSE Zero]
    <3>1. Cur.mem = M
      BY <1>3
    <3> HIDE DEF M
    <3> QED
      BY <1>3, <3>1
  <2> HIDE DEF M, S, N
  <2>6. WithReturn(Cur, 0) = [mem |-> M, stk |-> S, cpu |-> cpu']
    BY <1>3, <2>1 DEF WithReturn
  <2>7. BreakAt(Cur, b) = [WithReturn(Cur, 0) EXCEPT !.mem = N]
    BY <1>5, <2>5 DEF BreakAt
  <2> QED
    BY <1>1, <2>4, <2>6, <2>7
<1> QED
  BY <1>4, <1>5

\* Waiting stores the status of the child that exited last.
LEMMA WaitImages ==
    ASSUME IInv, NEW i \in WaitSlots, NEW ret \in {0, 1}, Wait(i, ret)
    PROVE  /\ Cur' = [WithReturn(Cur, ret) EXCEPT !.mem[i] = StatusWord[proc[Current].status]]
           /\ i \in DOMAIN Cur.mem
           /\ UNCHANGED <<npn, proc, save>>
<1>1. Running /\ Running' /\ UNCHANGED <<mode, npn, proc, save, brk, ustk>> /\ i < brk
  BY DEF Wait, Running
<1> DEFINE M == [j \in 0 .. brk - 1 |-> mem[j]]
           S == [j \in cpu.sp .. StkTop - 1 |-> ustk[j]]
           w == StatusWord[proc[Current].status]
<1>2. cpu \in Cpu /\ cpu' = [cpu EXCEPT !.a0 = ret] /\ cpu'.sp = cpu.sp
  BY DEF IInv, TypeOK, Cpu, Wait
<1>3. i \in 0 .. brk - 1 /\ \A j \in 0 .. brk - 1 : j \in DOMAIN mem
  BY <1>1, ParamsAssumption DEF IInv, TypeOK
<1>4. \A j \in 0 .. brk - 1 : mem'[j] = [M EXCEPT ![i] = w][j]
  BY <1>3 DEF Wait
<1>5. Cur = [mem |-> M, stk |-> S, cpu |-> cpu]
  BY <1>1 DEF Cur, ImageOf
<1>6. Cur' = [mem |-> [M EXCEPT ![i] = w], stk |-> S, cpu |-> cpu']
  BY <1>1, <1>2, <1>4 DEF Cur, ImageOf
<1>7. i \in DOMAIN M
  BY <1>3
<1> HIDE DEF M, S, w
<1>8. WithReturn(Cur, ret) = [mem |-> M, stk |-> S, cpu |-> cpu']
  BY <1>2, <1>5 DEF WithReturn
<1> QED
  BY <1>1, <1>5, <1>6, <1>7, <1>8 DEF w

-----------------------------------------------------------------------------
(* What a program finds in its memory *)

\* What a program finds that nobody else left there.
Own(prog) == {prog, Zero} \cup {StatusWord[c] : c \in StatusCodes}

CleanImage(img) == \A i \in DOMAIN img.mem : img.mem[i] \in Own(img.cpu.prog)

\* The images of the waiting are as clean as that of the running process.
Clean ==
    /\ Running => CleanImage(Cur)
    /\ \A l \in 1 .. Waiting : CleanImage(SavedImage(l))

LEMMA CleanAnswers ==
    ASSUME NEW img, img = [mem |-> img.mem, stk |-> img.stk, cpu |-> img.cpu], img.cpu \in Cpu,
           NEW v, CleanImage(img)
    PROVE  CleanImage(WithReturn(img, v)) /\ CleanImage(WithArgsOnTop(img))
<1>1. \A w : WithReturn(img, w).mem = img.mem /\ WithReturn(img, w).cpu.prog = img.cpu.prog
  BY DEF WithReturn, Cpu
<1>2. WithArgsOnTop(img).mem = WithReturn(img, -1).mem /\ WithArgsOnTop(img).cpu = WithReturn(img, -1).cpu
  BY DEF WithArgsOnTop, WithReturn
<1> QED
  BY <1>1, <1>2 DEF CleanImage

LEMMA CleanLoaded ==
    ASSUME NEW p \in Progs, NEW b \in Nat, b <= MemCap
    PROVE  CleanImage(LoadedImage(p, b))
<1> DEFINE old == [i \in 0 .. MemCap - 1 |-> Zero]
<1>1. /\ DOMAIN LoadedImage(p, b).mem = 0 .. b - 1
      /\ \A i \in 0 .. b - 1 : LoadedImage(p, b).mem[i] = LoadedMem(p, old)[i]
      /\ LoadedImage(p, b).cpu.prog = p
  BY DEF LoadedImage, ImageOf, EntryCpu
<1>2. \A i \in 0 .. b - 1 : LoadedMem(p, old)[i] \in {p, Zero}
  BY ConstFacts DEF LoadedMem
<1> HIDE DEF old
<1> QED
  BY <1>1, <1>2 DEF CleanImage, Own

LEMMA CleanHere ==
    ASSUME Running
    PROVE  CleanImage(Cur) <=> \A i \in 0 .. brk - 1 : mem[i] \in Own(cpu.prog)
BY DEF Cur, ImageOf, CleanImage

LEMMA SavedShape ==
    ASSUME IInv, NEW l \in 1 .. Waiting
    PROVE  LET img == SavedImage(l) IN
           img = [mem |-> img.mem, stk |-> img.stk, cpu |-> img.cpu] /\ img.cpu \in Cpu
BY DEF IInv, RecordsOK, Intact, SavedImage

LEMMA CurShape ==
    ASSUME IInv, Running
    PROVE  Cur = [mem |-> Cur.mem, stk |-> Cur.stk, cpu |-> Cur.cpu] /\ Cur.cpu \in Cpu
BY DEF IInv, TypeOK, Cur, ImageOf

LEMMA SavedStayClean ==
    ASSUME Clean, SavedKept, Waiting \in Nat, Waiting' \in Nat, Waiting' <= Waiting
    PROVE  \A l \in 1 .. Waiting' : CleanImage(SavedImage(l))'
<1> SUFFICES ASSUME NEW l \in 1 .. Waiting' PROVE CleanImage(SavedImage(l)')
  BY DEF CleanImage, Own
<1>1. l \in 1 .. Waiting /\ l <= Waiting'
  OBVIOUS
<1> QED
  BY <1>1 DEF Clean, SavedKept

LEMMA WaitingIsNat == IInv => Waiting \in Nat /\ npn \in 1 .. MaxProcs
BY ConstFacts, RunningFacts DEF IInv, TypeOK, Waiting, Running

LEMMA WaitingIsNatNext == IInv' => (Waiting \in Nat)'
BY WaitingIsNat, PTL

LEMMA NextClean == ASSUME LoadClears PROVE IInv /\ ShellLevel /\ Clean /\ [Next]_vars => Clean'
<1> SUFFICES ASSUME IInv, ShellLevel, Clean, [Next]_vars PROVE Clean'
  OBVIOUS
<1>1. IInv' /\ Waiting \in Nat /\ Waiting' \in Nat
  <2>1. IInv'
    BY NextIInv
  <2> QED
    BY <2>1, WaitingIsNat, WaitingIsNatNext
<1>2. \A l \in 1 .. Waiting : CleanImage(SavedImage(l))
  BY DEF Clean
<1>3. ASSUME SavedKept, Waiting' <= Waiting, Running' => CleanImage(Cur)' PROVE Clean'
  BY <1>1, <1>3, SavedStayClean DEF Clean
<1>4. ASSUME Running, NEW v PROVE CleanImage(WithReturn(Cur, v)) /\ CleanImage(WithArgsOnTop(Cur))
  BY <1>4, CurShape, CleanAnswers DEF Clean
<1>5. CASE UNCHANGED vars
  <2>1. UNCHANGED <<mode, npn, proc, save, mem, brk, ustk, cpu>>
    BY <1>5 DEF vars
  <2>2. Cur' = Cur /\ Running' = Running
    BY <2>1 DEF Cur, Running
  <2> QED
    BY <1>1, <1>3, <2>1, <2>2, LocalImages DEF Clean
<1>6. ASSUME NEW p \in Progs, ShellRun(p) PROVE Clean'
  <2>1. Cur' = ShellImage(p) /\ Waiting' = 0
    BY <1>6, ShellRunImages
  <2>2. Larger(ShellFloor, FileLen[p] + Pad) \in Nat /\ Larger(ShellFloor, FileLen[p] + Pad) <= MemCap
    BY ParamsAssumption DEF Larger
  <2>3. CleanImage(ShellImage(p))
    BY <2>2, CleanLoaded DEF ShellImage
  <2> QED
    BY <2>1, <2>3 DEF Clean
<1>7. CASE UserStep
  <2>1. UNCHANGED <<npn, proc, save, brk>> /\ Running /\ cpu'.prog = cpu.prog /\ Running'
    BY <1>7 DEF UserStep, Store, Push, Pop, Running, IInv, TypeOK, Cpu
  <2>2. \A j \in 0 .. brk - 1 : mem[j] \in Own(cpu.prog) /\ j \in DOMAIN mem
    BY <2>1, CleanHere, ConstFacts DEF Clean, IInv, TypeOK
  <2>3. \A j \in 0 .. brk - 1 : mem'[j] \in Own(cpu.prog)
    BY <1>7, <2>2 DEF UserStep, Store, Push, Pop, Own
  <2>4. CleanImage(Cur)'
    BY <2>1, <2>3 DEF Cur, ImageOf, CleanImage
  <2> QED
    BY <1>1, <1>3, <2>1, <2>4, LocalImages
<1>8. CASE Clone
  <2>1. /\ Cur' = WithReturn(Cur, 0) /\ Waiting' = Waiting + 1 /\ Waiting = npn - 2
        /\ npn \in 2 .. MaxProcs /\ SavedKept
        /\ \A l \in Nat : l = npn - 1 => SavedImage(l)' = Cur
    BY <1>8, ForkImages
  <2>2. Running
    BY <1>8 DEF Clone
  <2>3. CleanImage(Cur) /\ CleanImage(Cur)'
    BY <1>4, <2>1, <2>2 DEF Clean
  <2>4. ASSUME NEW l \in 1 .. Waiting' PROVE CleanImage(SavedImage(l)')
    <3>1. CASE l = npn - 1
      <4>1. SavedImage(l)' = Cur
        BY <2>1, <3>1
      <4> QED
        BY <2>3, <4>1
    <3>2. CASE l # npn - 1
      <4>1. l \in 1 .. Waiting /\ l <= Waiting'
        BY <2>1, <3>2
      <4> QED
        BY <1>2, <2>1, <4>1 DEF SavedKept
    <3> QED
      BY <3>1, <3>2
  <2> QED
    BY <2>3, <2>4 DEF Clean
<1>9. CASE ExecveFail
  <2>1. Cur' = WithArgsOnTop(Cur) /\ Waiting' = npn - 2 /\ SavedKept /\ npn \in 2 .. MaxProcs
    BY <1>9, ExecFailImages
  <2>2. Running /\ Waiting' <= Waiting
    BY <1>9, <2>1, RunningFacts DEF ExecveFail
  <2> QED
    BY <1>3, <1>4, <2>1, <2>2
<1>10. ASSUME NEW p \in Progs, Execve(p) PROVE Clean'
  <2>1. Cur' = ExecImage(p) /\ Waiting' = Waiting /\ SavedKept
    BY <1>10, ExecImages
  <2>2. FileLen[p] + Pad \in Nat /\ FileLen[p] + Pad <= MemCap
    BY ParamsAssumption
  <2>3. CleanImage(ExecImage(p))
    BY <2>2, CleanLoaded DEF ExecImage
  <2> QED
    BY <1>1, <1>3, <2>1, <2>3
<1>11. ASSUME NEW c \in Codes \cup {FaultCode}, Exit(c) PROVE Clean'
  <2>1. /\ npn \in 2 .. MaxProcs /\ npn' = npn - 1 /\ SavedKept
        /\ npn = 2 => Cur' = NoImage /\ Waiting' = 0
        /\ npn # 2 =>
             /\ Waiting' = npn - 3
             /\ \A l \in Nat : l = npn - 2 => Cur' = WithReturn(SavedImage(l), 1)
    BY <1>11, ExitImages
  <2>2. Running /\ Waiting \in Nat /\ npn - 2 <= Waiting
    BY <1>11, <2>1, RunningFacts DEF Exit
  <2>3. CASE npn = 2
    <3>1. ~Running'
      BY <1>1, <2>1, <2>3 DEF IInv, TypeOK, Running
    <3> QED
      BY <2>1, <2>3, <3>1 DEF Clean
  <2>4. CASE npn # 2
    <3>1. npn - 2 \in Nat /\ npn - 2 \in 1 .. Waiting /\ Waiting' <= Waiting
      BY <2>1, <2>2, <2>4
    <3>2. CleanImage(WithReturn(SavedImage(npn - 2), 1))
      BY <1>2, <3>1, SavedShape, CleanAnswers
    <3>3. Cur' = WithReturn(SavedImage(npn - 2), 1)
      BY <2>1, <2>4, <3>1
    <3> QED
      BY <1>3, <2>1, <3>1, <3>2, <3>3
  <2> QED
    BY <2>3, <2>4
<1>12. ASSUME NEW i \in WaitSlots, NEW ret \in {0, 1}, Wait(i, ret) PROVE Clean'
  <2> DEFINE w == StatusWord[proc[Current].status]
  <2>1. UNCHANGED <<npn, proc, save, brk>> /\ Running /\ cpu'.prog = cpu.prog /\ Running'
    BY <1>12 DEF Wait, Running, IInv, TypeOK, Cpu
  <2>2. \A j \in 0 .. brk - 1 : mem[j] \in Own(cpu.prog) /\ j \in DOMAIN mem
    BY <2>1, CleanHere, ConstFacts DEF Clean, IInv, TypeOK
  <2>3. w \in Own(cpu.prog)
    BY <2>1, RunningFacts DEF Own, Descriptor
  <2>4. mem' = [mem EXCEPT ![i] = w]
    BY <1>12 DEF Wait
  <2> HIDE DEF w
  <2>5. \A j \in 0 .. brk - 1 : mem'[j] \in Own(cpu.prog)
    BY <2>2, <2>3, <2>4
  <2>6. CleanImage(Cur)'
    BY <2>1, <2>5 DEF Cur, ImageOf, CleanImage
  <2> QED
    BY <1>1, <1>3, <2>1, <2>6, LocalImages
<1>13. ASSUME NEW n \in Brks, Brk(n) PROVE Clean'
  <2>1. UNCHANGED <<npn, proc, save>> /\ Running /\ cpu'.prog = cpu.prog /\ Running'
    BY <1>13 DEF Brk, Running, IInv, TypeOK, Cpu
  <2>2. /\ brk \in 0 .. MemCap /\ brk' \in 0 .. MemCap /\ MemCap \in Nat
        /\ \A j \in 0 .. brk - 1 : mem[j] \in Own(cpu.prog)
    BY <1>1, <2>1, CleanHere, ConstFacts DEF Clean, IInv, TypeOK
  <2>3. \A j \in 0 .. brk' - 1 : mem'[j] \in Own(cpu.prog)
    <3>1. CASE BreakAllowed(n)
      <4>1. brk' = n /\ mem' = [j \in 0 .. MemCap - 1 |-> IF j \in brk .. n - 1 THEN Zero ELSE mem[j]]
        BY <1>13, <3>1 DEF Brk
      <4>2. ASSUME NEW j \in 0 .. brk' - 1 PROVE mem'[j] \in Own(cpu.prog)
        <5>1. j \in 0 .. MemCap - 1 /\ (j \notin brk .. n - 1 => j \in 0 .. brk - 1)
          BY <2>2, <4>1
        <5> QED
          BY <2>2, <4>1, <5>1 DEF Own
      <4> QED
        BY <4>2
    <3>2. CASE ~BreakAllowed(n)
      BY <1>13, <2>2, <3>2 DEF Brk
    <3> QED
      BY <3>1, <3>2
  <2>4. CleanImage(Cur)'
    BY <2>1, <2>3 DEF Cur, ImageOf, CleanImage
  <2> QED
    BY <1>1, <1>3, <2>1, <2>4, LocalImages
<1>14. ASSUME NEW dir \in Dirs, NEW F \in SUBSET Fds, Chdir(dir) \/ SetFds(F) PROVE Clean'
  <2>1. Cur' = WithReturn(Cur, 0) /\ Waiting' = Waiting /\ SavedKept
    BY <1>14, AttributesImages
  <2>2. Running
    BY <1>14 DEF Chdir, SetFds
  <2> QED
    BY <1>1, <1>3, <1>4, <2>1, <2>2
<1>15. (\E dir \in Dirs : Chdir(dir)) \/ (\E F \in SUBSET Fds : SetFds(F)) => Clean'
  <2>1. Root \in Dirs /\ {} \in SUBSET Fds
    BY ParamsAssumption
  <2> QED
    BY <1>14, <2>1
<1> QED
  BY <1>5, <1>6, <1>7, <1>8, <1>9, <1>10, <1>11, <1>12, <1>13, <1>15 DEF Next, Syscall

LEMMA NextShellLevel == IInv /\ ShellLevel /\ [Next]_vars => ShellLevel'
<1> SUFFICES ASSUME IInv, ShellLevel, [Next]_vars PROVE proc'[0].cwd = Root
  BY DEF ShellLevel
<1>1. proc[0].cwd = Root
  BY DEF ShellLevel
<1>2. ASSUME NEW p \in Progs, ShellRun(p) PROVE proc'[0].cwd = Root
  <2>1. npn = 1 /\ 0 # 1 /\ 0 \in DOMAIN proc
    BY <1>2, ConstFacts DEF ShellRun, IInv, TypeOK
  <2> QED
    BY <1>1, <1>2, <2>1 DEF ShellRun
<1>3. ASSUME NEW k \in 1 .. MaxProcs - 1, NEW e, proc' = [proc EXCEPT ![k] = e] PROVE proc'[0].cwd = Root
  BY <1>1, <1>3, ConstFacts DEF IInv, TypeOK
<1>4. Running => Current \in 1 .. MaxProcs - 1
  BY RunningFacts
<1>5. CASE Clone
  BY <1>3, <1>4, <1>5 DEF Clone
<1>6. CASE ExecveFail
  BY <1>3, <1>4, <1>6 DEF ExecveFail
<1>7. ASSUME NEW p \in Progs, Execve(p) PROVE proc'[0].cwd = Root
  <2>1. Running /\ proc' = ExecProc /\ ExecLevel \in Nat /\ ExecLevel - 1 # 0 /\ Current # 0
    BY <1>7, RunningFacts, ConstFacts DEF Execve, ExecLevel
  <2>2. 0 \in DOMAIN proc
    BY ConstFacts DEF IInv, TypeOK
  <2> QED
    BY <1>1, <2>1, <2>2 DEF ExecProc
<1>8. ASSUME NEW c \in Codes \cup {FaultCode}, Exit(c) PROVE proc'[0].cwd = Root
  BY <1>1, <1>8, ExitImages
<1>9. ASSUME NEW dir \in Dirs, Chdir(dir) PROVE proc'[0].cwd = Root
  BY <1>3, <1>4, <1>9 DEF Chdir
<1>10. ASSUME NEW F \in SUBSET Fds, SetFds(F) PROVE proc'[0].cwd = Root
  BY <1>3, <1>4, <1>10 DEF SetFds
<1>11. UNCHANGED proc => proc'[0].cwd = Root
  BY <1>1
<1>12. /\ UserStep \/ UNCHANGED vars => UNCHANGED proc
       /\ \A i \in WaitSlots, ret \in {0, 1} : Wait(i, ret) => UNCHANGED proc
       /\ \A n \in Brks : Brk(n) => UNCHANGED proc
  BY DEF UserStep, Store, Push, Pop, vars, Wait, Brk
<1> QED
  BY <1>2, <1>5, <1>6, <1>7, <1>8, <1>9, <1>10, <1>11, <1>12 DEF Next, Syscall

LEMMA InitClean == Init => ShellLevel /\ Clean
<1> SUFFICES ASSUME Init PROVE ShellLevel /\ Clean
  OBVIOUS
<1>1. ShellLevel
  BY ConstFacts DEF Init, ShellLevel, ClearedDescriptor
<1>2. Waiting = 0 /\ ~Running
  BY DEF Init, Waiting, Running
<1> QED
  BY <1>1, <1>2 DEF Clean

\* As long as a program and its break lie within what loading clears, a program
\* finds nothing in its memory but what it wrote itself, what it collected and
\* cleared memory: whatever ran before it, forked it or was forked by it, and
\* wherever the break has been.
THEOREM MemoryIsItsOwn == ASSUME LoadClears PROVE Spec => []NoLeftovers
<1>1. Init => IInv /\ ShellLevel /\ Clean
  BY InitIInv, InitClean
<1>2. IInv /\ ShellLevel /\ Clean /\ [Next]_vars => (IInv /\ ShellLevel /\ Clean)'
  BY NextIInv, NextShellLevel, NextClean
<1>3. Clean => NoLeftovers
  BY CleanHere DEF Clean, NoLeftovers, Own
<1> QED
  BY <1>1, <1>2, <1>3, PTL DEF Spec

-----------------------------------------------------------------------------
(* Stacks *)

LEMMA AsSequence ==
    ASSUME NEW n \in Nat, NEW f, f = [k \in 1 .. n |-> f[k]]
    PROVE  /\ f \in Seq({f[k] : k \in 1 .. n})
           /\ Len(f) = n
           /\ n = 0 <=> f = <<>>
<1> DEFINE S == {f[k] : k \in 1 .. n}
<1>1. f \in [1 .. n -> S]
  OBVIOUS
<1>2. f \in Seq(S) /\ Len(f) = n
  BY <1>1
<1> HIDE DEF S
<1>3. n = 0 <=> f = <<>>
  BY <1>2, EmptySeq, SeqEqual
<1> QED
  BY <1>2, <1>3 DEF S

LEMMA OneMore ==
    ASSUME NEW n \in Nat, NEW f, f = [k \in 1 .. n |-> f[k]],
           NEW g, g = [k \in 1 .. n + 1 |-> g[k]], \A k \in 1 .. n : g[k] = f[k]
    PROVE  g = Append(f, g[n + 1])
<1> DEFINE S == {g[k] : k \in 1 .. n + 1}
<1>1. g \in Seq(S) /\ Len(g) = n + 1 /\ g[n + 1] \in S
  BY AsSequence
<1>2. f \in Seq(S) /\ Len(f) = n
  <2>1. f \in [1 .. n -> S]
    OBVIOUS
  <2> QED
    BY <2>1
<1> HIDE DEF S
<1>3. /\ Append(f, g[n + 1]) \in Seq(S) /\ Len(Append(f, g[n + 1])) = n + 1
      /\ \A k \in 1 .. n : Append(f, g[n + 1])[k] = f[k]
      /\ Append(f, g[n + 1])[n + 1] = g[n + 1]
  BY <1>1, <1>2, AppendProperties
<1>4. \A k \in 1 .. Len(g) : g[k] = Append(f, g[n + 1])[k]
  <2>1. \A k \in 1 .. n + 1 : k = n + 1 \/ k \in 1 .. n
    OBVIOUS
  <2> QED
    BY <1>1, <1>3, <2>1
<1> QED
  BY <1>1, <1>3, <1>4, SeqEqual

LEMMA Front ==
    ASSUME NEW S, NEW f, NEW n \in Nat, \A k \in 1 .. n : f[k] \in S
    PROVE  /\ SubSeq(f, 1, n) \in Seq(S) /\ Len(SubSeq(f, 1, n)) = n
           /\ \A k \in 1 .. n : SubSeq(f, 1, n)[k] = f[k]
<1>1. 1 \in Int /\ n \in Int
  OBVIOUS
<1>2. /\ SubSeq(f, 1, n) \in Seq(S)
      /\ Len(SubSeq(f, 1, n)) = IF 1 <= n THEN n - 1 + 1 ELSE 0
      /\ \A k \in 1 .. n - 1 + 1 : SubSeq(f, 1, n)[k] = f[1 + k - 1]
  BY <1>1, SubSeqProperties
<1>3. \A k \in 1 .. n : k \in 1 .. n - 1 + 1 /\ 1 + k - 1 = k
  OBVIOUS
<1> QED
  BY <1>2, <1>3

LEMMA OneLess ==
    ASSUME NEW n \in Nat, NEW f, Len(f) = n + 1, NEW g, g = [k \in 1 .. n |-> f[k]]
    PROVE  g = SubSeq(f, 1, Len(f) - 1)
<1> DEFINE S == {f[k] : k \in 1 .. n}
<1>1. \A k \in 1 .. n : f[k] \in S
  OBVIOUS
<1>2. g \in Seq(S) /\ Len(g) = n
  <2>1. \A k \in 1 .. n : g[k] \in S
    BY <1>1
  <2>2. g = [k \in 1 .. n |-> g[k]]
    OBVIOUS
  <2> HIDE DEF S
  <2>3. g \in [1 .. n -> S]
    BY <2>1, <2>2
  <2> QED
    BY <2>3
<1> HIDE DEF S
<1>3. /\ SubSeq(f, 1, n) \in Seq(S) /\ Len(SubSeq(f, 1, n)) = n
      /\ \A k \in 1 .. n : SubSeq(f, 1, n)[k] = f[k]
  BY <1>1, Front
<1>4. g = SubSeq(f, 1, n)
  BY <1>2, <1>3, SeqEqual
<1>5. Len(f) - 1 = n
  OBVIOUS
<1> QED
  BY <1>4, <1>5

\* What waits, and what every level has of its own, as sequences.
LEMMA Stacks ==
    ASSUME IInv
    PROVE  /\ Suspended = [k \in 1 .. Waiting |-> Suspended[k]]
           /\ Level = [k \in 1 .. npn - 1 |-> Level[k]]
           /\ Len(Suspended) = Waiting /\ Len(Level) = npn - 1
           /\ Waiting = 0 <=> Suspended = <<>>
           /\ npn = 1 <=> Level = <<>>
           /\ \A k \in 1 .. Waiting : Suspended[k] = SavedImage(k)
           /\ \A k \in 1 .. npn - 1 : Level[k] = OwnPart(proc[k])
<1>1. Waiting \in Nat /\ npn - 1 \in Nat /\ (npn = 1 <=> npn - 1 = 0)
  BY WaitingIsNat
<1>2. /\ Suspended = [k \in 1 .. Waiting |-> Suspended[k]]
      /\ \A k \in 1 .. Waiting : Suspended[k] = SavedImage(k)
  BY DEF Suspended
<1>3. /\ Level = [k \in 1 .. npn - 1 |-> Level[k]]
      /\ \A k \in 1 .. npn - 1 : Level[k] = OwnPart(proc[k])
  BY DEF Level
<1> QED
  BY <1>1, <1>2, <1>3, AsSequence

\* The same of the next state.
LEMMA StacksNext ==
    ASSUME IInv'
    PROVE  /\ Waiting' \in Nat
           /\ Suspended' = [k \in 1 .. Waiting' |-> Suspended'[k]]
           /\ Level' = [k \in 1 .. npn' - 1 |-> Level'[k]]
           /\ \A k \in 1 .. Waiting' : Suspended'[k] = SavedImage(k)'
           /\ \A k \in 1 .. npn' - 1 : Level'[k] = OwnPart(proc'[k])
           /\ Waiting' = 0 <=> Suspended' = <<>>
           /\ npn' = 1 <=> Level' = <<>>
<1>1. Waiting' \in Nat /\ npn' \in 1 .. MaxProcs
  BY WaitingIsNatNext DEF IInv, TypeOK
<1>2. /\ Suspended' = [k \in 1 .. Waiting' |-> Suspended'[k]]
      /\ \A k \in 1 .. Waiting' : Suspended'[k] = SavedImage(k)'
  BY DEF Suspended
<1>3. /\ Level' = [k \in 1 .. npn' - 1 |-> Level'[k]]
      /\ \A k \in 1 .. npn' - 1 : Level'[k] = OwnPart(proc'[k])
  BY DEF Level
<1>4. npn' - 1 \in Nat /\ (npn' = 1 <=> npn' - 1 = 0)
  <2>1. \A m \in Nat : \A n \in 1 .. m : n - 1 \in Nat /\ (n = 1 <=> n - 1 = 0)
    OBVIOUS
  <2> QED
    BY <1>1, <2>1, ConstFacts
<1> QED
  BY <1>1, <1>2, <1>3, <1>4, AsSequence

\* Saved images that are kept stay where they are on the stack.
LEMMA SuspendedKept ==
    ASSUME IInv, IInv', SavedKept, Waiting' = Waiting
    PROVE  Suspended' = Suspended
<1>1. Waiting \in Nat
  BY WaitingIsNat
<1>2. \A k \in 1 .. Waiting : Suspended'[k] = Suspended[k]
  BY <1>1, Stacks, StacksNext DEF SavedKept
<1> QED
  BY <1>2, Stacks, StacksNext

LEMMA ImageThere == IInv => (Running <=> Cur # NoImage)
BY ImageFields DEF Cur

\* Both levels have the same notion of a child before its exec.
LEMMA SameChild ==
    ASSUME IInv, Running
    PROVE  /\ Processes!Running /\ (Processes!PreExec <=> Child)
           /\ Len(Level) = npn - 1 /\ npn \in 2 .. MaxProcs
           /\ Processes!Top(Level) = OwnPart(proc[npn - 1])
<1>1. npn \in 2 .. MaxProcs /\ Waiting = IF Child THEN npn - 1 ELSE npn - 2
  BY RunningFacts
<1>2. Len(Suspended) = Waiting /\ Len(Level) = npn - 1 /\ Level[npn - 1] = OwnPart(proc[npn - 1])
  BY <1>1, Stacks
<1> QED
  BY <1>1, <1>2, ImageThere DEF Processes!Running, Processes!PreExec, Processes!Top

LEMMA OwnParts ==
    ASSUME NEW d, NEW e, e.status = d.status
    PROVE  /\ [OwnPart(e) EXCEPT !.status = OwnPart(d).status] = OwnPart(e)
           /\ e.cwd = d.cwd /\ e.fds = {} => OwnPart(e) = [OwnPart(d) EXCEPT !.fds = {}]
<1>1. [OwnPart(e) EXCEPT !.status = OwnPart(d).status] = OwnPart(e)
  BY DEF OwnPart
<1>2. ASSUME e.cwd = d.cwd, e.fds = {} PROVE OwnPart(e) = [OwnPart(d) EXCEPT !.fds = {}]
  BY <1>2 DEF OwnPart
<1> QED
  BY <1>1, <1>2

-----------------------------------------------------------------------------
(* Every step is a step of the process stack, or none *)

LEMMA InitRefines == Init => Processes!Init
<1> SUFFICES ASSUME Init PROVE Cur = NoImage /\ Suspended = <<>> /\ Level = <<>>
  BY DEF Processes!Init
<1>1. IInv
  BY InitIInv
<1>2. Waiting = 0 /\ ~Running /\ npn = 1
  BY DEF Init, Waiting, Running
<1> QED
  BY <1>1, <1>2, Stacks DEF Cur

LEMMA RunRefines ==
    ASSUME IInv, IInv', ShellLevel, NEW p \in Progs, ShellRun(p), LoadClears
    PROVE  Processes!Run(p)
<1>1. /\ Cur = NoImage /\ Cur' = ShellImage(p) /\ Waiting' = 0 /\ npn' = 2
      /\ proc'[1].cwd = Root /\ proc'[1].fds = {} /\ proc'[1].status \in StatusCodes
  BY ShellRunImages
<1>2. Suspended' = <<>>
  BY <1>1, StacksNext
<1> DEFINE lv == OwnPart(proc'[1])
<1>3. lv \in Processes!NewLevel(Root)
  BY <1>1 DEF OwnPart, Processes!NewLevel
<1>4. Level' = [k \in 1 .. 1 |-> lv]
  <2>1. npn' - 1 = 1
    BY <1>1
  <2> QED
    BY <2>1 DEF Level
<1> HIDE DEF lv
<1>5. Level' = <<lv>>
  BY <1>4
<1> QED
  BY <1>1, <1>2, <1>3, <1>5 DEF Processes!Run, Processes!Running

LEMMA ComputeRefines == ASSUME IInv, UserStep PROVE Processes!Compute
<1>1. Cur' \in ComputedOf(Cur) /\ UNCHANGED <<npn, proc, save>>
  BY StoreImages, StackImages DEF UserStep
<1>2. Running
  BY DEF UserStep, Store, Push, Pop
<1> QED
  BY <1>1, <1>2, LocalImages, ImageThere DEF Processes!Compute, Processes!Running

LEMMA BrkRefines == ASSUME IInv, NEW b \in Brks, Brk(b) PROVE Processes!Brk(b)
<1>1. Cur' = BreakAt(Cur, b) /\ UNCHANGED <<npn, proc, save>>
  BY BrkImages
<1>2. Running
  BY DEF Brk
<1> QED
  BY <1>1, <1>2, LocalImages, ImageThere DEF Processes!Brk, Processes!Running

LEMMA AttributesRefines ==
    ASSUME IInv, IInv', NEW dir \in Dirs, NEW F \in SUBSET Fds, Chdir(dir) \/ SetFds(F)
    PROVE  Processes!Attributes
<1>1. /\ Cur' = WithReturn(Cur, 0)
      /\ Waiting' = Waiting /\ SavedKept /\ npn' = npn /\ npn \in 2 .. MaxProcs
      /\ \A l \in 0 .. npn - 1 : l # npn - 1 => proc'[l] = proc[l]
      /\ proc'[npn - 1].status = proc[npn - 1].status
  BY AttributesImages
<1>2. Suspended' = Suspended
  BY <1>1, SuspendedKept
<1>3. Running
  BY DEF Chdir, SetFds
<1>4. /\ Level = [k \in 1 .. npn - 1 |-> Level[k]] /\ Len(Level) = npn - 1
      /\ Level' = [k \in 1 .. npn - 1 |-> Level'[k]]
      /\ \A k \in 1 .. npn - 1 : Level[k] = OwnPart(proc[k]) /\ Level'[k] = OwnPart(proc'[k])
      /\ Level # <<>>
  BY <1>1, Stacks, StacksNext
<1>5. Len(Level') = npn - 1 /\ npn - 1 \in 1 .. npn - 1
  BY <1>1, <1>4, AsSequence
<1> DEFINE top == Level'[npn - 1]
<1>6. Processes!Top(Level)' = top
  BY <1>5 DEF Processes!Top
<1>7. [top EXCEPT !.status = Level[npn - 1].status] = top
  <2>1. Level[npn - 1] = OwnPart(proc[npn - 1]) /\ top = OwnPart(proc'[npn - 1])
    BY <1>4, <1>5
  <2> QED
    BY <1>1, <2>1, OwnParts
<1>8. \A k \in 1 .. npn - 1 : Level'[k] = IF k = npn - 1 THEN top ELSE Level[k]
  <2>1. \A k \in 1 .. npn - 1 : k \in 0 .. npn - 1
    OBVIOUS
  <2> QED
    BY <1>1, <1>4, <2>1
<1> HIDE DEF top
<1>9. Level' = [Level EXCEPT ![Len(Level)] = [top EXCEPT !.status = Level[npn - 1].status]]
  BY <1>4, <1>5, <1>7, <1>8
<1>10. Processes!Top(Level) = Level[npn - 1]
  BY <1>4 DEF Processes!Top
<1> QED
  BY <1>1, <1>2, <1>3, <1>4, <1>6, <1>9, <1>10, ImageThere DEF Processes!Attributes, Processes!Running

LEMMA ForkRefines == ASSUME IInv, IInv', Clone PROVE Processes!Fork
<1>1. /\ Cur' = WithReturn(Cur, 0)
      /\ Waiting = npn - 2 /\ Waiting' = npn - 1 /\ npn' = npn /\ npn \in 2 .. MaxProcs
      /\ SavedKept
      /\ \A l \in Nat : l = npn - 1 => SavedImage(l)' = Cur
      /\ \A l \in 0 .. npn - 1 : OwnPart(proc'[l]) = OwnPart(proc[l])
  BY ForkImages
<1>2. Running /\ ~Child
  BY DEF Clone
<1>3. Waiting \in Nat /\ Waiting' = Waiting + 1 /\ npn - 1 \in Nat /\ npn - 1 = Waiting + 1
  BY <1>1
<1>4. Suspended' = Append(Suspended, Cur)
  <2>1. \A k \in 1 .. Waiting : Suspended'[k] = Suspended[k]
    BY <1>3, Stacks, StacksNext, <1>1 DEF SavedKept
  <2>2. Suspended'[Waiting + 1] = Cur
    BY <1>1, <1>3, StacksNext
  <2>3. Suspended' = [k \in 1 .. Waiting + 1 |-> Suspended'[k]] /\ Suspended = [k \in 1 .. Waiting |-> Suspended[k]]
    BY <1>3, Stacks, StacksNext
  <2> QED
    BY <1>3, <2>1, <2>2, <2>3, OneMore
<1>5. Level' = Level
  <2>1. \A k \in 1 .. npn - 1 : k \in 0 .. npn - 1
    BY <1>1
  <2> QED
    BY <1>1, <2>1 DEF Level
<1> QED
  BY <1>1, <1>2, <1>4, <1>5, SameChild DEF Processes!Fork

LEMMA ExecRefines ==
    ASSUME IInv, IInv', NEW p \in Progs, Execve(p), LoadClears
    PROVE  Processes!Exec(p)
<1>1. /\ Cur' = ExecImage(p)
      /\ Waiting' = Waiting /\ SavedKept
      /\ npn \in 2 .. MaxProcs /\ npn' = (IF Child THEN npn + 1 ELSE npn)
      /\ \A l \in 0 .. npn - 1 : l < npn' - 1 => OwnPart(proc'[l]) = OwnPart(proc[l])
      /\ proc'[npn' - 1].cwd = proc[npn - 1].cwd /\ proc'[npn' - 1].fds = {}
      /\ proc'[npn' - 1].status \in StatusCodes
      /\ ~Child => proc'[npn' - 1].status = proc[npn - 1].status
  BY ExecImages
<1>2. Running
  BY DEF Execve
<1>3. Suspended' = Suspended
  BY <1>1, SuspendedKept
<1>4. /\ Level = [k \in 1 .. npn - 1 |-> Level[k]] /\ Len(Level) = npn - 1
      /\ Level' = [k \in 1 .. npn' - 1 |-> Level'[k]]
      /\ \A k \in 1 .. npn - 1 : Level[k] = OwnPart(proc[k])
      /\ \A k \in 1 .. npn' - 1 : Level'[k] = OwnPart(proc'[k])
  BY Stacks, StacksNext
<1>5. CASE Child
  <2>1. npn' - 1 = npn /\ npn' = npn + 1 /\ npn = (npn - 1) + 1 /\ npn - 1 \in Nat
    BY <1>1, <1>5
  <2>2. Level'[npn] \in Processes!NewLevel(OwnPart(proc[npn - 1]).cwd)
    <3>1. Level'[npn] = OwnPart(proc'[npn]) /\ proc'[npn].status \in StatusCodes
          /\ proc'[npn].cwd = proc[npn - 1].cwd /\ proc'[npn].fds = {}
      BY <1>1, <1>4, <2>1
    <3> QED
      BY <3>1 DEF OwnPart, Processes!NewLevel
  <2>3. \A k \in 1 .. npn - 1 : Level'[k] = Level[k]
    <3>1. \A k \in 1 .. npn - 1 : k \in 0 .. npn - 1 /\ k < npn' - 1 /\ k \in 1 .. npn' - 1
      BY <1>1, <2>1
    <3> QED
      BY <1>1, <1>4, <3>1
  <2>4. Level' = Append(Level, Level'[npn])
    <3>1. Level' = [k \in 1 .. (npn - 1) + 1 |-> Level'[k]]
      BY <1>4, <2>1
    <3> QED
      BY <1>4, <2>1, <2>3, <3>1, OneMore
  <2> QED
    BY <1>1, <1>2, <1>3, <1>5, <2>2, <2>4, SameChild DEF Processes!Exec
<1>6. CASE ~Child
  <2>1. npn' = npn /\ npn - 1 \in 1 .. npn - 1
    BY <1>1, <1>6
  <2>2. Level'[npn - 1] = [Level[npn - 1] EXCEPT !.fds = {}]
    <3>1. Level'[npn - 1] = OwnPart(proc'[npn - 1]) /\ Level[npn - 1] = OwnPart(proc[npn - 1])
      BY <1>4, <2>1
    <3>2. /\ proc'[npn - 1].cwd = proc[npn - 1].cwd /\ proc'[npn - 1].fds = {}
          /\ proc'[npn - 1].status = proc[npn - 1].status
      BY <1>1, <1>6, <2>1
    <3> QED
      BY <3>1, <3>2, OwnParts
  <2>3. \A k \in 1 .. npn - 1 : k # npn - 1 => Level'[k] = Level[k]
    <3>1. \A k \in 1 .. npn - 1 : k # npn - 1 => k \in 0 .. npn - 1 /\ k < npn' - 1
      BY <1>1, <2>1
    <3> QED
      BY <1>1, <1>4, <2>1, <3>1
  <2>4. Level' = [Level EXCEPT ![Len(Level)].fds = {}]
    BY <1>4, <2>1, <2>2, <2>3
  <2> QED
    BY <1>1, <1>2, <1>3, <1>6, <2>4, SameChild DEF Processes!Exec
<1> QED
  BY <1>5, <1>6

LEMMA ExecFailRefines ==
    ASSUME IInv, IInv', ExecFirst, ExecveFail
    PROVE  Processes!ExecFail
<1>1. Running /\ ~Child
  BY DEF ExecveFail
<1>2. /\ Cur' = WithArgsOnTop(Cur) /\ Waiting' = npn - 2 /\ npn' = npn /\ SavedKept
      /\ proc' = proc
  BY <1>1, ExecFailImages
<1>3. Waiting' = Waiting
  BY <1>1, <1>2, RunningFacts
<1>4. Suspended' = Suspended /\ Level' = Level
  BY <1>2, <1>3, SuspendedKept DEF Level
<1> QED
  BY <1>1, <1>2, <1>4, SameChild DEF Processes!ExecFail

LEMMA ExitRefines ==
    ASSUME IInv, IInv', ExecFirst, NEW code \in Codes \cup {FaultCode}, Exit(code)
    PROVE  Processes!Exit(code)
<1>1. /\ npn \in 2 .. MaxProcs /\ npn' = npn - 1 /\ SavedKept
      /\ npn = 2 => Cur' = NoImage /\ Waiting' = 0
      /\ npn # 2 =>
           /\ Waiting' = npn - 3
           /\ \A l \in Nat : l = npn - 2 => Cur' = WithReturn(SavedImage(l), 1)
           /\ \A l \in 1 .. npn - 2 :
                OwnPart(proc'[l]) = [OwnPart(proc[l]) EXCEPT
                                       !.status = IF l = npn - 2 THEN code ELSE @]
  BY ExitImages
<1>2. Running /\ ~Child /\ Waiting = npn - 2 /\ Waiting \in Nat
  BY RunningFacts DEF Exit
<1>3. CASE npn = 2
  <2>1. Suspended = <<>> /\ Suspended' = <<>> /\ Level' = <<>>
    BY <1>1, <1>2, <1>3, Stacks, StacksNext
  <2> QED
    BY <1>1, <1>2, <1>3, <2>1, SameChild DEF Processes!Exit
<1>4. CASE npn # 2
  <2>1. /\ Waiting \in Nat \ {0} /\ Waiting' = Waiting - 1
        /\ npn - 2 = Waiting /\ npn - 1 \in Nat \ {0} /\ npn - 1 = Waiting + 1
    BY <1>1, <1>2, <1>4
  <2>2. Len(Suspended) = Waiting /\ Suspended # <<>> /\ Suspended[Waiting] = SavedImage(Waiting)
    BY <2>1, Stacks
  <2>3. Cur' = WithReturn(Processes!Top(Suspended), 1)
    BY <1>1, <1>4, <2>1, <2>2 DEF Processes!Top
  <2>4. Suspended' = Processes!Popped(Suspended)
    <3>1. \A k \in 1 .. Waiting - 1 : k \in 1 .. Waiting /\ k \in 1 .. Waiting' /\ k <= Waiting'
      BY <2>1
    <3>2. \A k \in 1 .. Waiting - 1 : Suspended'[k] = Suspended[k]
      BY <1>1, <3>1, Stacks, StacksNext DEF SavedKept
    <3>3. Suspended' = [k \in 1 .. Waiting - 1 |-> Suspended'[k]] /\ Suspended = [k \in 1 .. Waiting |-> Suspended[k]]
      BY <2>1, Stacks, StacksNext
    <3>4. Suspended' = [k \in 1 .. Waiting - 1 |-> Suspended[k]]
      BY <3>2, <3>3
    <3>5. Waiting - 1 \in Nat /\ Len(Suspended) = (Waiting - 1) + 1
      BY <2>1, <2>2
    <3>6. Suspended' = SubSeq(Suspended, 1, Len(Suspended) - 1)
      BY <3>4, <3>5, OneLess
    <3> QED
      BY <3>6 DEF Processes!Popped
  <2>5. Level' = [Processes!Popped(Level) EXCEPT ![Len(Level) - 1].status = code]
    <3> DEFINE low == [k \in 1 .. Waiting |-> Level[k]]
    <3>1. /\ Level = [k \in 1 .. Waiting + 1 |-> Level[k]] /\ Len(Level) = Waiting + 1
          /\ \A k \in 1 .. Waiting + 1 : Level[k] = OwnPart(proc[k])
      BY <2>1, Stacks
    <3>2. low = Processes!Popped(Level)
      <4>1. Waiting \in Nat /\ Len(Level) = Waiting + 1
        BY <2>1, <3>1
      <4>2. low = SubSeq(Level, 1, Len(Level) - 1)
        BY <4>1, OneLess
      <4> QED
        BY <4>2 DEF Processes!Popped
    <3>3. Level' = [k \in 1 .. Waiting |-> Level'[k]] /\ \A k \in 1 .. Waiting : Level'[k] = OwnPart(proc'[k])
      <4>1. npn' - 1 = Waiting
        BY <1>1, <1>2
      <4> QED
        BY <4>1, StacksNext
    <3>4. \A k \in 1 .. Waiting : low[k] = OwnPart(proc[k])
      BY <2>1, <3>1
    <3>5. DOMAIN low = 1 .. Waiting /\ low = [k \in 1 .. Waiting |-> low[k]]
      OBVIOUS
    <3> HIDE DEF low
    <3>6. \A k \in 1 .. Waiting : Level'[k] = IF k = Waiting THEN [low[k] EXCEPT !.status = code] ELSE low[k]
      <4> SUFFICES ASSUME NEW k \in 1 .. Waiting
                   PROVE  OwnPart(proc'[k]) = IF k = Waiting THEN [OwnPart(proc[k]) EXCEPT !.status = code]
                                              ELSE OwnPart(proc[k])
        BY <3>3, <3>4
      <4>1. OwnPart(proc'[k]) = [OwnPart(proc[k]) EXCEPT !.status = IF k = Waiting THEN code ELSE @]
        BY <1>1, <1>4, <2>1
      <4> QED
        BY <4>1 DEF OwnPart
    <3>7. Len(Level) - 1 = Waiting
      BY <2>1, <3>1
    <3> QED
      BY <2>1, <3>2, <3>3, <3>5, <3>6, <3>7
  <2> QED
    BY <1>2, <2>2, <2>3, <2>4, <2>5, SameChild DEF Processes!Exit
<1> QED
  BY <1>3, <1>4

LEMMA WaitRefines ==
    ASSUME IInv, IInv', NEW i \in WaitSlots, NEW ret \in {0, 1}, Wait(i, ret)
    PROVE  Processes!Wait
<1>1. /\ Cur' = [WithReturn(Cur, ret) EXCEPT !.mem[i] = StatusWord[proc[Current].status]]
      /\ i \in DOMAIN Cur.mem
      /\ UNCHANGED <<npn, proc, save>>
  BY WaitImages
<1>2. Running
  BY DEF Wait
<1>3. Processes!Top(Level).status = proc[Current].status
  BY <1>2, SameChild DEF OwnPart, Current
<1>4. Cur' \in WithStatus(Cur, proc[Current].status)
  <2> DEFINE With(j, r) == [WithReturn(Cur, r) EXCEPT !.mem[j] = StatusWord[proc[Current].status]]
  <2>1. WithStatus(Cur, proc[Current].status) =
          {With(j, r) : j \in WaitSlots \cap DOMAIN Cur.mem, r \in {0, 1}}
    BY DEF WithStatus
  <2>2. Cur' = With(i, ret) /\ i \in WaitSlots \cap DOMAIN Cur.mem
    BY <1>1
  <2> HIDE DEF With
  <2> QED
    BY <2>1, <2>2
<1> QED
  BY <1>1, <1>2, <1>3, <1>4, LocalImages, SameChild DEF Processes!Wait

LEMMA NothingRefines ==
    ASSUME UNCHANGED vars
    PROVE  UNCHANGED Processes!vars
<1>1. Cur' = Cur
  BY DEF vars, Cur, Running, ImageOf
<1>2. Suspended' = Suspended
  BY DEF vars, Suspended, Waiting, Child, Current, SavedImage
<1>3. Level' = Level
  BY DEF vars, Level, OwnPart
<1> QED
  BY <1>1, <1>2, <1>3 DEF Processes!vars

LEMMA NextRefines ==
    ASSUME IInv, IInv', ShellLevel, [Next]_vars, ExecFirst, LoadClears
    PROVE  [Processes!Next]_(Processes!vars)
<1>1. CASE \E p \in Progs : ShellRun(p)
  BY <1>1, RunRefines DEF Processes!Next
<1>2. CASE UserStep
  BY <1>2, ComputeRefines DEF Processes!Next
<1>3. CASE Clone
  BY <1>3, ForkRefines DEF Processes!Next
<1>4. CASE ExecveFail
  BY <1>4, ExecFailRefines DEF Processes!Next
<1>5. CASE \E p \in Progs : Execve(p)
  BY <1>5, ExecRefines DEF Processes!Next
<1>6. CASE \E c \in Codes \cup {FaultCode} : Exit(c)
  <2>1. PICK c \in Codes \cup {FaultCode} : Exit(c)
    BY <1>6
  <2>2. c \in StatusCodes
    BY DEF StatusCodes
  <2> QED
    BY <2>1, <2>2, ExitRefines DEF Processes!Next
<1>7. CASE \E i \in WaitSlots, ret \in {0, 1} : Wait(i, ret)
  BY <1>7, WaitRefines DEF Processes!Next
<1>8. CASE \E n \in Brks : Brk(n)
  BY <1>8, BrkRefines DEF Processes!Next
<1>9. CASE \E dir \in Dirs : Chdir(dir)
  BY <1>9, AttributesRefines DEF Processes!Next
<1>10. CASE \E F \in SUBSET Fds : SetFds(F)
  <2>1. Root \in Dirs
    BY ParamsAssumption
  <2> QED
    BY <1>10, <2>1, AttributesRefines DEF Processes!Next
<1>11. CASE UNCHANGED vars
  BY <1>11, NothingRefines
<1> QED
  BY <1>1, <1>2, <1>3, <1>4, <1>5, <1>6, <1>7, <1>8, <1>9, <1>10, <1>11 DEF Next, Syscall

\* Exit and wait are their own operations of the stack.
LEMMA StatusesRefine ==
    ASSUME IInv, IInv', ExecFirst
    PROVE  StatusHandedUp
BY ExitRefines, WaitRefines DEF StatusHandedUp

\* The save area and the descriptors implement the stack of suspended
\* processes: whatever the programs do and however deep they nest, a parent
\* gets its memory, its live stack and its registers back as they were when it
\* cloned, and what its waiting stores is the code its last child exited with.
\* Children call exec before they exit, and loading clears what a program is
\* given.
THEOREM ImplementsStack == ASSUME ExecFirst, LoadClears PROVE Spec => ImplementsProcStack
<1>1. Init => IInv /\ ShellLevel /\ Processes!Init
  BY InitIInv, InitClean, InitRefines
<1>2. IInv /\ ShellLevel /\ [Next]_vars => (IInv /\ ShellLevel)'
  BY NextIInv, NextShellLevel
<1>3. IInv /\ IInv' /\ ShellLevel /\ [Next]_vars => [Processes!Next]_(Processes!vars)
  BY NextRefines
<1>4. IInv /\ IInv' /\ [Next]_vars => [StatusHandedUp]_vars
  BY StatusesRefine
<1> QED
  BY <1>1, <1>2, <1>3, <1>4, PTL DEF Spec, ImplementsProcStack, Processes!Spec
=============================================================================

--------------------------- MODULE StateTableProofs --------------------------
(***************************************************************************)
(* Theorems about the state table, for any number of processes, keys and   *)
(* slots, and whatever processes die at whatever step, and under           *)
(* SingleWriter for one writing process and keys that collide.             *)
(***************************************************************************)
EXTENDS StateSolo, FiniteSetTheorems, TLAPS

LEMMA SlotArithmetic ==
  ASSUME NEW x \in Slots
  PROVE  Successor(x) \in Slots
BY StateTableAssumption DEF Slots, Successor

LEMMA NextTypes ==
  ASSUME TypeOK, [CrashNext]_vars
  PROVE  TypeOK'
<1> USE StateTableAssumption
<1> USE DEF TypeOK, Labels, Goto, Writing, Reading, SetCall, GetCall, Idle
<1>1. ASSUME NEW p \in Procs, BeginSet(p) \/ BeginGet(p) PROVE TypeOK'
  <2>1. PICK c \in SetCall \union GetCall : Begin(p, c)
    BY <1>1 DEF BeginSet, BeginGet
  <2>2. c.key \in Key /\ c # Idle /\ Len(written[c.key]) \in Nat
    BY <2>1
  <2>3. /\ pc' = [pc EXCEPT ![p] = "probe"] /\ call' = [call EXCEPT ![p] = c]
        /\ UNCHANGED <<key, value, version, locked, ver, result, written>>
    BY <2>1 DEF Begin, table
  <2>4. calls' \in [Procs -> Nat] /\ \A q \in Procs : calls'[q] <= MaxCalls[q]
    BY <2>1 DEF Begin
  <2>5. at' \in [Procs -> Slots] /\ since' \in [Procs -> Nat]
    BY <2>1, <2>2 DEF Begin
  <2>. QED
    BY <2>2, <2>3, <2>4, <2>5
<1>2. ASSUME NEW p \in Procs, ProbeHit(p) PROVE TypeOK'
  BY <1>2 DEF ProbeHit, table
<1>3. ASSUME NEW p \in Procs, ProbeNext(p) PROVE TypeOK'
  BY <1>3, SlotArithmetic DEF ProbeNext, table
<1>4. ASSUME NEW p \in Procs, ProbeFull(p) PROVE TypeOK'
  BY <1>4 DEF ProbeFull, Return, table
<1>5. ASSUME NEW p \in Procs,
             LockFree(p) \/ LockGiveUp(p) \/ LockZero(p) \/ LockTake(p)
      PROVE  TypeOK'
  <2>1. CASE LockFree(p)
    BY <2>1 DEF LockFree, table
  <2>2. CASE LockGiveUp(p)
    BY <2>2 DEF LockGiveUp, Return, table
  <2>3. CASE LockZero(p)
    BY <2>3 DEF LockZero
  <2>4. CASE LockTake(p)
    BY <2>4 DEF LockTake
  <2>. QED
    BY <1>5, <2>1, <2>2, <2>3, <2>4
<1>6. ASSUME NEW p \in Procs, ReadVersion(p) PROVE TypeOK'
  BY <1>6 DEF ReadVersion, NextVersion, table
<1>7. ASSUME NEW p \in Procs, ClearSlot(p) PROVE TypeOK'
  BY <1>7 DEF ClearSlot
<1>8. ASSUME NEW p \in Procs, FillSlot(p) PROVE TypeOK'
  <2>1. call[p].key \in Key /\ call[p].value \in Value
    BY <1>8 DEF FillSlot
  <2>2. written' \in [Key -> Seq(Value)]
    BY <1>8, <2>1 DEF FillSlot
  <2>. QED
    BY <1>8, <2>1, <2>2 DEF FillSlot
<1>9. ASSUME NEW p \in Procs, CheckKey(p) \/ ReadValue(p) PROVE TypeOK'
  <2>1. ASSUME NEW r \in Value \union {Blank, None}, Return(p, r) PROVE TypeOK'
    BY <2>1 DEF Return, table
  <2>2. CASE CheckKey(p) /\ key[at[p]] # NoKey
    <3>1. /\ pc[p] = "check" /\ pc' = [pc EXCEPT ![p] = "value"]
          /\ UNCHANGED <<table, call, at, ver, calls, result, written, since>>
      BY <2>2 DEF CheckKey
    <3>2. pc' \in [Procs -> Labels] /\ call[p] \in GetCall
      BY <3>1
    <3>3. \A q \in Procs :
            /\ pc'[q] = "probe" => call[q] # Idle
            /\ pc'[q] \in Writing => call[q] \in SetCall
            /\ pc'[q] \in Reading => call[q] \in GetCall
      BY <3>1, <3>2
    <3>. QED
      BY <3>1, <3>2, <3>3 DEF table
  <2>3. value[at[p]] \in Value \union {Blank, None}
    OBVIOUS
  <2>4. CASE ReadValue(p)
    BY <2>1, <2>3, <2>4 DEF ReadValue
  <2>5. CASE CheckKey(p) /\ key[at[p]] = NoKey
    BY <2>1, <2>5 DEF CheckKey
  <2>. HIDE DEF TypeOK, Goto
  <2>. QED
    BY <1>9, <2>2, <2>4, <2>5, Zenon
<1>10. ASSUME NEW p \in Procs, Die(p) PROVE TypeOK'
  BY <1>10 DEF Die, table
<1>11. CASE UNCHANGED vars
  BY <1>11 DEF vars
<1>. QED
  BY <1>1, <1>2, <1>3, <1>4, <1>5, <1>6, <1>7, <1>8, <1>9, <1>10, <1>11
  DEF CrashNext, Step, InCall

\* The fields of the table, of the calls and of the history keep their types.
THEOREM Typing == CrashSpec => []TypeOK
<1>1. Init => TypeOK
  BY StateTableAssumption DEF Init, TypeOK, Slots, Labels, Writing, Reading, Idle
<1>2. TypeOK /\ [CrashNext]_vars => TypeOK'
  BY NextTypes
<1>. QED
  BY <1>1, <1>2, PTL DEF CrashSpec
------------------------------------------------------------------------------
(* Reads are fresh when no two keys probe from the same slot.              *)

\* Every call works on the home slot of its key.
CallAtHome ==
  \A p \in Procs :
    pc[p] \notin {"idle", "dead"} => at[p] = Home[call[p].key]

\* A slot never holds a key other than the one it is home to.
KeyAtHome == \A x \in Slots : key[x] # NoKey => Home[key[x]] = x

\* A value in the table is the last one written under the key of its slot.
LatestValue ==
  \A x \in Slots : value[x] \in Value =>
    \E k \in Key :
      /\ Home[k] = x
      /\ written[k] # <<>> /\ value[x] = written[k][Len(written[k])]

SinceBound ==
  \A p \in Procs : call[p] # Idle => since[p] <= Len(written[call[p].key])

FreshInv == CallAtHome /\ KeyAtHome /\ LatestValue /\ SinceBound /\ FreshReads

Apart == \A j, k \in Key : Home[j] = Home[k] => j = k

Known == TypeOK /\ FreshInv

LEMMA FreshInit == Init => FreshInv
BY StateTableAssumption
   DEF Init, FreshInv, CallAtHome, KeyAtHome, LatestValue, SinceBound, FreshReads, Idle

\* Probing never leaves the home slot: whatever it finds there is empty or
\* the key itself.
LEMMA ProbeAtHome ==
  ASSUME Apart, Known, NEW p \in Procs, pc[p] = "probe"
  PROVE  Matches(p)
<1>1. call[p].key \in Key /\ at[p] = Home[call[p].key] /\ at[p] \in Slots
  BY DEF Known, TypeOK, FreshInv, CallAtHome, SetCall, GetCall
<1>2. key[at[p]] \in Key \union {NoKey}
  BY <1>1 DEF Known, TypeOK
<1>. QED
  BY <1>1, <1>2 DEF Known, FreshInv, KeyAtHome, Apart, Matches

\* The value a reader finds in its slot is the last one of the key it asks for.
LEMMA ValueIsLatest ==
  ASSUME Apart, Known, NEW p \in Procs, pc[p] \notin {"idle", "dead"},
         call[p].op = "get", value[at[p]] \in Value
  PROVE  \E i \in DOMAIN written[call[p].key] :
           i >= since[p] /\ value[at[p]] = written[call[p].key][i]
<1> DEFINE k == call[p].key
<1>1. k \in Key /\ call[p] # Idle /\ at[p] = Home[k] /\ at[p] \in Slots
  BY DEF Known, TypeOK, FreshInv, CallAtHome, SetCall, GetCall, Idle, Reading, Writing, Labels
<1>2. written[k] # <<>> /\ value[at[p]] = written[k][Len(written[k])]
  BY <1>1 DEF Known, FreshInv, LatestValue, Apart
<1>3. written[k] \in Seq(Value) /\ since[p] <= Len(written[k])
  BY <1>1 DEF Known, TypeOK, FreshInv, SinceBound
<1>4. Len(written[k]) \in DOMAIN written[k]
  BY <1>2, <1>3
<1>. QED
  BY <1>2, <1>3, <1>4

\* A step that leaves the table and the history alone keeps FreshInv, if the
\* call stays where it is and any value it returns is the slot's.
LEMMA QuietStep ==
  ASSUME Apart, Known, NEW p \in Procs,
         UNCHANGED <<key, value, call, at, written, since>>,
         pc[p] # "idle", pc[p] # "dead",
         \A q \in Procs \ {p} : pc'[q] = pc[q] /\ result'[q] = result[q],
         pc'[p] = "idle" /\ call[p].op = "get" /\ result'[p] \in Value
           => result'[p] = value[at[p]]
  PROVE  FreshInv'
<1>1. CallAtHome' /\ KeyAtHome' /\ LatestValue' /\ SinceBound'
  BY DEF Known, FreshInv, CallAtHome, KeyAtHome, LatestValue, SinceBound
<1>2. FreshReads'
  <2> SUFFICES ASSUME NEW q \in Procs,
                      pc'[q] = "idle", call[q].op = "get", result'[q] \in Value
               PROVE  \E i \in DOMAIN written[call[q].key] :
                        i >= since[q] /\ result'[q] = written[call[q].key][i]
    BY DEF FreshReads
  <2>1. CASE q = p
    BY <2>1, ValueIsLatest
  <2>2. CASE q # p
    BY <2>2 DEF Known, FreshInv, FreshReads
  <2>. QED
    BY <2>1, <2>2
<1>. QED
  BY <1>1, <1>2 DEF FreshInv

\* A call starts at the home of its key, with the writes done so far.
LEMMA BeginStep ==
  ASSUME Known, NEW p \in Procs, NEW c \in SetCall \union GetCall, Begin(p, c)
  PROVE  FreshInv'
<1> USE DEF Known, FreshInv, TypeOK
<1>1. /\ pc' = [pc EXCEPT ![p] = "probe"] /\ call' = [call EXCEPT ![p] = c]
      /\ at' = [at EXCEPT ![p] = Home[c.key]]
      /\ since' = [since EXCEPT ![p] = Len(written[c.key])]
      /\ UNCHANGED <<key, value, result, written>>
  BY DEF Begin, Goto, table
<1>2. CallAtHome' /\ KeyAtHome' /\ LatestValue'
  BY <1>1 DEF CallAtHome, KeyAtHome, LatestValue
<1>3. SinceBound'
  <2>1. Len(written[c.key]) \in Nat
    BY DEF SetCall, GetCall
  <2>. QED
    BY <1>1, <2>1 DEF SinceBound
<1>4. FreshReads'
  BY <1>1 DEF FreshReads
<1>. QED
  BY <1>2, <1>3, <1>4

LEMMA ClearStep ==
  ASSUME Known, NEW p \in Procs, ClearSlot(p)
  PROVE  FreshInv'
<1> USE StateTableAssumption
<1> USE DEF Known, FreshInv, TypeOK, ClearSlot, Goto
<1>1. CallAtHome' /\ KeyAtHome' /\ LatestValue'
  BY DEF CallAtHome, KeyAtHome, LatestValue
<1>2. SinceBound'
  BY DEF SinceBound
<1>3. FreshReads'
  BY DEF FreshReads
<1>. QED
  BY <1>1, <1>2, <1>3

\* The slot's new content and the history of its key grow together.
LEMMA FillStep ==
  ASSUME Apart, Known, NEW p \in Procs, FillSlot(p)
  PROVE  FreshInv'
<1> DEFINE k == call[p].key
           w == written[k]
           v == call[p].value
<1>1. /\ k \in Key /\ v \in Value /\ w \in Seq(Value) /\ call[p].op = "set"
      /\ at[p] = Home[k] /\ at[p] \in Slots
  BY DEF Known, TypeOK, FreshInv, CallAtHome, FillSlot, Writing, SetCall
<1>2. /\ key' = [key EXCEPT ![at[p]] = k]
      /\ value' = [value EXCEPT ![at[p]] = v]
      /\ written' = [written EXCEPT ![k] = Append(w, v)]
      /\ pc' = [pc EXCEPT ![p] = "idle"]
      /\ UNCHANGED <<call, at, result, since>>
  BY DEF FillSlot, Goto
<1>3. written'[k] = Append(w, v) /\ \A j \in Key \ {k} : written'[j] = written[j]
  BY <1>1, <1>2 DEF Known, TypeOK
<1>4. /\ Len(Append(w, v)) = Len(w) + 1 /\ Append(w, v)[Len(w) + 1] = v
      /\ Append(w, v) # <<>> /\ Len(w) \in Nat
      /\ \A i \in DOMAIN w : i \in DOMAIN Append(w, v) /\ Append(w, v)[i] = w[i]
  BY <1>1
<1> HIDE DEF k, w, v
<1>5. CallAtHome' /\ KeyAtHome'
  BY <1>1, <1>2 DEF Known, TypeOK, FreshInv, CallAtHome, KeyAtHome
<1>6. LatestValue'
  <2> SUFFICES ASSUME NEW x \in Slots, value'[x] \in Value
               PROVE  \E j \in Key :
                        /\ Home[j] = x /\ written'[j] # <<>>
                        /\ value'[x] = written'[j][Len(written'[j])]
    BY DEF LatestValue
  <2>1. CASE x = at[p]
    <3>1. value'[x] = v
      BY <2>1, <1>1, <1>2 DEF Known, TypeOK
    <3>. QED
      BY <2>1, <3>1, <1>1, <1>3, <1>4
  <2>2. CASE x # at[p]
    <3>1. value'[x] = value[x]
      BY <2>2, <1>1, <1>2 DEF Known, TypeOK
    <3>2. PICK j \in Key : /\ Home[j] = x /\ written[j] # <<>>
                           /\ value[x] = written[j][Len(written[j])]
      BY <3>1 DEF Known, FreshInv, LatestValue
    <3>3. j # k
      BY <3>2, <2>2, <1>1
    <3>. QED
      BY <3>1, <3>2, <3>3, <1>3
  <2>. QED
    BY <2>1, <2>2
<1>7. SinceBound'
  <2> SUFFICES ASSUME NEW q \in Procs, call[q] # Idle
               PROVE  since[q] <= Len(written'[call[q].key])
    BY <1>2 DEF SinceBound
  <2>1. call[q].key \in Key /\ since[q] \in Nat /\ since[q] <= Len(written[call[q].key])
    BY DEF Known, TypeOK, FreshInv, SinceBound, SetCall, GetCall
  <2>2. CASE call[q].key = k
    BY <2>1, <2>2, <1>3, <1>4 DEF w
  <2>3. CASE call[q].key # k
    BY <2>1, <2>3, <1>3
  <2>. QED
    BY <2>2, <2>3
<1>8. FreshReads'
  <2> SUFFICES ASSUME NEW q \in Procs,
                      pc'[q] = "idle", call[q].op = "get", result[q] \in Value
               PROVE  \E i \in DOMAIN written'[call[q].key] :
                        i >= since[q] /\ result[q] = written'[call[q].key][i]
    BY <1>2 DEF FreshReads
  <2>1. q # p /\ pc[q] = "idle"
    BY <1>1, <1>2 DEF Known, TypeOK
  <2>2. PICK i \in DOMAIN written[call[q].key] :
          i >= since[q] /\ result[q] = written[call[q].key][i]
    BY <2>1 DEF Known, FreshInv, FreshReads
  <2>3. call[q].key \in Key
    BY DEF Known, TypeOK, SetCall, GetCall, Idle
  <2>4. CASE call[q].key = k
    BY <2>2, <2>4, <1>3, <1>4 DEF w
  <2>5. CASE call[q].key # k
    BY <2>2, <2>3, <2>5, <1>3
  <2>. QED
    BY <2>4, <2>5
<1>. QED
  BY <1>5, <1>6, <1>7, <1>8 DEF FreshInv

LEMMA ApartFresh ==
  ASSUME Apart
  PROVE  CrashSpec => []FreshInv
<1>1. TypeOK /\ FreshInv /\ [CrashNext]_vars => FreshInv'
  <2> SUFFICES ASSUME TypeOK, FreshInv, [CrashNext]_vars PROVE FreshInv'
    OBVIOUS
  <2>1. Known
    BY DEF Known
  <2>2. ASSUME NEW p \in Procs, BeginSet(p) \/ BeginGet(p) PROVE FreshInv'
    <3>1. \E c \in SetCall \union GetCall : Begin(p, c)
      BY <2>2, StateTableAssumption DEF BeginSet, BeginGet, SetCall, GetCall
    <3>. QED
      BY <2>1, <3>1, BeginStep
  <2>3. ASSUME NEW p \in Procs, ProbeNext(p) \/ ProbeFull(p) PROVE FALSE
    BY <2>1, <2>3, ProbeAtHome DEF ProbeNext, ProbeFull
  <2>4. ASSUME NEW p \in Procs,
               \/ ProbeHit(p) \/ LockFree(p) \/ LockGiveUp(p) \/ LockZero(p) \/ LockTake(p)
               \/ ReadVersion(p) \/ CheckKey(p) \/ ReadValue(p)
        PROVE  FreshInv'
    <3> USE DEF TypeOK, Goto, Return, table, Writing, Reading, SetCall, GetCall
    <3>1. UNCHANGED <<key, value, call, at, written, since>>
      BY <2>4 DEF ProbeHit, LockFree, LockGiveUp, LockZero, LockTake, ReadVersion,
                  CheckKey, ReadValue
    <3>2. pc[p] # "idle" /\ pc[p] # "dead"
      BY <2>4 DEF ProbeHit, LockFree, LockGiveUp, LockZero, LockTake, ReadVersion,
                  CheckKey, ReadValue
    <3>3. \A q \in Procs \ {p} : pc'[q] = pc[q] /\ result'[q] = result[q]
      BY <2>4 DEF ProbeHit, LockFree, LockGiveUp, LockZero, LockTake, ReadVersion,
                  CheckKey, ReadValue
    <3>4. pc'[p] = "idle" /\ call[p].op = "get" /\ result'[p] \in Value
            => result'[p] = value[at[p]]
      BY <2>4, StateTableAssumption
      DEF ProbeHit, LockFree, LockGiveUp, LockZero, LockTake, ReadVersion, CheckKey, ReadValue
    <3>. HIDE DEF TypeOK, Goto, Return, table, Writing, Reading, SetCall, GetCall
    <3>. QED
      BY <2>1, <3>1, <3>2, <3>3, <3>4, QuietStep
  <2>5. ASSUME NEW p \in Procs, ClearSlot(p) PROVE FreshInv'
    BY <2>1, <2>5, ClearStep
  <2>6. ASSUME NEW p \in Procs, FillSlot(p) PROVE FreshInv'
    BY <2>1, <2>6, FillStep
  <2>7. ASSUME NEW p \in Procs, Die(p) PROVE FreshInv'
    BY <2>7 DEF Die, Goto, table, TypeOK, FreshInv, CallAtHome, KeyAtHome,
                LatestValue, SinceBound, FreshReads
  <2>8. CASE UNCHANGED vars
    BY <2>8 DEF vars, FreshInv, CallAtHome, KeyAtHome, LatestValue, SinceBound,
                FreshReads
  <2>. QED
    BY <2>2, <2>3, <2>4, <2>5, <2>6, <2>7, <2>8 DEF CrashNext, Step, InCall
<1>. QED
  BY <1>1, FreshInit, Typing, PTL DEF CrashSpec

\* When no two keys probe from the same slot, a state_get returns a value of
\* the key it asked for, at least as recent as the last write completed before
\* it: whatever number of processes write the key, without a lock that works,
\* and whichever of them die half way.
THEOREM ApartReadsAreFresh ==
  ASSUME Apart
  PROVE  CrashSpec => []FreshReads
<1>1. FreshInv => FreshReads
  BY DEF FreshInv
<1>. QED
  BY <1>1, ApartFresh, PTL
------------------------------------------------------------------------------
(* The table as registers, while no two keys share a home slot.              *)

\* A slot without a key has no value.
EmptyIsBlank == \A x \in Slots : key[x] = NoKey => value[x] = Blank

LEMMA EmptyStaysBlank ==
  CrashSpec => []EmptyIsBlank
<1>1. Init => EmptyIsBlank
  BY DEF Init, EmptyIsBlank
<1>2. TypeOK /\ EmptyIsBlank /\ [CrashNext]_vars => EmptyIsBlank'
  <2>. SUFFICES ASSUME TypeOK, EmptyIsBlank, [CrashNext]_vars PROVE EmptyIsBlank'
    OBVIOUS
  <2>1. ASSUME NEW p \in Procs, FillSlot(p) PROVE EmptyIsBlank'
    <3>1. call[p].key # NoKey /\ at[p] \in Slots
      BY <2>1, StateTableAssumption DEF FillSlot, TypeOK, Writing, SetCall
    <3>. QED
      BY <2>1, <3>1 DEF FillSlot, TypeOK, EmptyIsBlank
  <2>2. ASSUME NEW p \in Procs, ClearSlot(p) PROVE EmptyIsBlank'
    BY <2>2 DEF ClearSlot, TypeOK, EmptyIsBlank
  <2>3. CASE UNCHANGED <<key, value>>
    BY <2>3 DEF EmptyIsBlank
  <2>4. UNCHANGED <<key, value>> \/ \E p \in Procs : FillSlot(p) \/ ClearSlot(p)
    BY DEF CrashNext, Step, InCall, BeginSet, BeginGet, Begin, ProbeHit, ProbeNext, ProbeFull,
       LockFree, LockGiveUp, LockZero, LockTake, ReadVersion, CheckKey, ReadValue, Return, Die,
       table, vars
  <2>. QED
    BY <2>1, <2>2, <2>3, <2>4
<1>. QED
  BY <1>1, <1>2, Typing, PTL DEF CrashSpec

\* How far each process is with its call.
Steps == [p \in Procs |-> Progress(p)]

\* What every step of a process says of how far it is with its call.
LEMMA StepsMove ==
  ASSUME TypeOK, NEW p \in Procs, NEW label, pc' = [pc EXCEPT ![p] = label]
  PROVE  Steps' = [Steps EXCEPT ![p] = CASE label \in {"idle", "dead"} -> label
                                         [] label = "fill" -> "emptied"
                                         [] OTHER -> "called"]
<1>1. \A q \in Procs : pc'[q] = IF q = p THEN label ELSE pc[q]
  BY DEF TypeOK
<1>2. \A q \in Procs : q # p => Progress(q)' = Progress(q)
  BY <1>1, Zenon DEF Progress
<1>3. Progress(p)' = CASE label \in {"idle", "dead"} -> label
                       [] label = "fill" -> "emptied"
                       [] OTHER -> "called"
  BY <1>1, Zenon DEF Progress
<1>. HIDE DEF Progress
<1>. QED
  BY <1>2, <1>3, Zenon DEF Steps

\* Every step of the table is a step of the registers or changes nothing in them.
LEMMA RegisterSteps ==
  ASSUME Apart, Known, EmptyIsBlank, [CrashNext]_vars
  PROVE  [Regs!Next]_(Regs!vars)
<1>. USE DEF Known
<1>0. UNCHANGED <<key, value>> => Register' = Register
  BY DEF Register
<1>1. ASSUME NEW p \in Procs, NEW c, Begin(p, c)
      PROVE  Regs!Begin(p, c)
  <2>1. pc[p] = "idle" /\ pc' = [pc EXCEPT ![p] = "probe"]
        /\ call' = [call EXCEPT ![p] = c] /\ Register' = Register /\ result' = result
    BY <1>0, <1>1 DEF Begin, Goto, table
  <2>2. Steps[p] = "idle" /\ Steps' = [Steps EXCEPT ![p] = "called"]
    BY <2>1, StepsMove DEF Steps, Progress
  <2>. QED
    BY <2>1, <2>2 DEF Regs!Begin, Regs!Goto, Steps
<1>2. ASSUME NEW p \in Procs, pc[p] \notin {"idle", "dead"}
      PROVE  /\ at[p] = Home[call[p].key] /\ at[p] \in Slots /\ call[p].key \in Key
             /\ key[at[p]] \in {NoKey, call[p].key}
             /\ Register[call[p].key] =
                  IF key[at[p]] = call[p].key THEN value[at[p]] ELSE None
  <2>1. at[p] = Home[call[p].key] /\ at[p] \in Slots /\ call[p].key \in Key
    BY <1>2 DEF TypeOK, FreshInv, CallAtHome, SetCall, GetCall, Labels, Writing, Reading
  <2>2. key[at[p]] \in Key \union {NoKey}
    BY <2>1 DEF TypeOK
  <2>. QED
    BY <2>1, <2>2 DEF FreshInv, KeyAtHome, Apart, Register
<1>3. ASSUME NEW p \in Procs, NEW from \in Labels, NEW to, pc[p] = from,
             pc' = [pc EXCEPT ![p] = to], from \notin {"idle", "dead", "fill"},
             to \notin {"idle", "dead", "fill"},
             UNCHANGED <<key, value, call, result>>
      PROVE  UNCHANGED Regs!vars
  <2>1. Steps[p] = "called" /\ Steps' = [Steps EXCEPT ![p] = "called"]
    <3>1. Steps[p] = "called"
      BY <1>3 DEF Steps, Progress
    <3>2. Steps' = [Steps EXCEPT ![p] = CASE to \in {"idle", "dead"} -> to
                                          [] to = "fill" -> "emptied"
                                          [] OTHER -> "called"]
      BY <1>3, StepsMove
    <3>. QED
      BY <1>3, <3>1, <3>2
  <2>2. Steps' = Steps
    BY <2>1 DEF Steps
  <2>. QED
    BY <1>0, <1>3, <2>2 DEF Regs!vars, Steps
<1>4. ASSUME NEW p \in Procs, ProbeNext(p) \/ ProbeFull(p) PROVE FALSE
  BY <1>4, ProbeAtHome DEF ProbeNext, ProbeFull
<1>5. ASSUME NEW p \in Procs,
             \/ ProbeHit(p) \/ LockFree(p) \/ LockZero(p) \/ LockTake(p) \/ ReadVersion(p)
             \/ CheckKey(p) /\ key[at[p]] # NoKey
      PROVE  UNCHANGED Regs!vars
  <2>1. UNCHANGED <<key, value, call, result>>
    BY <1>5 DEF ProbeHit, LockFree, LockZero, LockTake, ReadVersion, CheckKey, table
  <2>2. PICK to \in Labels \ {"idle", "dead", "fill"} : pc' = [pc EXCEPT ![p] = to]
    BY <1>5 DEF ProbeHit, LockFree, LockZero, LockTake, ReadVersion, CheckKey, Goto, Labels
  <2>3. PICK from \in Labels \ {"idle", "dead", "fill"} : pc[p] = from
    BY <1>5 DEF ProbeHit, LockFree, LockZero, LockTake, ReadVersion, CheckKey, Labels
  <2>. QED
    BY <1>3, <2>1, <2>2, <2>3
<1>6. ASSUME NEW p \in Procs, LockGiveUp(p) PROVE Regs!GiveUp(p)
  <2>1. /\ pc[p] = "lock" /\ pc' = [pc EXCEPT ![p] = "idle"] /\ call[p].op = "set"
        /\ UNCHANGED <<key, value, call>> /\ result' = result
    BY <1>6 DEF LockGiveUp, Return, Goto, table, TypeOK, Writing, SetCall
  <2>2. Steps[p] = "called" /\ Steps' = [Steps EXCEPT ![p] = "idle"]
    BY <2>1, StepsMove DEF Steps, Progress
  <2>. QED
    BY <1>0, <2>1, <2>2 DEF Regs!GiveUp, Regs!Goto, Steps
<1>7. ASSUME NEW p \in Procs, ClearSlot(p) PROVE Regs!Empty(p)
  <2>1. /\ pc[p] = "clear" /\ pc' = [pc EXCEPT ![p] = "fill"] /\ call[p].op = "set"
        /\ key' = [key EXCEPT ![at[p]] = NoKey] /\ value' = [value EXCEPT ![at[p]] = Blank]
        /\ UNCHANGED <<call, result>>
    BY <1>7 DEF ClearSlot, Goto, TypeOK, Writing, SetCall
  <2>2. Steps[p] = "called" /\ Steps' = [Steps EXCEPT ![p] = "emptied"]
    BY <2>1, StepsMove DEF Steps, Progress
  <2>3. Register' = [Register EXCEPT ![call[p].key] = None]
    <3>1. at[p] = Home[call[p].key] /\ at[p] \in Slots /\ call[p].key \in Key
      BY <1>2, <2>1
    <3>2. ASSUME NEW k \in Key
          PROVE  Register'[k] = IF k = call[p].key THEN None ELSE Register[k]
      <4>1. Home[k] \in Slots /\ k # NoKey
        BY StateTableAssumption
      <4>2. k # call[p].key => Home[k] # at[p]
        BY <3>1 DEF Apart
      <4>. QED
        BY <2>1, <3>1, <4>1, <4>2 DEF Register, TypeOK
    <3>. QED
      BY <3>1, <3>2 DEF Register
  <2>. QED
    BY <2>1, <2>2, <2>3 DEF Regs!Empty, Regs!Goto, Steps
<1>8. ASSUME NEW p \in Procs, FillSlot(p) PROVE Regs!Fill(p)
  <2>1. /\ pc[p] = "fill" /\ pc' = [pc EXCEPT ![p] = "idle"]
        /\ key' = [key EXCEPT ![at[p]] = call[p].key]
        /\ value' = [value EXCEPT ![at[p]] = call[p].value]
        /\ UNCHANGED <<call, result>>
    BY <1>8 DEF FillSlot, Goto
  <2>2. Steps[p] = "emptied" /\ Steps' = [Steps EXCEPT ![p] = "idle"]
    BY <2>1, StepsMove DEF Steps, Progress
  <2>3. Register' = [Register EXCEPT ![call[p].key] = call[p].value]
    <3>1. at[p] = Home[call[p].key] /\ at[p] \in Slots /\ call[p].key \in Key
      BY <1>2, <2>1
    <3>2. ASSUME NEW k \in Key
          PROVE  Register'[k] = IF k = call[p].key THEN call[p].value ELSE Register[k]
      <4>1. Home[k] \in Slots
        BY StateTableAssumption
      <4>2. k # call[p].key => Home[k] # at[p]
        BY <3>1 DEF Apart
      <4>. QED
        BY <2>1, <3>1, <4>1, <4>2 DEF Register, TypeOK
    <3>. QED
      BY <3>1, <3>2 DEF Register
  <2>. QED
    BY <2>1, <2>2, <2>3 DEF Regs!Fill, Regs!Goto, Steps
<1>9. ASSUME NEW p \in Procs, ReadValue(p) \/ (CheckKey(p) /\ key[at[p]] = NoKey)
      PROVE  Regs!Read(p)
  <2>1. PICK r :
          /\ pc[p] \in {"check", "value"} /\ pc' = [pc EXCEPT ![p] = "idle"]
          /\ result' = [result EXCEPT ![p] = r] /\ UNCHANGED <<key, value, call>>
          /\ r = value[at[p]] \/ (r = None /\ key[at[p]] = NoKey)
    BY <1>9 DEF ReadValue, CheckKey, Return, Goto, table
  <2>2. Steps[p] = "called" /\ Steps' = [Steps EXCEPT ![p] = "idle"]
    BY <2>1, StepsMove DEF Steps, Progress
  <2>3. call[p].op = "get"
    BY <2>1 DEF TypeOK, Reading, GetCall
  <2>4. r \in IF Register[call[p].key] = None THEN {None, Blank} ELSE {Register[call[p].key]}
    <3>1. /\ at[p] \in Slots /\ call[p].key \in Key /\ key[at[p]] \in {NoKey, call[p].key}
          /\ Register[call[p].key] = IF key[at[p]] = call[p].key THEN value[at[p]] ELSE None
      BY <1>2, <2>1
    <3>2. key[at[p]] = NoKey => value[at[p]] = Blank /\ Register[call[p].key] = None
      BY <3>1, StateTableAssumption DEF EmptyIsBlank
    <3>. QED
      BY <2>1, <3>1, <3>2
  <2>. QED
    BY <1>0, <2>1, <2>2, <2>3, <2>4 DEF Regs!Read, Regs!Goto, Steps
<1>10. ASSUME NEW p \in Procs, Die(p) PROVE Regs!Die(p)
  <2>1. /\ pc[p] # "dead" /\ pc' = [pc EXCEPT ![p] = "dead"]
        /\ UNCHANGED <<key, value, call, result>>
    BY <1>10 DEF Die, Goto, table
  <2>2. Steps[p] # "dead" /\ Steps' = [Steps EXCEPT ![p] = "dead"]
    BY <2>1, StepsMove DEF Steps, Progress
  <2>. QED
    BY <1>0, <2>1, <2>2 DEF Regs!Die, Regs!Goto, Steps
<1>11. CASE UNCHANGED vars
  <2>1. \A p \in Procs : Progress(p)' = Progress(p)
    BY <1>11 DEF vars, Progress
  <2>. QED
    BY <1>0, <1>11, <2>1 DEF vars, Regs!vars
<1>12. ASSUME NEW p \in Procs, BeginSet(p) PROVE Regs!Next
  <2>1. PICK k \in Key, v \in Value : Begin(p, [op |-> "set", key |-> k, value |-> v])
    BY <1>12, StateTableAssumption DEF BeginSet
  <2>. QED
    BY <1>1, <2>1 DEF Regs!Next
<1>13. ASSUME NEW p \in Procs, BeginGet(p) PROVE Regs!Next
  <2>1. PICK k \in Key : Begin(p, [op |-> "get", key |-> k, value |-> Blank])
    BY <1>13 DEF BeginGet
  <2>. QED
    BY <1>1, <2>1 DEF Regs!Next
<1>14. ASSUME NEW p \in Procs, Step(p) \/ Die(p) PROVE [Regs!Next]_(Regs!vars)
  <2>1. ASSUME CheckKey(p)
        PROVE  (CheckKey(p) /\ key[at[p]] # NoKey) \/ (CheckKey(p) /\ key[at[p]] = NoKey)
    BY <2>1
  <2>. QED
    BY <1>4, <1>5, <1>6, <1>7, <1>8, <1>9, <1>10, <1>12, <1>13, <1>14, <2>1, Zenon
    DEF Step, InCall, Regs!Next
<1>. QED
  BY <1>11, <1>14 DEF CrashNext

\* fabric.py, state_set and state_get: when no two keys start probing from the same
\* slot, the table is a register for each key, which a write first empties and then
\* fills and a read reads in one step, for any number of processes and whichever of
\* them die: what the lock and the version do, or fail to do, does not show.
THEOREM TableIsRegisters ==
  ASSUME Apart
  PROVE  CrashSpec => ImplementsRegisters
<1>1. Init => Regs!Init
  BY StateTableAssumption DEF Init, Regs!Init, Register, Progress
<1>2. TypeOK /\ FreshInv /\ EmptyIsBlank /\ [CrashNext]_vars => [Regs!Next]_(Regs!vars)
  BY RegisterSteps DEF Known
<1>. QED
  BY <1>1, <1>2, Typing, ApartFresh, EmptyStaysBlank, PTL
  DEF CrashSpec, ImplementsRegisters, Regs!Spec
------------------------------------------------------------------------------
(* The only writer of a key, while no two keys share a home slot.            *)

\* Processes write their own keys.
CallsOwn == \A p \in Procs : call[p].op = "set" => call[p].key \in Writes[p]

LastWritten(k) == IF written[k] = <<>> THEN None ELSE written[k][Len(written[k])]

\* The slot of a key holds its last write and the number of them.
Intact(k) ==
  /\ version[Home[k]] = Len(written[k])
  /\ IF written[k] = <<>> THEN key[Home[k]] = NoKey
     ELSE key[Home[k]] = k /\ value[Home[k]] = LastWritten(k)

\* It does, except that its writer p may be rewriting it or have died there.
SlotOfOwn(p, k) ==
  \/ Intact(k)
  \/ key[Home[k]] = NoKey /\ (pc[p] = "dead" \/ (pc[p] = "fill" /\ call[p].key = k))

\* What p carries over from one step of a call for k to the next.
CallForOwn(p, k) ==
  call[p].key = k =>
    /\ pc[p] \in {"clear", "fill"} => ver[p] = Len(written[k]) + 1
    /\ pc[p] = "value" => written[k] # <<>>
    /\ pc[p] = "idle" /\ call[p].op = "get" => result[p] = LastWritten(k)

Owned ==
  \A p \in Procs, k \in Key : SoleWriter(p, k) => SlotOfOwn(p, k) /\ CallForOwn(p, k)

OwnInv == Known /\ CallsOwn /\ Owned

LEMMA OwnInit == Init => CallsOwn /\ Owned
<1> SUFFICES ASSUME Init PROVE CallsOwn /\ Owned
  OBVIOUS
<1>1. CallsOwn
  BY DEF Init, CallsOwn, Idle
<1>2. Owned
  <2> SUFFICES ASSUME NEW p \in Procs, NEW k \in Key
               PROVE  SlotOfOwn(p, k) /\ CallForOwn(p, k)
    BY DEF Owned
  <2>1. Home[k] \in Slots /\ written[k] = <<>> /\ Len(written[k]) = 0
    BY StateTableAssumption DEF Init
  <2>. QED
    BY <2>1 DEF Init, SlotOfOwn, Intact, CallForOwn, Idle
<1>. QED
  BY <1>1, <1>2

LEMMA CallsStayOwn ==
  ASSUME TypeOK, CallsOwn, [CrashNext]_vars
  PROVE  CallsOwn'
<1>1. ASSUME NEW p \in Procs, BeginSet(p) \/ BeginGet(p) PROVE CallsOwn'
  <2>1. CASE BeginSet(p)
    <3>1. PICK k \in Writes[p], v \in Value : Begin(p, [op |-> "set", key |-> k, value |-> v])
      BY <2>1 DEF BeginSet
    <3>. QED
      BY <3>1 DEF Begin, CallsOwn, TypeOK
  <2>2. CASE BeginGet(p)
    <3>1. PICK k \in Key : Begin(p, [op |-> "get", key |-> k, value |-> Blank])
      BY <2>2 DEF BeginGet
    <3>. QED
      BY <3>1 DEF Begin, CallsOwn, TypeOK
  <2>. QED
    BY <1>1, <2>1, <2>2
<1>2. CASE UNCHANGED call
  BY <1>2 DEF CallsOwn
<1>. QED
  BY <1>1, <1>2 DEF CrashNext, Step, InCall, ProbeHit, ProbeNext, ProbeFull, LockFree, LockGiveUp,
     LockZero, LockTake, ReadVersion, ClearSlot, FillSlot, CheckKey, ReadValue, Return, Die, vars

\* A set that works at the slot of a key is one of the key's writer.
LEMMA OnlyItsWriter ==
  ASSUME Apart, OwnInv, NEW p \in Procs, NEW k \in Key, SoleWriter(p, k),
         NEW q \in Procs, pc[q] \in Writing, at[q] = Home[k]
  PROVE  q = p /\ call[q].key = k
<1>1. call[q] \in SetCall /\ at[q] = Home[call[q].key]
  BY DEF OwnInv, Known, TypeOK, FreshInv, CallAtHome, Writing
<1>2. call[q].key = k
  BY <1>1 DEF Apart, SetCall
<1>3. k \in Writes[q]
  BY <1>1, <1>2 DEF OwnInv, CallsOwn, SetCall
<1>. QED
  BY <1>2, <1>3 DEF SoleWriter

\* Whatever happens elsewhere leaves the key's slot and history alone.
LEMMA Elsewhere ==
  ASSUME Apart, OwnInv, NEW p \in Procs, NEW k \in Key, SoleWriter(p, k),
         NEW q \in Procs, Step(q) \/ Die(q), q # p \/ call[p].key # k \/ pc[p] \notin {"clear", "fill"}
  PROVE  /\ key'[Home[k]] = key[Home[k]] /\ value'[Home[k]] = value[Home[k]]
         /\ version'[Home[k]] = version[Home[k]] /\ written'[k] = written[k]
<1>1. Home[k] \in Slots
  BY StateTableAssumption
<1>2. CASE ClearSlot(q)
  <2>1. at[q] # Home[k]
    BY <1>2, OnlyItsWriter DEF ClearSlot, Writing
  <2>. QED
    BY <1>1, <1>2, <2>1 DEF ClearSlot, OwnInv, Known, TypeOK
<1>3. CASE FillSlot(q)
  <2>1. at[q] # Home[k]
    BY <1>3, OnlyItsWriter DEF FillSlot, Writing
  <2>2. call[q].key # k
    BY <1>3, <2>1 DEF FillSlot, OwnInv, Known, FreshInv, CallAtHome
  <2>. QED
    BY <1>1, <1>3, <2>1, <2>2 DEF FillSlot, OwnInv, Known, TypeOK
<1>4. CASE BeginSet(q) \/ BeginGet(q)
  BY <1>4 DEF BeginSet, BeginGet, Begin, table
<1>. QED
  BY <1>2, <1>3, <1>4 DEF Step, InCall, ProbeHit, ProbeNext, ProbeFull, LockFree, LockGiveUp,
     LockZero, LockTake, ReadVersion, CheckKey, ReadValue, Return, Die, table

\* A step of q leaves every other process where it was.
LEMMA OneAtATime ==
  ASSUME TypeOK, NEW q \in Procs, Step(q) \/ Die(q), NEW p \in Procs, p # q
  PROVE  pc'[p] = pc[p] /\ call'[p] = call[p] /\ ver'[p] = ver[p] /\ result'[p] = result[p]
<1>1. CASE BeginSet(q) \/ BeginGet(q)
  BY <1>1 DEF BeginSet, BeginGet, Begin, Goto, TypeOK
<1>2. CASE ProbeHit(q) \/ ProbeNext(q) \/ ProbeFull(q) \/ LockFree(q) \/ LockGiveUp(q) \/ LockZero(q)
  BY <1>2 DEF ProbeHit, ProbeNext, ProbeFull, LockFree, LockGiveUp, LockZero, Return, Goto, TypeOK
<1>3. CASE LockTake(q) \/ ReadVersion(q) \/ ClearSlot(q) \/ FillSlot(q)
  BY <1>3 DEF LockTake, ReadVersion, ClearSlot, FillSlot, Goto, TypeOK
<1>4. CASE CheckKey(q) \/ ReadValue(q) \/ Die(q)
  BY <1>4 DEF CheckKey, ReadValue, Return, Die, Goto, TypeOK
<1>. QED
  BY <1>1, <1>2, <1>3, <1>4 DEF Step, InCall

\* Slot and history stay, and with them what is known of both.
LEMMA SameSlot ==
  ASSUME NEW k \in Key, key'[Home[k]] = key[Home[k]], value'[Home[k]] = value[Home[k]],
         version'[Home[k]] = version[Home[k]], written'[k] = written[k]
  PROVE  LastWritten(k)' = LastWritten(k) /\ Intact(k)' = Intact(k)
BY DEF LastWritten, Intact

\* The steps of the key's own writer.
LEMMA OwnSteps ==
  ASSUME Apart, OwnInv, TypeOK', NEW p \in Procs, NEW k \in Key, SoleWriter(p, k), Step(p)
  PROVE  SlotOfOwn(p, k)' /\ CallForOwn(p, k)'
<1> USE DEF Goto
<1>0. /\ SlotOfOwn(p, k) /\ CallForOwn(p, k) /\ TypeOK /\ Home[k] \in Slots
      /\ written[k] \in Seq(Value) /\ k # NoKey
  BY StateTableAssumption DEF OwnInv, Owned, Known, TypeOK
<1>1. CASE ClearSlot(p) /\ call[p].key = k
  <2>1. at[p] = Home[k] /\ written' = written /\ pc[p] = "clear" /\ pc'[p] = "fill"
          /\ call' = call /\ ver' = ver /\ key'[Home[k]] = NoKey
    BY <1>0, <1>1 DEF ClearSlot, OwnInv, Known, FreshInv, CallAtHome, TypeOK
  <2>. QED
    BY <1>0, <1>1, <2>1 DEF SlotOfOwn, CallForOwn
<1>2. CASE FillSlot(p) /\ call[p].key = k
  <2>1. /\ at[p] = Home[k] /\ pc[p] = "fill" /\ pc'[p] = "idle" /\ call' = call
        /\ call[p].op = "set" /\ call[p].value \in Value
        /\ key'[Home[k]] = k /\ value'[Home[k]] = call[p].value /\ version'[Home[k]] = ver[p]
        /\ written'[k] = Append(written[k], call[p].value)
    BY <1>0, <1>2 DEF FillSlot, OwnInv, Known, FreshInv, CallAtHome, TypeOK, Writing, SetCall
  <2>2. /\ Len(written'[k]) = Len(written[k]) + 1 /\ written'[k] # <<>>
        /\ written'[k][Len(written'[k])] = call[p].value
    BY <1>0, <2>1
  <2>3. ver[p] = Len(written[k]) + 1
    BY <1>0, <1>2, <2>1 DEF CallForOwn
  <2>. QED
    BY <1>2, <2>1, <2>2, <2>3 DEF SlotOfOwn, CallForOwn, Intact, LastWritten
<1>3. CASE call[p].key # k \/ pc[p] \notin {"clear", "fill"}
  <2>1. LastWritten(k)' = LastWritten(k) /\ Intact(k)' = Intact(k) /\ written'[k] = written[k]
          /\ key'[Home[k]] = key[Home[k]]
    BY <1>3, Elsewhere, SameSlot
  <2>2. pc[p] # "dead"
    BY DEF Step, InCall, BeginSet, BeginGet, Begin, ProbeHit, ProbeNext, ProbeFull, LockFree,
       LockGiveUp, LockZero, LockTake, ReadVersion, ClearSlot, FillSlot, CheckKey, ReadValue
  <2>3. Intact(k)
    BY <1>0, <1>3, <2>2 DEF SlotOfOwn
  <2>4. SlotOfOwn(p, k)'
    BY <2>1, <2>3 DEF SlotOfOwn
  <2>5. CASE BeginSet(p) \/ BeginGet(p)
    BY <1>0, <2>4, <2>5 DEF BeginSet, BeginGet, Begin, TypeOK, CallForOwn
  <2>6. CASE call[p].key # k /\ UNCHANGED call
    BY <2>4, <2>6 DEF CallForOwn
  <2>7. CASE call[p].key = k /\ UNCHANGED call /\ pc'[p] \notin {"clear", "fill", "value", "idle"}
    BY <2>4, <2>7 DEF CallForOwn
  <2>8. CASE call[p].key = k /\ UNCHANGED call /\ pc'[p] = "idle" /\ call[p].op # "get"
    BY <2>4, <2>8 DEF CallForOwn
  <2>9. CASE call[p].key = k /\ ReadVersion(p)
    <3>1. pc'[p] = "clear" /\ call' = call /\ at[p] = Home[k] /\ ver'[p] = version[Home[k]] + 1
      BY <1>0, <2>9 DEF ReadVersion, NextVersion, OwnInv, Known, FreshInv, CallAtHome, TypeOK
    <3>. QED
      BY <2>1, <2>3, <2>4, <3>1 DEF CallForOwn, Intact
  <2>10. CASE call[p].key = k /\ CheckKey(p)
    <3>1. /\ call' = call /\ at[p] = Home[k]
          /\ IF key[Home[k]] = NoKey THEN pc'[p] = "idle" /\ result'[p] = None ELSE pc'[p] = "value"
      BY <1>0, <2>10 DEF CheckKey, Return, OwnInv, Known, FreshInv, CallAtHome, TypeOK
    <3>. QED
      BY <1>0, <2>1, <2>3, <2>4, <3>1 DEF CallForOwn, Intact, LastWritten
  <2>11. CASE call[p].key = k /\ ReadValue(p)
    <3>1. /\ call' = call /\ at[p] = Home[k] /\ pc[p] = "value" /\ pc'[p] = "idle"
          /\ result'[p] = value[Home[k]]
      BY <1>0, <2>11 DEF ReadValue, Return, OwnInv, Known, FreshInv, CallAtHome, TypeOK
    <3>. QED
      BY <1>0, <2>1, <2>3, <2>4, <2>11, <3>1 DEF CallForOwn, Intact
  <2>12. ASSUME ProbeHit(p) \/ LockFree(p) \/ LockZero(p) \/ LockTake(p)
         PROVE  UNCHANGED call /\ pc'[p] \notin {"clear", "fill", "value", "idle"}
    BY <1>0, <2>12 DEF ProbeHit, LockFree, LockZero, LockTake, TypeOK
  <2>13. ASSUME ProbeNext(p) \/ ProbeFull(p) PROVE FALSE
    BY <2>13, ProbeAtHome DEF ProbeNext, ProbeFull, OwnInv
  <2>14. ASSUME LockGiveUp(p)
         PROVE  UNCHANGED call /\ pc'[p] = "idle" /\ call[p].op # "get"
    BY <1>0, <2>14 DEF LockGiveUp, Return, TypeOK, Writing, SetCall
  <2>15. ASSUME ReadVersion(p) \/ CheckKey(p) \/ ReadValue(p) \/ ClearSlot(p) \/ FillSlot(p)
         PROVE  UNCHANGED call
    BY <2>15 DEF ReadVersion, CheckKey, ReadValue, Return, ClearSlot, FillSlot
  <2>16. ASSUME ClearSlot(p) \/ FillSlot(p) PROVE call[p].key # k
    BY <1>3, <2>16 DEF ClearSlot, FillSlot
  <2>. QED
    BY <2>5, <2>6, <2>7, <2>8, <2>9, <2>10, <2>11, <2>12, <2>13, <2>14, <2>15, <2>16, Zenon
    DEF Step, InCall
<1>4. ASSUME call[p].key = k, pc[p] \in {"clear", "fill"} PROVE ClearSlot(p) \/ FillSlot(p)
  BY <1>4 DEF Step, InCall, BeginSet, BeginGet, Begin, ProbeHit, ProbeNext, ProbeFull, LockFree,
     LockGiveUp, LockZero, LockTake, ReadVersion, CheckKey, ReadValue
<1>. QED
  BY <1>1, <1>2, <1>3, <1>4

LEMMA OwnNext ==
  ASSUME Apart, OwnInv, TypeOK', [CrashNext]_vars
  PROVE  Owned'
<1> SUFFICES ASSUME NEW p \in Procs, NEW k \in Key, SoleWriter(p, k)
             PROVE  SlotOfOwn(p, k)' /\ CallForOwn(p, k)'
  BY DEF Owned, SoleWriter
<1>0. SlotOfOwn(p, k) /\ CallForOwn(p, k) /\ TypeOK
  BY DEF OwnInv, Owned, Known
<1>1. CASE Step(p)
  BY <1>1, OwnSteps
<1>2. ASSUME NEW q \in Procs, q # p, Step(q) \/ Die(q)
      PROVE  SlotOfOwn(p, k)' /\ CallForOwn(p, k)'
  <2>1. LastWritten(k)' = LastWritten(k) /\ Intact(k)' = Intact(k) /\ written'[k] = written[k]
          /\ key'[Home[k]] = key[Home[k]]
    BY <1>2, Elsewhere, SameSlot
  <2>2. pc'[p] = pc[p] /\ call'[p] = call[p] /\ ver'[p] = ver[p] /\ result'[p] = result[p]
    BY <1>0, <1>2, OneAtATime
  <2>. QED
    BY <1>0, <2>1, <2>2 DEF SlotOfOwn, CallForOwn
<1>3. CASE Die(p)
  <2>1. /\ UNCHANGED <<key, value, version, written, call>> /\ pc[p] # "dead" /\ pc'[p] = "dead"
    BY <1>0, <1>3 DEF Die, Goto, table, TypeOK
  <2>2. LastWritten(k)' = LastWritten(k) /\ Intact(k)' = Intact(k)
    BY <2>1, SameSlot
  <2>. QED
    BY <1>0, <2>1, <2>2 DEF SlotOfOwn, CallForOwn
<1>4. CASE UNCHANGED vars
  <2>1. UNCHANGED <<key, value, version, written, call, pc, ver, result>>
    BY <1>4 DEF vars
  <2>2. LastWritten(k)' = LastWritten(k) /\ Intact(k)' = Intact(k)
    BY <2>1, SameSlot
  <2>. QED
    BY <1>0, <2>1, <2>2 DEF SlotOfOwn, CallForOwn
<1>. QED
  BY <1>1, <1>2, <1>3, <1>4 DEF CrashNext

LEMMA OwnInvariant ==
  ASSUME Apart
  PROVE  CrashSpec => []OwnInv
<1>1. Init => CallsOwn /\ Owned /\ FreshInv
  BY OwnInit, FreshInit
<1>2. OwnInv /\ TypeOK' /\ FreshInv' /\ [CrashNext]_vars => OwnInv'
  <2> SUFFICES ASSUME OwnInv, TypeOK', FreshInv', [CrashNext]_vars PROVE OwnInv'
    OBVIOUS
  <2>1. CallsOwn'
    BY CallsStayOwn DEF OwnInv, Known
  <2>2. Owned'
    BY OwnNext
  <2>. QED
    BY <2>1, <2>2 DEF OwnInv, Known
<1>3. TypeOK /\ FreshInv /\ CallsOwn /\ Owned => OwnInv
  BY DEF OwnInv, Known
<1>. QED
  BY <1>1, <1>2, <1>3, Typing, ApartFresh, PTL DEF CrashSpec

\* fabric.py, state_set: the version of a key that one process writes counts
\* its writes, whoever reads or writes other keys, and whoever dies.
THEOREM VersionsCount ==
  ASSUME Apart
  PROVE  CrashSpec => []VersionCountsWrites
<1>1. OwnInv => VersionCountsWrites
  <2> SUFFICES ASSUME OwnInv, NEW x \in Slots, NEW p \in Procs, SoleWriter(p, key[x])
               PROVE  version[x] = Len(written[key[x]])
    BY DEF VersionCountsWrites
  <2>1. key[x] \in Key /\ key[x] # NoKey
    BY StateTableAssumption DEF SoleWriter
  <2>2. Home[key[x]] = x
    BY <2>1 DEF OwnInv, Known, FreshInv, KeyAtHome
  <2>. QED
    BY <2>1, <2>2 DEF OwnInv, Owned, SlotOfOwn, Intact
<1>. QED
  BY <1>1, OwnInvariant, PTL

\* fabric.py, state_set and state_get: the only writer of a key reads back what
\* it wrote last, whoever else dies half way through a write.
THEOREM OwnWritesAreRead ==
  ASSUME Apart
  PROVE  CrashSpec => []ReadYourWrites
<1>1. OwnInv => ReadYourWrites
  <2> SUFFICES ASSUME OwnInv, NEW p \in Procs, pc[p] = "idle", call[p].op = "get",
                      SoleWriter(p, call[p].key)
               PROVE  result[p] = LastWritten(call[p].key)
    BY DEF ReadYourWrites, LastWritten
  <2>1. call[p].key \in Key
    BY StateTableAssumption DEF SoleWriter
  <2>. QED
    BY <2>1 DEF OwnInv, Owned, CallForOwn
<1>. QED
  BY <1>1, OwnInvariant, PTL
------------------------------------------------------------------------------
(* With a single writer the table is a map: for any number of slots, keys   *)
(* and readers, and however many keys probe from the same slot.             *)

\* The i-th slot that _slot looks at for key k, from zero.
ProbeAt(k, i) == IF Home[k] + i < Size THEN Home[k] + i ELSE Home[k] + i - Size

\* None of the first i slots looked at for k in table f ends the search.
Passes(f, k, i) == \A j \in 0..(i - 1) : f[ProbeAt(k, j)] \notin {k, NoKey}

\* Every key of table f is where the search for it ends.
WellPlaced(f) ==
  \A x \in Slots : f[x] # NoKey =>
    \E i \in Slots : x = ProbeAt(f[x], i) /\ Passes(f, f[x], i)

Tables == [Slots -> Key \union {NoKey}]

LEMMA SuccessorIs ==
  ASSUME NEW x \in Slots
  PROVE  Successor(x) = IF x + 1 = Size THEN 0 ELSE x + 1
<1>1. Size \in Nat \ {0} /\ x \in 0..(Size - 1)
  BY StateTableAssumption DEF Slots
<1>2. CASE x + 1 = Size
  <2>1. (x + 1) % Size = 0
    BY <1>1, <1>2
  <2>. QED
    BY <1>2, <2>1 DEF Successor
<1>3. CASE x + 1 # Size
  <2>1. (x + 1) % Size = x + 1
    BY <1>1, <1>3
  <2>. QED
    BY <1>3, <2>1 DEF Successor
<1>. QED
  BY <1>2, <1>3

\* The search visits the slots from the home on, each once.
LEMMA ProbeOrder ==
  ASSUME NEW k \in Key
  PROVE  /\ 0 \in Slots /\ ProbeAt(k, 0) = Home[k]
         /\ \A i \in Slots : ProbeAt(k, i) \in Slots
         /\ \A i, j \in Slots : ProbeAt(k, i) = ProbeAt(k, j) => i = j
         /\ \A i \in Slots :
              Successor(ProbeAt(k, i)) # Home[k] =>
                i + 1 \in Slots /\ Successor(ProbeAt(k, i)) = ProbeAt(k, i + 1)
<1>1. Size \in Nat \ {0} /\ Home[k] \in 0..(Size - 1) /\ Slots = 0..(Size - 1)
  BY StateTableAssumption DEF Slots
<1>2. \A i \in Slots : ProbeAt(k, i) \in Slots
  BY <1>1 DEF ProbeAt
<1>3. ASSUME NEW i \in Slots, Successor(ProbeAt(k, i)) # Home[k]
      PROVE  i + 1 \in Slots /\ Successor(ProbeAt(k, i)) = ProbeAt(k, i + 1)
  <2>1. Successor(ProbeAt(k, i)) = IF ProbeAt(k, i) + 1 = Size THEN 0 ELSE ProbeAt(k, i) + 1
    BY <1>2, SuccessorIs
  <2>. QED
    BY <1>1, <1>3, <2>1 DEF ProbeAt
<1>4. 0 \in Slots /\ ProbeAt(k, 0) = Home[k]
  BY <1>1 DEF ProbeAt
<1>5. \A i, j \in Slots : ProbeAt(k, i) = ProbeAt(k, j) => i = j
  BY <1>1 DEF ProbeAt
<1>. QED
  BY <1>2, <1>3, <1>4, <1>5

\* A key is in one slot at most.
LEMMA Unique ==
  ASSUME NEW f \in Tables, WellPlaced(f),
         NEW x \in Slots, NEW y \in Slots, f[x] # NoKey, f[x] = f[y]
  PROVE  x = y
<1>1. f[x] \in Key
  BY DEF Tables
<1>2. PICK i \in Slots : x = ProbeAt(f[x], i) /\ Passes(f, f[x], i)
  BY DEF WellPlaced
<1>3. PICK j \in Slots : y = ProbeAt(f[x], j) /\ Passes(f, f[x], j)
  BY DEF WellPlaced
<1>4. i \in Nat /\ j \in Nat
  BY DEF Slots
<1>5. CASE i < j
  BY <1>2, <1>3, <1>4, <1>5 DEF Passes
<1>6. CASE j < i
  BY <1>2, <1>3, <1>4, <1>6 DEF Passes
<1>7. CASE i = j
  BY <1>2, <1>3, <1>7
<1>. QED
  BY <1>4, <1>5, <1>6, <1>7

\* The search for a key ends at its slot if it is in the table, so an empty
\* slot says that it is not, and is where it belongs.
LEMMA EndOfSearch ==
  ASSUME NEW f \in Tables, WellPlaced(f), NEW k \in Key, NEW i \in Slots, Passes(f, k, i),
         f[ProbeAt(k, i)] = NoKey
  PROVE  /\ \A x \in Slots : f[x] # k
         /\ WellPlaced([f EXCEPT ![ProbeAt(k, i)] = k])
<1> USE StateTableAssumption
<1> DEFINE a == ProbeAt(k, i)
           g == [f EXCEPT ![a] = k]
<1>1. a \in Slots /\ i \in Nat
  BY ProbeOrder DEF Slots
<1>2. ASSUME NEW x \in Slots, f[x] = k
      PROVE  FALSE
  <2>1. PICK j \in Slots : x = ProbeAt(k, j) /\ Passes(f, k, j)
    BY <1>2 DEF WellPlaced
  <2>2. j \in Nat
    BY DEF Slots
  <2>3. CASE j < i
    BY <1>1, <1>2, <2>1, <2>2, <2>3 DEF Passes
  <2>4. CASE i < j
    BY <1>1, <2>1, <2>2, <2>4 DEF Passes
  <2>5. CASE i = j
    BY <1>2, <2>1, <2>5
  <2>. QED
    BY <1>1, <2>2, <2>3, <2>4, <2>5
<1>3. \A x \in Slots : g[x] = IF x = a THEN k ELSE f[x]
  BY DEF Tables
<1>4. ASSUME NEW l \in Key, NEW j \in Slots, Passes(f, l, j), l = k => j = i
      PROVE  Passes(g, l, j)
  <2> SUFFICES ASSUME NEW n \in 0..(j - 1)
               PROVE  g[ProbeAt(l, n)] \notin {l, NoKey}
    BY DEF Passes
  <2>1. n \in Slots /\ n # j
    BY DEF Slots
  <2>2. ProbeAt(l, n) \in Slots
    BY <2>1, ProbeOrder
  <2>3. f[ProbeAt(l, n)] \notin {l, NoKey}
    BY <1>4 DEF Passes
  <2>. QED
    BY <1>3, <2>2, <2>3
<1>5. ASSUME NEW x \in Slots, g[x] # NoKey
      PROVE  \E j \in Slots : x = ProbeAt(g[x], j) /\ Passes(g, g[x], j)
  <2>1. CASE x = a
    <3>1. g[x] = k
      BY <1>3, <2>1
    <3>. QED
      BY <1>4, <2>1, <3>1
  <2>2. CASE x # a
    <3>1. g[x] = f[x] /\ f[x] \in Key /\ f[x] # k
      BY <1>2, <1>3, <1>5, <2>2 DEF Tables
    <3>2. PICK j \in Slots : x = ProbeAt(f[x], j) /\ Passes(f, f[x], j)
      BY <1>5, <3>1 DEF WellPlaced
    <3>. QED
      BY <1>4, <3>1, <3>2
  <2>. QED
    BY <2>1, <2>2
<1>6. WellPlaced(g)
  BY <1>5 DEF WellPlaced
<1>. QED
  BY <1>2, <1>6
------------------------------------------------------------------------------
(* The invariant.                                                           *)

W == Writer

\* The table as if the slot being rewritten had its new key already.
Keys == IF Rewriting THEN [key EXCEPT ![at[W]] = call[W].key] ELSE key

\* Nobody else is in a state_set.
OthersRead ==
  \A q \in Procs : q # W => pc[q] \notin Writing /\ (pc[q] = "probe" => call[q].op = "get")

\* The writer has passed other keys, and has stopped at its own or at none.
Searching ==
  pc[W] \in Writing \/ (pc[W] = "probe" /\ call[W].op = "set") =>
    \E i \in Slots : at[W] = ProbeAt(call[W].key, i) /\ Passes(Keys, call[W].key, i)

Stopped ==
  /\ pc[W] \in Writing => key[at[W]] \in {call[W].key, NoKey}
  /\ Rewriting => key[at[W]] = NoKey

\* Empty slots have version zero, and the new version is the next one.
Versions ==
  /\ \A x \in Slots : key[x] = NoKey => version[x] = 0
  /\ pc[W] = "clear" => ver[W] = version[at[W]] + 1

Placed == WellPlaced(Keys)

Inv == TypeOK /\ OthersRead /\ Placed /\ Searching /\ Stopped /\ Versions

LEMMA TheWriter ==
  ASSUME SingleWriter
  PROVE  /\ W \in Procs
         /\ \A q \in Procs : Writes[q] # {} => q = W
  BY DEF SingleWriter, W, Writer

LEMMA TableTypes ==
  ASSUME SingleWriter, TypeOK
  PROVE  key \in Tables /\ Keys \in Tables
<1>1. W \in Procs
  BY TheWriter
<1>2. CASE Rewriting
  <2>1. call[W].key \in Key
    BY <1>1, <1>2 DEF Rewriting, TypeOK, Writing, SetCall, W
  <2>. QED
    BY <1>2, <2>1 DEF Keys, TypeOK, Tables
<1>3. CASE ~Rewriting
  BY <1>3 DEF Keys, TypeOK, Tables
<1>. QED
  BY <1>2, <1>3

LEMMA InitialInv ==
  ASSUME SingleWriter, Init
  PROVE  Inv
<1>1. TypeOK
  BY StateTableAssumption DEF Init, TypeOK, Slots, Labels, Writing, Reading, Idle
<1>2. W \in Procs
  BY TheWriter
<1>3. pc[W] = "idle" /\ ~Rewriting /\ Keys = key
  BY <1>2 DEF Init, Rewriting, Keys, W
<1>. QED
  BY <1>1, <1>3 DEF Init, Inv, OthersRead, Placed, WellPlaced, Searching, Stopped, Versions, Writing

\* Steps that write no slot, while the writer stays in its call or ends it.
LEMMA ReadingSteps ==
  ASSUME Inv, TypeOK', OthersRead', key' = key, version' = version,
         \/ pc'[W] = "idle"
         \/ /\ at'[W] = at[W] /\ call'[W] = call[W] /\ ver'[W] = ver[W]
            /\ pc'[W] = pc[W] \/ pc'[W] \notin Writing \union {"probe"}
         \/ /\ at'[W] = at[W] /\ call'[W] = call[W] /\ ver'[W] = ver[W]
            /\ pc[W] \in Writing \ {"fill"} /\ pc'[W] \in Writing \ {"clear", "fill"}
         \/ /\ at'[W] = at[W] /\ call'[W] = call[W]
            /\ pc[W] = "version" /\ pc'[W] = "clear" /\ ver'[W] = version[at[W]] + 1,
         ~Rewriting \/ pc'[W] = "fill"
  PROVE  Inv'
<1>1. Rewriting' = Rewriting /\ (Rewriting => at'[W] = at[W] /\ call'[W] = call[W])
  BY DEF Rewriting, W, Writing
<1>2. Keys' = Keys
  BY <1>1 DEF Keys
<1>3. Placed'
  BY <1>2 DEF Inv, Placed, WellPlaced, Passes, ProbeAt
<1>4. Searching'
  BY <1>2 DEF Inv, Searching, Passes, ProbeAt, Writing
<1>5. Stopped'
  BY <1>1 DEF Inv, Stopped, Rewriting, Writing, W
<1>6. Versions'
  BY DEF Inv, Versions, Writing
<1>. QED
  BY <1>3, <1>4, <1>5, <1>6 DEF Inv

\* The other processes only read.
LEMMA OtherSteps ==
  ASSUME SingleWriter, Inv, NEW q \in Procs, q # W, Step(q)
  PROVE  /\ OthersRead'
         /\ key' = key /\ value' = value /\ version' = version
         /\ pc'[W] = pc[W] /\ at'[W] = at[W] /\ call'[W] = call[W] /\ ver'[W] = ver[W]
<1>1. Writes[q] = {}
  BY TheWriter
<1>2. pc[q] \notin Writing /\ (pc[q] = "probe" => call[q].op = "get")
  BY DEF Inv, OthersRead
<1>3. CASE BeginGet(q)
  <2>1. PICK c \in GetCall : Begin(q, c)
    BY <1>3 DEF BeginGet, GetCall
  <2>. QED
    BY <2>1, TheWriter DEF Begin, Goto, table, Inv, OthersRead, TypeOK, GetCall, Writing
<1>4. CASE ProbeHit(q) \/ ProbeNext(q) \/ ProbeFull(q) \/ CheckKey(q) \/ ReadValue(q)
  BY <1>2, <1>4, TheWriter
     DEF ProbeHit, ProbeNext, ProbeFull, CheckKey, ReadValue, Return, Goto, table, Inv, OthersRead,
         TypeOK, Writing
<1>. QED
  BY <1>1, <1>2, <1>3, <1>4
     DEF Step, InCall, BeginSet, LockFree, LockGiveUp, LockZero, LockTake, ReadVersion, ClearSlot,
         FillSlot, Writing

LEMMA OthersStay ==
  ASSUME SingleWriter, Inv, Step(W)
  PROVE  OthersRead'
<1>1. \A q \in Procs : q # W => pc'[q] = pc[q] /\ call'[q] = call[q]
  BY TheWriter DEF Step, InCall, BeginSet, BeginGet, Begin, ProbeHit, ProbeNext, ProbeFull, LockFree,
     LockGiveUp, LockZero, LockTake, ReadVersion, ClearSlot, FillSlot, CheckKey, ReadValue, Return,
     Goto, Inv, TypeOK
<1>. QED
  BY <1>1 DEF Inv, OthersRead

\* A call of the writer begins at the home of its key.
LEMMA BeginSteps ==
  ASSUME SingleWriter, Inv, TypeOK', OthersRead', NEW c \in SetCall \union GetCall, Begin(W, c)
  PROVE  Inv'
<1>1. /\ pc[W] = "idle" /\ pc'[W] = "probe" /\ call'[W] = c /\ at'[W] = Home[c.key]
      /\ key' = key /\ version' = version /\ ver' = ver /\ c.key \in Key
  BY TheWriter DEF Begin, Goto, table, Inv, TypeOK, SetCall, GetCall
<1>2. Keys' = key /\ Keys = key /\ ~Rewriting'
  BY <1>1 DEF Keys, Rewriting, W
<1>3. Placed'
  BY <1>1, <1>2 DEF Inv, Placed, WellPlaced, Passes, ProbeAt
<1>4. Searching'
  <2>1. /\ 0 \in Slots /\ at'[W] = ProbeAt(call'[W].key, 0)
        /\ Passes(Keys', call'[W].key, 0)
    BY <1>1, ProbeOrder DEF Passes
  <2>. QED
    BY <2>1 DEF Searching, Passes, ProbeAt
<1>5. Stopped' /\ Versions'
  BY <1>1, <1>2 DEF Inv, Stopped, Versions, Writing
<1>. QED
  BY <1>3, <1>4, <1>5 DEF Inv

\* It looks at the next slot when it has passed the one it is at.
LEMMA NextSlot ==
  ASSUME SingleWriter, Inv, TypeOK', OthersRead', ProbeNext(W)
  PROVE  Inv'
<1> DEFINE k == call[W].key
<1>1. /\ pc[W] = "probe" /\ pc' = pc /\ call' = call /\ ver' = ver
      /\ key' = key /\ version' = version
      /\ Successor(at[W]) # Home[k] /\ at'[W] = Successor(at[W])
      /\ key[at[W]] \notin {k, NoKey} /\ at[W] \in Slots /\ k \in Key
  BY TheWriter DEF ProbeNext, Matches, table, Inv, TypeOK, SetCall, GetCall
<1>2. Keys' = key /\ Keys = key /\ ~Rewriting'
  BY <1>1 DEF Keys, Rewriting, W
<1>3. Placed'
  BY <1>1, <1>2 DEF Inv, Placed, WellPlaced, Passes, ProbeAt
<1>4. Searching'
  <2> SUFFICES ASSUME call[W].op = "set"
               PROVE  \E i \in Slots : at'[W] = ProbeAt(k, i) /\ Passes(key, k, i)
    BY <1>1, <1>2 DEF Searching, Writing, Passes, ProbeAt
  <2>1. PICK i \in Slots : at[W] = ProbeAt(k, i) /\ Passes(key, k, i)
    BY <1>1, <1>2 DEF Inv, Searching
  <2>2. i + 1 \in Slots /\ at'[W] = ProbeAt(k, i + 1)
    BY <1>1, <2>1, ProbeOrder
  <2>3. \A j \in 0..i : j \in 0..(i - 1) \/ j = i
    BY DEF Slots
  <2>4. (i + 1) - 1 = i
    BY DEF Slots
  <2>5. Passes(key, k, i + 1)
    BY <1>1, <2>1, <2>3, <2>4 DEF Passes
  <2>. QED
    BY <2>2, <2>5
<1>5. Stopped' /\ Versions'
  BY <1>1, <1>2 DEF Inv, Stopped, Versions, Writing
<1>. QED
  BY <1>3, <1>4, <1>5 DEF Inv

\* It stops at its key or at an empty slot, and goes on to the lock or reads.
LEMMA Hit ==
  ASSUME SingleWriter, Inv, TypeOK', OthersRead', ProbeHit(W)
  PROVE  Inv'
<1>1. /\ pc[W] = "probe" /\ call' = call /\ ver' = ver /\ at' = at
      /\ key' = key /\ version' = version
      /\ pc'[W] = IF call[W].op = "set" THEN "lock" ELSE "check"
      /\ key[at[W]] \in {call[W].key, NoKey}
  BY TheWriter DEF ProbeHit, Matches, table, Goto, Inv, TypeOK
<1>2. Keys' = key /\ Keys = key /\ ~Rewriting'
  BY <1>1 DEF Keys, Rewriting, W
<1>3. Placed'
  BY <1>1, <1>2 DEF Inv, Placed, WellPlaced, Passes, ProbeAt
<1>4. Searching'
  BY <1>1, <1>2 DEF Inv, Searching, Writing, Passes, ProbeAt
<1>5. Stopped' /\ Versions'
  BY <1>1, <1>2 DEF Inv, Stopped, Versions, Writing
<1>. QED
  BY <1>3, <1>4, <1>5 DEF Inv

\* The rest of a call that writes no slot.
LEMMA QuietCall ==
  ASSUME SingleWriter, Inv, TypeOK', OthersRead',
         \/ ProbeFull(W) \/ LockFree(W) \/ LockGiveUp(W) \/ LockZero(W) \/ LockTake(W)
         \/ ReadVersion(W) \/ CheckKey(W) \/ ReadValue(W)
  PROVE  Inv'
<1>1. key' = key /\ version' = version /\ at' = at /\ call' = call
  BY DEF ProbeFull, LockFree, LockGiveUp, LockZero, LockTake, ReadVersion, CheckKey, ReadValue,
         Return, table
<1>2. ~Rewriting
  BY DEF ProbeFull, LockFree, LockGiveUp, LockZero, LockTake, ReadVersion, CheckKey, ReadValue,
         Rewriting, W
<1>3. CASE ReadVersion(W)
  <2>1. pc[W] = "version" /\ pc'[W] = "clear" /\ ver'[W] = version[at[W]] + 1
    BY <1>3, TheWriter DEF ReadVersion, NextVersion, Goto, Inv, TypeOK
  <2>. QED
    BY <1>1, <1>2, <2>1, ReadingSteps
<1>4. CASE LockFree(W) \/ LockZero(W) \/ LockTake(W)
  <2>1. /\ pc[W] \in Writing \ {"fill"} /\ pc'[W] \in Writing \ {"clear", "fill"}
        /\ ver'[W] = ver[W]
    BY <1>4, TheWriter DEF LockFree, LockZero, LockTake, Goto, Writing, Inv, TypeOK
  <2>. QED
    BY <1>1, <1>2, <2>1, ReadingSteps
<1>5. CASE ProbeFull(W) \/ LockGiveUp(W) \/ CheckKey(W) \/ ReadValue(W)
  <2>1. pc'[W] \notin Writing \union {"probe"} /\ ver' = ver
    BY <1>5, TheWriter DEF ProbeFull, LockGiveUp, CheckKey, ReadValue, Return, Goto, Writing, Inv,
                           TypeOK
  <2>. QED
    BY <1>1, <1>2, <2>1, ReadingSteps
<1>. QED
  BY <1>3, <1>4, <1>5

\* The slot is cleared: it counts as holding the key from now on.
LEMMA Clearing ==
  ASSUME SingleWriter, Inv, TypeOK', OthersRead', ClearSlot(W)
  PROVE  /\ Inv'
         /\ Keys' = [key EXCEPT ![at[W]] = call[W].key]
         /\ \A x \in Slots : x # at[W] => key[x] # call[W].key
<1> DEFINE k == call[W].key
           a == at[W]
<1>1. /\ pc[W] = "clear" /\ pc'[W] = "fill" /\ call' = call /\ ver' = ver /\ at' = at
      /\ key' = [key EXCEPT ![a] = NoKey] /\ version' = [version EXCEPT ![a] = 0]
      /\ a \in Slots /\ k \in Key /\ key[a] \in {k, NoKey}
  BY TheWriter DEF ClearSlot, Goto, Inv, TypeOK, Writing, SetCall, Stopped
<1>2. /\ Keys = key /\ Rewriting' /\ key \in Tables
      /\ Keys' = [key EXCEPT ![a] = k]
  BY <1>1, TableTypes DEF Keys, Rewriting, W, Inv, Tables
<1>3. PICK i \in Slots : a = ProbeAt(k, i) /\ Passes(key, k, i)
  BY <1>1, <1>2 DEF Inv, Searching, Writing
<1>4. WellPlaced(key)
  BY <1>2 DEF Inv, Placed
<1>5. WellPlaced([key EXCEPT ![a] = k]) /\ \A x \in Slots : x # a => key[x] # k
  <2>1. CASE key[a] = k
    <3>1. [key EXCEPT ![a] = k] = key
      BY <1>2, <2>1 DEF Tables
    <3>2. k # NoKey
      BY <1>1, StateTableAssumption
    <3>. QED
      BY <1>1, <1>2, <1>4, <2>1, <3>1, <3>2, Unique
  <2>2. CASE key[a] = NoKey
    BY <1>1, <1>2, <1>3, <1>4, <2>2, EndOfSearch
  <2>. QED
    BY <1>1, <2>1, <2>2
<1>6. Placed'
  BY <1>2, <1>5 DEF Placed, WellPlaced, Passes, ProbeAt
<1>7. Searching'
  <2>1. Passes([key EXCEPT ![a] = k], k, i)
    <3>1. \A j \in 0..(i - 1) : j \in Slots /\ j # i
      BY StateTableAssumption DEF Slots
    <3>2. \A j \in 0..(i - 1) : ProbeAt(k, j) \in Slots /\ ProbeAt(k, j) # a
      BY <1>1, <1>3, <3>1, ProbeOrder
    <3>. QED
      BY <1>2, <1>3, <3>2 DEF Passes, Tables
  <2>. QED
    BY <1>1, <1>2, <1>3, <2>1 DEF Searching, Passes, ProbeAt
<1>8. Stopped' /\ Versions'
  BY <1>1 DEF Inv, Stopped, Versions, TypeOK
<1>. QED
  BY <1>2, <1>5, <1>6, <1>7, <1>8 DEF Inv

LEMMA Filling ==
  ASSUME SingleWriter, Inv, TypeOK', OthersRead', FillSlot(W)
  PROVE  Inv' /\ Keys' = Keys /\ key' = Keys
<1>1. /\ pc[W] = "fill" /\ pc'[W] = "idle" /\ at[W] \in Slots /\ call[W].key \in Key
      /\ key' = [key EXCEPT ![at[W]] = call[W].key]
      /\ version' = [version EXCEPT ![at[W]] = ver[W]]
  BY TheWriter DEF FillSlot, Goto, Inv, TypeOK, Writing, SetCall
<1>2. Keys' = Keys /\ key' = Keys
  BY <1>1 DEF Keys, Rewriting, W
<1>3. Placed'
  BY <1>2 DEF Inv, Placed, WellPlaced, Passes, ProbeAt
<1>4. Searching' /\ Stopped'
  BY <1>1 DEF Searching, Stopped, Writing, Rewriting, W
<1>5. Versions'
  <2>1. call[W].key # NoKey
    BY <1>1, StateTableAssumption
  <2>. QED
    BY <1>1, <2>1 DEF Inv, Versions, TypeOK
<1>. QED
  BY <1>2, <1>3, <1>4, <1>5 DEF Inv

LEMMA NextInv ==
  ASSUME SingleWriter, Inv, [Next]_vars
  PROVE  Inv' /\ TypeOK'
<1>1. TypeOK'
  <2>1. TypeOK /\ [CrashNext]_vars
    BY DEF Inv, Next, CrashNext
  <2>. QED
    BY <2>1, NextTypes
<1>2. CASE UNCHANGED vars
  <2>1. /\ key' = key /\ version' = version /\ pc' = pc /\ at' = at /\ call' = call /\ ver' = ver
    BY <1>2 DEF vars
  <2>2. Keys' = Keys /\ Rewriting' = Rewriting
    BY <2>1 DEF Keys, Rewriting
  <2>. QED
    BY <1>1, <2>1, <2>2 DEF Inv, OthersRead, Placed, WellPlaced, Searching, Stopped, Versions, Passes,
                            ProbeAt
<1>3. ASSUME NEW q \in Procs, q # W, Step(q)
      PROVE  Inv'
  BY <1>1, <1>3, OtherSteps, ReadingSteps DEF Rewriting, W
<1>4. CASE Step(W)
  <2>1. OthersRead'
    BY <1>4, OthersStay
  <2>2. CASE BeginSet(W) \/ BeginGet(W)
    <3>1. PICK c \in SetCall \union GetCall : Begin(W, c)
      BY <2>2, TheWriter, StateTableAssumption DEF BeginSet, BeginGet, SetCall, GetCall
    <3>. QED
      BY <1>1, <2>1, <3>1, BeginSteps
  <2>. QED
    BY <1>1, <1>4, <2>1, <2>2, NextSlot, Hit, QuietCall, Clearing, Filling DEF Step, InCall
<1>. QED
  BY <1>1, <1>2, <1>3, <1>4 DEF Next
------------------------------------------------------------------------------
(* The map.                                                                 *)

LEMMA Found ==
  ASSUME NEW f, NEW j, \E x \in Slots : f[x] = j
  PROVE  (CHOOSE x \in Slots : f[x] = j) \in Slots /\ f[CHOOSE x \in Slots : f[x] = j] = j
  OBVIOUS

\* As long as nothing is written, the map stays.
LEMMA SameEntries ==
  ASSUME key' = key, value' = value, version' = version, Rewriting' = Rewriting,
         Rewriting => call'[W] = call[W] /\ ver'[W] = ver[W]
  PROVE  Entries' = Entries
<1>1. Present' = Present
  BY DEF Present, W
<1>2. \A k : SlotOf(k)' = SlotOf(k)
  BY DEF SlotOf
<1>. QED
  BY <1>1, <1>2 DEF Entries, W

\* Filling the slot gives the table what the map had already.
LEMMA FillEntries ==
  ASSUME SingleWriter, Inv, Inv', FillSlot(W), Keys' = Keys, key' = Keys
  PROVE  Entries' = Entries
<1>0. PICK k, a : k = call[W].key /\ a = at[W]
  OBVIOUS
<1>1. /\ Rewriting /\ ~Rewriting' /\ a \in Slots /\ k \in Key
      /\ key' = [key EXCEPT ![a] = k] /\ key[a] = NoKey
      /\ value' = [value EXCEPT ![a] = call[W].value]
      /\ version' = [version EXCEPT ![a] = ver[W]]
  BY <1>0, TheWriter DEF FillSlot, Goto, Inv, TypeOK, Writing, SetCall, Stopped, Rewriting, W
<1>2. key' \in Tables /\ WellPlaced(key') /\ key \in Tables /\ k # NoKey
  BY <1>1, TableTypes, StateTableAssumption DEF Inv, Placed
<1>3. \A x \in Slots : key'[x] = IF x = a THEN k ELSE key[x]
  BY <1>1, <1>2 DEF Tables
<1>4. Present' = Present
  <2>1. Present = ({key[x] : x \in Slots} \ {NoKey}) \union {k}
    BY <1>0, <1>1 DEF Present, W
  <2>2. Present' = {key'[x] : x \in Slots} \ {NoKey}
    BY <1>1 DEF Present
  <2>. QED
    BY <1>1, <1>2, <1>3, <2>1, <2>2
<1>5. SlotOf(k)' = a
  <2>1. SlotOf(k)' \in Slots /\ key'[SlotOf(k)'] = k
    BY <1>1, <1>3, Found DEF SlotOf
  <2>. QED
    BY <1>1, <1>2, <1>3, <2>1, Unique
<1>6. ASSUME NEW j \in Present, j # k
      PROVE  SlotOf(j)' = SlotOf(j) /\ SlotOf(j) \in Slots /\ SlotOf(j) # a
  <2>1. j # NoKey /\ \E x \in Slots : key[x] = j
    BY <1>0, <1>1, <1>2, <1>6 DEF Present, W
  <2>2. SlotOf(j) \in Slots /\ key[SlotOf(j)] = j
    BY <2>1, Found DEF SlotOf
  <2>3. SlotOf(j) # a /\ key'[SlotOf(j)] = j
    BY <1>1, <1>3, <2>1, <2>2
  <2>4. SlotOf(j)' \in Slots /\ key'[SlotOf(j)'] = j
    BY <2>2, <2>3, Found DEF SlotOf
  <2>. QED
    BY <1>2, <2>1, <2>2, <2>3, <2>4, Unique
<1>7. Entries = [j \in Present |-> IF j = k THEN [value |-> call[W].value, version |-> ver[W]]
                                   ELSE [value |-> value[SlotOf(j)], version |-> version[SlotOf(j)]]]
  BY <1>0, <1>1 DEF Entries, W
<1>8. Entries' = [j \in Present |-> [value |-> value'[SlotOf(j)'], version |-> version'[SlotOf(j)']]]
  BY <1>1, <1>4 DEF Entries
<1>9. value'[a] = call[W].value /\ version'[a] = ver[W]
  BY <1>1 DEF Inv, TypeOK
<1>10. \A x \in Slots : x # a => value'[x] = value[x] /\ version'[x] = version[x]
  BY <1>1 DEF Inv, TypeOK
<1>. QED
  BY <1>5, <1>6, <1>7, <1>8, <1>9, <1>10

\* There is room for a new key when a slot is empty.
LEMMA Room ==
  ASSUME NEW f \in Tables, NEW a \in Slots, f[a] = NoKey
  PROVE  Cardinality({f[x] : x \in Slots} \ {NoKey}) < Size
<1> DEFINE S == {x \in Slots : f[x] # NoKey}
           T == {f[x] : x \in Slots} \ {NoKey}
           g == [x \in S |-> f[x]]
<1>1. IsFiniteSet(Slots) /\ Cardinality(Slots) = Size
  BY FS_Interval, StateTableAssumption DEF Slots
<1>2. IsFiniteSet(Slots \ {a}) /\ Cardinality(Slots \ {a}) = Size - 1
  BY <1>1, FS_RemoveElement
<1>3. IsFiniteSet(S) /\ Cardinality(S) <= Size - 1 /\ Cardinality(S) \in Nat
  <2>1. S \in SUBSET (Slots \ {a})
    OBVIOUS
  <2>. QED
    BY <1>2, <2>1, FS_Subset, FS_CardinalityType
<1>4. g \in Surjection(S, T)
  BY DEF Surjection
<1>5. IsFiniteSet(T) /\ Cardinality(T) <= Cardinality(S)
  <2> HIDE DEF S, T, g
  <2>. QED
    BY <1>3, <1>4, FS_Surjection
<1>6. Cardinality(T) \in Nat
  BY <1>5, FS_CardinalityType
<1>. QED
  BY <1>3, <1>5, <1>6, StateTableAssumption

\* Clearing the slot is where the map takes the new value.
LEMMA ClearEntries ==
  ASSUME SingleWriter, Inv, Inv', ClearSlot(W), \A x \in Slots : x # at[W] => key[x] # call[W].key
  PROVE  Map!Put(call[W].key, call[W].value) /\ call[W].key \in Key /\ call[W].value \in Value
<1>0. PICK k, v, a : k = call[W].key /\ v = call[W].value /\ a = at[W]
  OBVIOUS
<1>1. /\ ~Rewriting /\ Rewriting' /\ a \in Slots /\ k \in Key /\ v \in Value
      /\ key' = [key EXCEPT ![a] = NoKey] /\ key[a] \in {k, NoKey}
      /\ value' = [value EXCEPT ![a] = Blank] /\ version' = [version EXCEPT ![a] = 0]
      /\ call' = call /\ ver' = ver /\ ver[W] = version[a] + 1 /\ version[a] \in Nat
  BY <1>0, TheWriter
     DEF ClearSlot, Goto, Inv, TypeOK, Writing, SetCall, Stopped, Rewriting, Versions, W
<1>2. key \in Tables /\ WellPlaced(key) /\ k # NoKey
  BY <1>1, TableTypes, StateTableAssumption DEF Inv, Placed, Keys
<1>3. \A x \in Slots : key'[x] = IF x = a THEN NoKey ELSE key[x]
  BY <1>1, <1>2 DEF Tables
<1>4. Present = {key[x] : x \in Slots} \ {NoKey}
  BY <1>1 DEF Present
<1>5. Present' = Present \union {k}
  <2>1. Present' = ({key'[x] : x \in Slots} \ {NoKey}) \union {k}
    BY <1>0, <1>1 DEF Present, W
  <2>. QED
    BY <1>1, <1>2, <1>3, <1>4, <2>1
<1>6. Entries = [j \in Present |-> [value |-> value[SlotOf(j)], version |-> version[SlotOf(j)]]]
  BY <1>1 DEF Entries
<1>7. Entries' = [j \in Present \union {k} |->
                    IF j = k THEN [value |-> v, version |-> ver[W]]
                    ELSE [value |-> value'[SlotOf(j)'], version |-> version'[SlotOf(j)']]]
  BY <1>0, <1>1, <1>5 DEF Entries, W
<1>8. ASSUME NEW j \in Present, j # k
      PROVE  value'[SlotOf(j)'] = value[SlotOf(j)] /\ version'[SlotOf(j)'] = version[SlotOf(j)]
  <2>1. j # NoKey /\ \E x \in Slots : key[x] = j
    BY <1>4
  <2>2. SlotOf(j) \in Slots /\ key[SlotOf(j)] = j
    BY <2>1, Found DEF SlotOf
  <2>3. SlotOf(j) # a /\ key'[SlotOf(j)] = j
    BY <1>0, <1>1, <1>3, <1>8, <2>1, <2>2
  <2>4. SlotOf(j)' \in Slots /\ key'[SlotOf(j)'] = j
    BY <2>2, <2>3, Found DEF SlotOf
  <2>5. SlotOf(j)' # a /\ key[SlotOf(j)'] = j
    BY <1>3, <2>1, <2>4
  <2>6. SlotOf(j)' = SlotOf(j)
    BY <1>2, <2>1, <2>2, <2>4, <2>5, Unique
  <2>. QED
    BY <1>1, <2>2, <2>3, <2>6 DEF Inv, TypeOK
<1>9. Map!OldVersion(k) = version[a]
  <2>1. CASE key[a] = k
    <3>1. SlotOf(k) \in Slots /\ key[SlotOf(k)] = k
      BY <1>1, <2>1, Found DEF SlotOf
    <3>2. SlotOf(k) = a
      BY <1>1, <1>2, <2>1, <3>1, Unique
    <3>3. k \in Present
      BY <1>1, <1>2, <1>4, <2>1
    <3>. QED
      BY <1>6, <3>2, <3>3 DEF Map!OldVersion
  <2>2. CASE key[a] = NoKey
    <3>1. k \notin Present
      BY <1>0, <1>2, <1>4, <2>2
    <3>2. version[a] = 0
      BY <1>1, <2>2 DEF Inv, Versions
    <3>. QED
      BY <1>6, <3>1, <3>2 DEF Map!OldVersion
  <2>. QED
    BY <1>1, <2>1, <2>2
<1>10. DOMAIN Entries = Present
  BY <1>6
<1>11. k \in Present \/ Cardinality(Present) < Size
  <2>1. CASE key[a] = k
    BY <1>1, <1>2, <1>4, <2>1
  <2>2. CASE key[a] = NoKey
    BY <1>1, <1>2, <1>4, <2>2, Room
  <2>. QED
    BY <1>1, <2>1, <2>2
<1>12. Entries' = [j \in DOMAIN Entries \union {k} |->
                     IF j = k THEN [value |-> v, version |-> Map!OldVersion(k) + 1]
                     ELSE Entries[j]]
  BY <1>1, <1>6, <1>7, <1>8, <1>9, <1>10
<1>13. Map!Put(k, v)
  <2>1. Map!Cardinality(Present) = Cardinality(Present)
    BY DEF Map!Cardinality, Cardinality
  <2>. QED
    BY <1>10, <1>11, <1>12, <2>1 DEF Map!Put
<1>. QED
  BY <1>0, <1>1, <1>13

\* Every step of the table is a step of the map or changes nothing in it.
LEMMA MapSteps ==
  ASSUME SingleWriter, Inv, Inv', [Next]_vars
  PROVE  [Map!Next]_Entries
<1>1. ASSUME NEW q \in Procs, q # W, Step(q)
      PROVE  Entries' = Entries
  BY <1>1, OtherSteps, SameEntries DEF Rewriting, W
<1>2. CASE UNCHANGED vars
  BY <1>2, SameEntries DEF vars, Rewriting
<1>3. CASE FillSlot(W)
  BY <1>3, FillEntries, Filling DEF Inv
<1>4. CASE ClearSlot(W)
  BY <1>4, ClearEntries, Clearing DEF Inv, Map!Next
<1>5. CASE Step(W) /\ ~FillSlot(W) /\ ~ClearSlot(W)
  <2>1. key' = key /\ value' = value /\ version' = version
    BY <1>5 DEF Step, InCall, BeginSet, BeginGet, Begin, ProbeHit, ProbeNext, ProbeFull, LockFree,
       LockGiveUp, LockZero, LockTake, ReadVersion, CheckKey, ReadValue, Return, table
  <2>2. ~Rewriting /\ Rewriting' = Rewriting
    BY <1>5, TheWriter DEF Step, InCall, BeginSet, BeginGet, Begin, ProbeHit, ProbeNext, ProbeFull,
       LockFree, LockGiveUp, LockZero, LockTake, ReadVersion, CheckKey, ReadValue, Return, Goto,
       Rewriting, W, Inv, TypeOK
  <2>. QED
    BY <2>1, <2>2, SameEntries
<1>. QED
  BY <1>1, <1>2, <1>3, <1>4, <1>5 DEF Next

LEMMA MapInit ==
  ASSUME SingleWriter, Init
  PROVE  Map!Init
<1>1. ~Rewriting
  BY TheWriter DEF Init, Rewriting, W
<1>2. Present = {}
  BY <1>1 DEF Init, Present
<1>3. Entries = [k \in {} |-> {}]
  BY <1>2 DEF Entries
<1>. QED
  BY <1>3 DEF Map!Init

LEMMA Invariant ==
  ASSUME SingleWriter
  PROVE  Spec => []Inv
<1>1. Init => Inv
  BY InitialInv
<1>2. Inv /\ [Next]_vars => Inv'
  BY NextInv
<1>. QED
  BY <1>1, <1>2, PTL DEF Spec

\* fabric.py, _slot and state_set: a key is in one slot, whatever keys were
\* stored on the way there.
THEOREM OneSlot ==
  ASSUME SingleWriter
  PROVE  Spec => []OneSlotPerKey
<1>1. Inv => OneSlotPerKey
  <2> SUFFICES ASSUME Inv, NEW x \in Slots, NEW y \in Slots, key[x] # NoKey, key[x] = key[y]
               PROVE  x = y
    BY DEF OneSlotPerKey
  <2>1. Keys \in Tables /\ WellPlaced(Keys)
    BY TableTypes DEF Inv, Placed
  <2>2. Keys[x] = key[x] /\ Keys[y] = key[y]
    BY TheWriter DEF Keys, Inv, Stopped, TypeOK
  <2>. QED
    BY <2>1, <2>2, Unique
<1>. QED
  BY <1>1, Invariant, PTL

\* fabric.py, state_set and state_get: linear probing with one writer is a map
\* of at most Size keys that forgets none and counts the writes of each.
THEOREM ProbingIsMap ==
  ASSUME SingleWriter
  PROVE  Spec => ImplementsMap
<1>1. Init => Map!Init
  BY MapInit
<1>2. Inv /\ Inv' /\ [Next]_vars => [Map!Next]_Entries
  BY MapSteps
<1>. QED
  BY <1>1, <1>2, Invariant, PTL DEF Spec, ImplementsMap, Map!Spec
=============================================================================

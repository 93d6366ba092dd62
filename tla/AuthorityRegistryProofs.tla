------------------------ MODULE AuthorityRegistryProofs ------------------------
(***************************************************************************)
(* Theorems about AuthorityRegistry and its anchor, for every set of       *)
(* registries, files, processes, consents and executions, and whatever     *)
(* crashes, lost answers, failed commits and copied files there are.       *)
(***************************************************************************)
EXTENDS AuthorityRegistry, TLAPS

FileRows   == [state : FileStates, cp : Checkpoints,
               grants : [Grants -> GrantStates], slots : [Keys -> SlotStates]]
HandleRows == [pc : Points, cp : Checkpoints,
               job : Grants \cup Keys \cup {NoJob}, awaiting : SUBSET Keys]

LEMMA TypeInit == Init => TypeOK
  BY RegistryAssumption
  DEF Init, AnchorInit, TypeOK, AnchorTypeOK, Unregistered, Checkpoints, NoFile, FileStates,
      GrantStates, SlotStates, Unopened, Points

--------------------------------------------------------------------------------
(* Types: the anchor's rows, then a handle's and a file's.                  *)

LEMMA HandleRegistry ==
  ASSUME NEW h \in Handles
  PROVE  R(h) \in Registries /\ FileOf[h] \in Files /\ SessionOf[h] \in Sessions
  BY RegistryAssumption DEF R

LEMMA AppendTypes ==
  ASSUME AnchorTypeOK, NEW r \in Registries, NEW s \in Sessions \cup {NoSession},
         NEW t \in Nat, Append(r, s, t)
  PROVE  anchor' \in [Registries -> Checkpoints]
  BY DEF AnchorTypeOK, Append, Checkpoints

LEMMA UnopenedTypes == Unopened \in HandleRows /\ Closed \in HandleRows
  BY DEF Unopened, Closed, HandleRows, Points, Checkpoints, Unregistered

LEMMA GotoTypes ==
  ASSUME TypeOK, NEW h \in Handles, NEW pc \in Points,
         \/ Goto(h, pc)
         \/ \E job \in Grants \cup Keys \cup {NoJob} : GotoWith(h, pc, job)
         \/ AnchorTypeOK' /\ Received(h, pc)
         \/ Close(h)
  PROVE  handles' \in [Handles -> HandleRows]
<1>1. handles \in [Handles -> HandleRows] /\ handles[h] \in HandleRows
  BY DEF TypeOK, HandleRows
<1>2. File(h).cp \in Checkpoints
  BY HandleRegistry DEF File, TypeOK
<1>3. CASE Goto(h, pc)
  BY <1>1, <1>3 DEF Goto, HandleRows
<1>4. ASSUME NEW job \in Grants \cup Keys \cup {NoJob}, GotoWith(h, pc, job)
      PROVE  handles' \in [Handles -> HandleRows]
  BY <1>1, <1>2, <1>4 DEF GotoWith, HandleRows
<1>5. CASE AnchorTypeOK' /\ Received(h, pc)
  BY <1>1, <1>5, HandleRegistry DEF Received, HandleRows, AnchorTypeOK
<1>6. CASE Close(h)
  BY <1>1, <1>6, UnopenedTypes DEF Close
<1>7. QED
  BY <1>3, <1>4, <1>5, <1>6

LEMMA WriteTypes ==
  ASSUME TypeOK, NEW h \in Handles, NEW row \in FileRows, Write(h, row)
  PROVE  files' \in [Files -> FileRows]
  BY DEF TypeOK, Write, FileRows

--------------------------------------------------------------------------------
(* What the anchor is asked.                                                *)

\* A consent that registry r claimed allows the slot.
Owned(r, k, C) == \E g \in C : RegistryOf[g] = r /\ k \in KeysOf(g)

Prior(k, A) == \A i \in 1..(k[2] - 1) : <<k[1], i>> \in A

\* Beyond the anchor's own checks, a registry's processes call it only with what
\* is theirs, and claim, consume and release only in a session.
AnchorStep ==
    \/ UNCHANGED anchorVars
    \/ \E r \in Registries :
          \/ RegisterRegistry(r)
          \/ \E cp \in Checkpoints :
                \/ \E s \in Sessions : AcquireSession(r, cp, s)
                \/ /\ cp.session # NoSession
                   /\ \/ \E g \in Grants : RegistryOf[g] = r /\ ClaimAuthorization(r, cp, g)
                      \/ \E k \in Keys : Owned(r, k, claimed) /\ ConsumeSlot(r, cp, k)
                      \/ ReleaseSession(r, cp)

\* A registry without events has no session.
Registered == \A r \in Registries : anchor[r].sequence = 0 => anchor[r] = Unregistered

LEMMA AnchorStepKeeps ==
  ASSUME AnchorTypeOK, Registered, AnchorStep
  PROVE  /\ AnchorTypeOK' /\ Registered'
         /\ claimed \subseteq claimed' /\ consumed \subseteq consumed'
<1>1. CASE UNCHANGED anchorVars
  BY <1>1 DEF anchorVars, AnchorTypeOK, Registered
<1>2. ASSUME NEW r \in Registries, NEW s \in Sessions \cup {NoSession}, NEW t \in Nat,
             Append(r, s, t)
      PROVE  anchor' \in [Registries -> Checkpoints] /\ Registered'
  <2>1. anchor' \in [Registries -> Checkpoints]
    BY <1>2, AppendTypes
  <2>2. anchor'[r].sequence # 0 /\ \A q \in Registries : q # r => anchor'[q] = anchor[q]
    BY <1>2 DEF Append, AnchorTypeOK, Checkpoints
  <2>3. QED
    BY <2>1, <2>2 DEF Registered
<1>3. ASSUME NEW r \in Registries, RegisterRegistry(r)
      PROVE  AnchorTypeOK' /\ Registered' /\ UNCHANGED <<claimed, consumed>>
  BY <1>2, <1>3 DEF RegisterRegistry, AnchorTypeOK
<1>4. ASSUME NEW r \in Registries, NEW cp \in Checkpoints, NEW s \in Sessions,
             AcquireSession(r, cp, s)
      PROVE  AnchorTypeOK' /\ Registered' /\ UNCHANGED <<claimed, consumed>>
  <2>1. anchor[r].token + 1 \in Nat
    BY DEF AnchorTypeOK, Checkpoints
  <2>2. QED
    BY <1>2, <1>4, <2>1 DEF AcquireSession, AnchorTypeOK
<1>5. ASSUME NEW r \in Registries, NEW cp \in Checkpoints, NEW g \in Grants,
             ClaimAuthorization(r, cp, g)
      PROVE  /\ AnchorTypeOK' /\ Registered'
             /\ claimed \subseteq claimed' /\ consumed \subseteq consumed'
  BY <1>2, <1>5 DEF ClaimAuthorization, AnchorTypeOK, Checkpoints
<1>6. ASSUME NEW r \in Registries, NEW cp \in Checkpoints, NEW k \in Keys,
             ConsumeSlot(r, cp, k)
      PROVE  /\ AnchorTypeOK' /\ Registered'
             /\ claimed \subseteq claimed' /\ consumed \subseteq consumed'
  BY <1>2, <1>6 DEF ConsumeSlot, AnchorTypeOK, Checkpoints
<1>7. ASSUME NEW r \in Registries, NEW cp \in Checkpoints, ReleaseSession(r, cp)
      PROVE  AnchorTypeOK' /\ Registered' /\ UNCHANGED <<claimed, consumed>>
  BY <1>2, <1>7 DEF ReleaseSession, AnchorTypeOK, Checkpoints
<1>8. QED
  BY <1>1, <1>3, <1>4, <1>5, <1>6, <1>7 DEF AnchorStep

LEMMA AnchorStepMaps ==
  ASSUME AnchorTypeOK, Registered, AnchorStep
  PROVE  [Promise!Next]_(Promise!promiseVars)
<1> DEFINE owner(C) == [g \in Grants |-> IF g \in C THEN RegistryOf[g] ELSE NoSession]
           fence(a) == [r \in Registries |-> a[r].token]
           held(a)  == {r \in Registries : a[r].session # NoSession}
<1>1. CASE UNCHANGED anchorVars
  BY <1>1 DEF anchorVars, Promise!promiseVars
<1>2. ASSUME NEW r \in Registries, NEW s \in Sessions \cup {NoSession}, NEW t \in Nat,
             Append(r, s, t)
      PROVE  /\ fence(anchor') = [fence(anchor) EXCEPT ![r] = t]
             /\ held(anchor') = IF s # NoSession THEN held(anchor) \cup {r}
                                                 ELSE held(anchor) \ {r}
  <2>1. /\ anchor'[r].token = t /\ anchor'[r].session = s
        /\ \A q \in Registries : q # r => anchor'[q] = anchor[q]
    BY <1>2 DEF Append, AnchorTypeOK, Checkpoints
  <2>2. QED
    BY <2>1
<1>3. ASSUME NEW r \in Registries, RegisterRegistry(r)
      PROVE  UNCHANGED Promise!promiseVars
  <2>1. anchor[r].token = 0 /\ anchor[r].session = NoSession
    BY <1>3 DEF RegisterRegistry, Registered, Unregistered
  <2>2. fence(anchor') = fence(anchor) /\ held(anchor') = held(anchor)
    <3>1. /\ fence(anchor') = [fence(anchor) EXCEPT ![r] = 0]
          /\ held(anchor') = held(anchor) \ {r}
      BY <1>2, <1>3 DEF RegisterRegistry
    <3>2. fence(anchor) = [fence(anchor) EXCEPT ![r] = 0]
      BY <2>1
    <3>3. held(anchor) = held(anchor) \ {r}
      BY <2>1
    <3>4. QED
      BY <3>1, <3>2, <3>3
  <2>3. QED
    BY <1>3, <2>2 DEF RegisterRegistry, Promise!promiseVars
<1>4. ASSUME NEW r \in Registries, NEW cp \in Checkpoints, NEW s \in Sessions,
             AcquireSession(r, cp, s)
      PROVE  Promise!Open(r)
  <2>1. anchor[r].token + 1 \in Nat /\ s # NoSession
    BY AnchorAssumption DEF AnchorTypeOK, Checkpoints
  <2>2. /\ fence(anchor') = [fence(anchor) EXCEPT ![r] = anchor[r].token + 1]
        /\ held(anchor') = held(anchor) \cup {r}
    BY <1>2, <1>4, <2>1 DEF AcquireSession
  <2>3. fence(anchor') = [fence(anchor) EXCEPT ![r] = @ + 1]
    BY <2>2
  <2>4. QED
    BY <1>4, <2>2, <2>3 DEF AcquireSession, Promise!Open
<1>5. ASSUME NEW r \in Registries, NEW cp \in Checkpoints, Matches(r, cp),
             cp.session # NoSession
      PROVE  /\ r \in held(anchor)
             /\ Append(r, cp.session, cp.token) =>
                   fence(anchor') = fence(anchor) /\ held(anchor') = held(anchor)
             /\ Append(r, NoSession, cp.token) =>
                   fence(anchor') = fence(anchor) /\ held(anchor') = held(anchor) \ {r}
  <2>1. anchor[r] = cp /\ cp.session \in Sessions /\ cp.token \in Nat
    BY <1>5 DEF Matches, Checkpoints
  <2>2. fence(anchor) = [fence(anchor) EXCEPT ![r] = cp.token] /\ r \in held(anchor)
    BY <1>5, <2>1
  <2>3. QED
    BY <1>2, <1>5, <2>1, <2>2
<1>6. ASSUME NEW r \in Registries, NEW cp \in Checkpoints, NEW g \in Grants,
             cp.session # NoSession, RegistryOf[g] = r, ClaimAuthorization(r, cp, g)
      PROVE  Promise!Claim(r, g) \/ UNCHANGED Promise!promiseVars
  <2>1. Matches(r, cp)
    BY <1>6 DEF ClaimAuthorization, ClaimAllowed
  <2>2. /\ r \in held(anchor)
        /\ fence(anchor') = fence(anchor) /\ held(anchor') = held(anchor)
    BY <1>5, <1>6, <2>1 DEF ClaimAuthorization
  <2>3. g \notin claimed
    BY <1>6 DEF ClaimAuthorization, ClaimAllowed
  <2>4. owner(claimed') = [owner(claimed) EXCEPT ![g] = r]
    BY <1>6 DEF ClaimAuthorization
  <2>5. \A h \in Grants : owner(claimed)[h] # NoSession => Authorized[h] \cap Authorized[g] = {}
    BY <1>6 DEF ClaimAuthorization, ClaimAllowed
  <2>6. owner(claimed)[g] = NoSession
    BY <2>3
  <2>7. QED
    BY <1>6, <2>2, <2>4, <2>5, <2>6 DEF ClaimAuthorization, Promise!Claim
<1>7. ASSUME NEW r \in Registries, NEW cp \in Checkpoints, NEW k \in Keys,
             cp.session # NoSession, Owned(r, k, claimed), ConsumeSlot(r, cp, k)
      PROVE  Promise!Spend(r, k)
  <2>1. Matches(r, cp)
    BY <1>7 DEF ConsumeSlot, ConsumeAllowed
  <2>2. /\ r \in held(anchor)
        /\ fence(anchor') = fence(anchor) /\ held(anchor') = held(anchor)
    BY <1>5, <1>7, <2>1 DEF ConsumeSlot
  <2>3. PICK g \in claimed : RegistryOf[g] = r /\ k \in KeysOf(g)
    BY <1>7 DEF Owned
  <2>4. g \in Grants /\ owner(claimed)[g] = r /\ k[1] \in Authorized[g]
    BY <2>3 DEF AnchorTypeOK, KeysOf
  <2>5. QED
    BY <1>7, <2>2, <2>4 DEF ConsumeSlot, ConsumeAllowed, Promise!Spend
<1>8. ASSUME NEW r \in Registries, NEW cp \in Checkpoints, cp.session # NoSession,
             ReleaseSession(r, cp)
      PROVE  Promise!Release(r)
  <2>1. /\ r \in held(anchor)
        /\ fence(anchor') = fence(anchor) /\ held(anchor') = held(anchor) \ {r}
    BY <1>5, <1>8 DEF ReleaseSession, ReleaseAllowed
  <2>2. QED
    BY <1>8, <2>1 DEF ReleaseSession, Promise!Release
<1>9. QED
  <2> HIDE DEF owner, fence, held
  <2>1. CASE \E r \in Registries : RegisterRegistry(r)
    BY <1>3, <2>1
  <2>2. ASSUME NEW r \in Registries, NEW cp \in Checkpoints,
               \/ \E s \in Sessions : AcquireSession(r, cp, s)
               \/ /\ cp.session # NoSession
                  /\ \/ \E g \in Grants : RegistryOf[g] = r /\ ClaimAuthorization(r, cp, g)
                     \/ \E k \in Keys : Owned(r, k, claimed) /\ ConsumeSlot(r, cp, k)
                     \/ ReleaseSession(r, cp)
        PROVE  [Promise!Next]_(Promise!promiseVars)
    BY <2>2, <1>4, <1>6, <1>7, <1>8 DEF Promise!Next, Promise!Slots, Keys
  <2>3. QED
    BY <1>1, <2>1, <2>2 DEF AnchorStep

--------------------------------------------------------------------------------
(* What files and processes know.                                           *)

\* An active file is in a session, its active consents are claimed, and a slot
\* prepared in it is allowed, with the earlier slots answered.
GoodFile(f, row, C, A) ==
    /\ row \in FileRows
    /\ row.state = "active" => row.cp.session # NoSession
    /\ \A g \in Grants : row.grants[g] = "active" => g \in C /\ RegistryOf[g] = FileRegistry[f]
    /\ \A k \in Keys : /\ row.slots[k] = "prepared" => /\ Owned(FileRegistry[f], k, C)
                                                       /\ Prior(k, A)
                       /\ row.slots[k] = "result" => k \in A

InSessionPoints == {"acquired", "claiming", "claimed", "burnt", "releasing"}
ToSend          == {"burnt", "sending"}
BusyPoints      == InSessionPoints \cup ToSend

\* A process that is about to call the anchor or to write its answer down, and
\* one that may send.
GoodHandle(h, row, C, K, A, S) ==
    /\ row \in HandleRows
    /\ row.pc \in InSessionPoints => row.cp.session # NoSession
    /\ row.pc \in {"claiming", "claimed"} => row.job \in Grants /\ RegistryOf[row.job] = R(h)
    /\ row.pc = "claimed" => row.job \in C
    /\ row.pc \in ToSend => row.job \in K /\ S[row.job] = 0 /\ Prior(row.job, A)

\* A slot's request left at most once, and nobody else may send it.
SendsOnce ==
    /\ \A k \in Keys : /\ sent[k] <= 1
                       /\ sent[k] # 0 => k \in consumed /\ Prior(k, answered)
    /\ \A h, i \in Handles :
          (handles[h].pc \in ToSend /\ handles[i].pc \in ToSend /\ handles[h].job = handles[i].job)
              => h = i

AuthInv ==
    /\ TypeOK /\ Registered
    /\ \A f \in Files : GoodFile(f, files[f], claimed, answered)
    /\ \A h \in Handles : GoodHandle(h, handles[h], claimed, consumed, answered, sent)
    /\ SendsOnce

LEMMA AuthInit == Init => AuthInv
<1> SUFFICES ASSUME Init PROVE AuthInv
  OBVIOUS
<1>1. TypeOK
  BY TypeInit
<1>2. Registered
  BY DEF Init, AnchorInit, Registered
<1>3. ASSUME NEW f \in Files PROVE GoodFile(f, files[f], claimed, answered)
  <2>1. files[f] = NoFile /\ files[f] \in FileRows
    BY <1>1 DEF Init, TypeOK, FileRows
  <2>2. QED
    BY <2>1 DEF GoodFile, NoFile
<1>4. ASSUME NEW h \in Handles
      PROVE  GoodHandle(h, handles[h], claimed, consumed, answered, sent)
  BY UnopenedTypes DEF Init, GoodHandle, Unopened, InSessionPoints, ToSend
<1>5. SendsOnce
  BY DEF Init, SendsOnce, Unopened, ToSend
<1>6. QED
  BY <1>1, <1>2, <1>3, <1>4, <1>5 DEF AuthInv

LEMMA GoodFileStays ==
  ASSUME NEW f, NEW row, NEW C, NEW A, NEW C2, NEW A2, C \subseteq C2, A \subseteq A2,
         GoodFile(f, row, C, A)
  PROVE  GoodFile(f, row, C2, A2)
  BY DEF GoodFile, Owned, Prior

LEMMA GoodHandleStays ==
  ASSUME NEW h, NEW row, NEW C, NEW K, NEW A, NEW C2, NEW K2, NEW A2, NEW S,
         C \subseteq C2, K \subseteq K2, A \subseteq A2, GoodHandle(h, row, C, K, A, S)
  PROVE  GoodHandle(h, row, C2, K2, A2, S)
  BY DEF GoodHandle, Prior

\* What a step of process h does to its file and to itself.
FileMoves(h) ==
    \/ UNCHANGED files
    \/ \E row \in FileRows : /\ Write(h, row)
                             /\ GoodFile(FileOf[h], row, claimed', answered')

HandleMoves(h) ==
    /\ handles' \in [Handles -> HandleRows]
    /\ \A i \in Handles : i # h => handles'[i] = handles[i]
    /\ \/ handles'[h] = handles[h]
       \/ /\ GoodHandle(h, handles'[h], claimed', consumed', answered', sent)
          /\ handles'[h].pc \in ToSend =>
                \/ handles[h].pc \in ToSend /\ handles'[h].job = handles[h].job
                \/ handles'[h].job \notin consumed

LEMMA MovesKeep ==
  ASSUME AuthInv, NEW h \in Handles, AnchorStep, FileMoves(h), HandleMoves(h),
         UNCHANGED sent, answered \subseteq answered', answered' \subseteq Keys
  PROVE  AuthInv'
<1>1. /\ AnchorTypeOK' /\ Registered'
      /\ claimed \subseteq claimed' /\ consumed \subseteq consumed'
  BY AnchorStepKeeps DEF AuthInv, TypeOK
<1>2. ASSUME NEW f \in Files PROVE GoodFile(f, files'[f], claimed', answered')
  <2>1. GoodFile(f, files[f], claimed', answered')
    BY <1>1, GoodFileStays DEF AuthInv
  <2>2. CASE UNCHANGED files
    BY <2>1, <2>2
  <2>3. ASSUME NEW row \in FileRows, Write(h, row), GoodFile(FileOf[h], row, claimed', answered')
        PROVE  GoodFile(f, files'[f], claimed', answered')
    BY <2>1, <2>3 DEF Write, AuthInv, TypeOK
  <2>4. QED
    BY <2>2, <2>3 DEF FileMoves
<1>3. files' \in [Files -> FileRows]
  <2>1. files \in [Files -> FileRows]
    BY DEF AuthInv, TypeOK, FileRows
  <2>2. QED
    BY <2>1 DEF FileMoves, Write
<1>4. ASSUME NEW i \in Handles
      PROVE  GoodHandle(i, handles'[i], claimed', consumed', answered', sent')
  <2>1. GoodHandle(i, handles[i], claimed', consumed', answered', sent)
    BY <1>1, GoodHandleStays DEF AuthInv
  <2>2. QED
    BY <2>1 DEF HandleMoves
<1>5. SendsOnce'
  <2>1. \A k \in Keys : /\ sent'[k] <= 1
                        /\ sent'[k] # 0 => k \in consumed' /\ Prior(k, answered')
    BY <1>1 DEF AuthInv, SendsOnce, Prior
  <2>2. \A i \in Handles : handles[i].pc \in ToSend => handles[i].job \in consumed
    BY DEF AuthInv, GoodHandle
  <2>3. \A i \in Handles : /\ i # h => handles'[i] = handles[i]
                           /\ handles'[i].pc \in ToSend =>
                                 \/ handles[i].pc \in ToSend /\ handles'[i].job = handles[i].job
                                 \/ i = h /\ handles'[i].job \notin consumed
    BY DEF HandleMoves
  <2>4. ASSUME NEW i \in Handles, NEW j \in Handles, handles'[i].pc \in ToSend,
               handles'[j].pc \in ToSend, handles'[i].job = handles'[j].job
        PROVE  i = j
    BY <2>2, <2>3, <2>4 DEF AuthInv, SendsOnce
  <2>5. QED
    BY <2>1, <2>4 DEF SendsOnce
<1>6. TypeOK'
  <2>1. sent' \in [Keys -> Nat] /\ answered' \subseteq Keys
    BY DEF AuthInv, TypeOK
  <2>2. QED
    BY <1>1, <1>3, <2>1 DEF TypeOK, HandleMoves, FileRows, HandleRows
<1>7. QED
  BY <1>1, <1>2, <1>4, <1>5, <1>6 DEF AuthInv

--------------------------------------------------------------------------------
(* How a process and its file may move.                                     *)

LEMMA PlainIsGood ==
  ASSUME NEW h, NEW row \in HandleRows, row.pc \notin BusyPoints, NEW C, NEW K, NEW A, NEW S
  PROVE  GoodHandle(h, row, C, K, A, S)
  BY DEF GoodHandle, BusyPoints, InSessionPoints, ToSend

\* A process moves to a point where it waits for nothing.
LEMMA PlainMoves ==
  ASSUME AuthInv, NEW h \in Handles, NEW pc \in Points \ BusyPoints, AnchorStep,
         \/ Goto(h, pc)
         \/ \E job \in Grants \cup Keys \cup {NoJob} : GotoWith(h, pc, job)
         \/ Received(h, pc)
         \/ Close(h)
         \/ handles' = [handles EXCEPT ![h] = Unopened]
  PROVE  HandleMoves(h)
<1>1. AnchorTypeOK' /\ TypeOK
  BY AnchorStepKeeps DEF AuthInv, TypeOK
<1>2. handles \in [Handles -> HandleRows] /\ handles[h] \in HandleRows
  BY <1>1 DEF TypeOK, HandleRows
<1>3. handles' \in [Handles -> HandleRows]
  BY <1>1, <1>2, GotoTypes, UnopenedTypes
<1>4. \A i \in Handles : i # h => handles'[i] = handles[i]
  BY <1>2 DEF Goto, GotoWith, Received, Close
<1>5. handles'[h].pc \in {pc, "closed", "unopened"}
  <2>1. CASE Goto(h, pc) \/ Received(h, pc)
    BY <1>2, <2>1 DEF Goto, Received, HandleRows
  <2>2. ASSUME NEW job, GotoWith(h, pc, job) PROVE handles'[h].pc = pc
    BY <1>2, <2>2 DEF GotoWith, HandleRows
  <2>3. CASE Close(h) \/ handles' = [handles EXCEPT ![h] = Unopened]
    BY <1>2, <2>3 DEF Close, Closed, Unopened
  <2>4. QED
    BY <2>1, <2>2, <2>3
<1>6. handles'[h].pc \notin BusyPoints /\ handles'[h] \in HandleRows
  BY <1>3, <1>5 DEF BusyPoints, InSessionPoints, ToSend
<1>7. QED
  BY <1>3, <1>4, <1>6, PlainIsGood DEF HandleMoves, BusyPoints

LEMMA StillMoves ==
  ASSUME AuthInv, NEW h \in Handles, UNCHANGED handles
  PROVE  HandleMoves(h)
  BY DEF AuthInv, TypeOK, HandleRows, HandleMoves

\* A process moves to a busy point with a checkpoint and a job.
LEMMA BusyMoves ==
  ASSUME AuthInv, NEW h \in Handles, NEW pc \in InSessionPoints, NEW cp \in Checkpoints,
         NEW job \in Grants \cup Keys \cup {NoJob},
         handles' = [handles EXCEPT ![h].pc = pc, ![h].job = job, ![h].cp = cp],
         cp.session # NoSession,
         pc \in {"claiming", "claimed"} => job \in Grants /\ RegistryOf[job] = R(h),
         pc = "claimed" => job \in claimed',
         pc = "burnt" => /\ job \in consumed' /\ job \notin consumed
                         /\ sent[job] = 0 /\ Prior(job, answered')
  PROVE  HandleMoves(h)
<1>1. handles \in [Handles -> HandleRows] /\ handles[h] \in HandleRows /\ pc \in Points
  BY DEF AuthInv, TypeOK, HandleRows, InSessionPoints, Points
<1>2. /\ handles' \in [Handles -> HandleRows]
      /\ \A i \in Handles : i # h => handles'[i] = handles[i]
      /\ handles'[h].pc = pc /\ handles'[h].job = job /\ handles'[h].cp = cp
  BY <1>1 DEF HandleRows
<1>3. pc # "sending"
  BY DEF InSessionPoints
<1>4. GoodHandle(h, handles'[h], claimed', consumed', answered', sent)
  BY <1>2, <1>3 DEF GoodHandle, ToSend
<1>5. QED
  BY <1>2, <1>3, <1>4 DEF HandleMoves, ToSend

LEMMA HandleFacts ==
  ASSUME AuthInv, NEW h \in Handles
  PROVE  /\ handles \in [Handles -> HandleRows] /\ handles[h] \in HandleRows
         /\ files \in [Files -> FileRows] /\ File(h) \in FileRows
         /\ GoodFile(FileOf[h], File(h), claimed, answered)
         /\ GoodHandle(h, handles[h], claimed, consumed, answered, sent)
         /\ R(h) \in Registries /\ FileOf[h] \in Files
         /\ R(h) = FileRegistry[FileOf[h]]
  BY HandleRegistry DEF AuthInv, TypeOK, HandleRows, FileRows, File, R

\* The file gets another state, with the session it has or without one.
LEMMA StateMoves ==
  ASSUME AuthInv, NEW h \in Handles, AnchorStep, answered \subseteq answered',
         NEW state \in FileStates \ {"active"},
         \/ Write(h, [File(h) EXCEPT !.state = state])
         \/ Write(h, [File(h) EXCEPT !.state = state, !.cp = handles[h].cp])
  PROVE  FileMoves(h)
<1>1. /\ claimed \subseteq claimed'
      /\ GoodFile(FileOf[h], File(h), claimed', answered')
  BY HandleFacts, AnchorStepKeeps, GoodFileStays DEF AuthInv, TypeOK
<1>2. ASSUME NEW cp \in Checkpoints,
             Write(h, [File(h) EXCEPT !.state = state, !.cp = cp])
      PROVE  FileMoves(h)
  <2>1. /\ [File(h) EXCEPT !.state = state, !.cp = cp] \in FileRows
        /\ GoodFile(FileOf[h], [File(h) EXCEPT !.state = state, !.cp = cp], claimed', answered')
    BY <1>1, HandleFacts DEF GoodFile, FileRows
  <2>2. QED
    BY <1>2, <2>1 DEF FileMoves
<1>3. CASE Write(h, [File(h) EXCEPT !.state = state])
  <2>1. [File(h) EXCEPT !.state = state] = [File(h) EXCEPT !.state = state, !.cp = File(h).cp]
    BY HandleFacts DEF FileRows
  <2>2. File(h).cp \in Checkpoints
    BY HandleFacts DEF FileRows
  <2>3. QED
    BY <1>2, <1>3, <2>1, <2>2
<1>4. handles[h].cp \in Checkpoints
  BY HandleFacts DEF HandleRows
<1>5. QED
  BY <1>2, <1>3, <1>4

LEMMA CommitFailsMoves ==
  ASSUME AuthInv, NEW h \in Handles, AnchorStep, CommitFails(h), answered \subseteq answered'
  PROVE  FileMoves(h) /\ HandleMoves(h)
<1>1. HandleMoves(h)
  BY PlainMoves DEF CommitFails, Points, BusyPoints, InSessionPoints, ToSend
<1>2. FileMoves(h)
  <2>1. CASE UNCHANGED files
    BY <2>1 DEF FileMoves
  <2>2. CASE Write(h, [File(h) EXCEPT !.state = "quarantined"])
    <3>1. "quarantined" \in FileStates \ {"active"}
      BY DEF FileStates
    <3>2. QED
      BY <2>2, <3>1, StateMoves, Zenon
  <2>3. QED
    BY <2>1, <2>2 DEF CommitFails
<1>3. QED
  BY <1>1, <1>2

--------------------------------------------------------------------------------
(* The steps of a process.                                                  *)

\* What a step of process h other than a send is to the rest.
Moves(h) ==
    /\ AnchorStep /\ FileMoves(h) /\ HandleMoves(h)
    /\ UNCHANGED sent /\ answered \subseteq answered' /\ answered' \subseteq Keys

LEMMA ReceivedIsBusy ==
  ASSUME AuthInv, NEW h \in Handles, NEW pc, Received(h, pc)
  PROVE  handles' = [handles EXCEPT ![h].pc = pc, ![h].job = handles[h].job,
                                    ![h].cp = anchor'[R(h)]]
<1>1. handles \in [Handles -> HandleRows]
  BY HandleFacts
<1>2. QED
  BY <1>1 DEF Received, HandleRows

LEMMA AppendGives ==
  ASSUME AuthInv, NEW r \in Registries, NEW s \in Sessions \cup {NoSession}, NEW t \in Nat,
         Append(r, s, t)
  PROVE  anchor'[r] \in Checkpoints /\ anchor'[r].session = s
  BY DEF AuthInv, TypeOK, AnchorTypeOK, Append, Checkpoints

LEMMA NoFileIsGood ==
  ASSUME NEW f, NEW C, NEW A
  PROVE  /\ [NoFile EXCEPT !.state = "initializing"] \in FileRows
         /\ GoodFile(f, [NoFile EXCEPT !.state = "initializing"], C, A)
<1>1. [NoFile EXCEPT !.state = "initializing"] \in FileRows
  BY DEF NoFile, FileRows, FileStates, GrantStates, SlotStates, Checkpoints, Unregistered
<1>2. QED
  BY <1>1 DEF GoodFile, NoFile

LEMMA SessionAdded ==
  ASSUME AuthInv, NEW h \in Handles, AnchorStep, answered \subseteq answered',
         handles[h].pc \in InSessionPoints, NEW state \in FileStates,
         Write(h, [File(h) EXCEPT !.state = state, !.cp = handles[h].cp])
  PROVE  FileMoves(h)
<1>1. GoodFile(FileOf[h], File(h), claimed', answered')
  BY HandleFacts, AnchorStepKeeps, GoodFileStays DEF AuthInv, TypeOK
<1>2. handles[h].cp \in Checkpoints /\ handles[h].cp.session # NoSession
  BY HandleFacts DEF HandleRows, GoodHandle
<1>3. DEFINE row == [File(h) EXCEPT !.state = state, !.cp = handles[h].cp]
<1>4. row \in FileRows /\ GoodFile(FileOf[h], row, claimed', answered')
  BY <1>1, <1>2, HandleFacts DEF GoodFile, FileRows
<1>5. QED
  BY <1>4 DEF FileMoves

LEMMA OpeningMoves ==
  ASSUME AuthInv, NEW h \in Handles, Opening(h)
  PROVE  Moves(h)
<1> USE DEF Points, BusyPoints, InSessionPoints, ToSend
<1>0. answered \subseteq Keys
  BY DEF AuthInv, TypeOK
<1>1. CASE CreateFile(h)
  <2>1. AnchorStep
    BY <1>1 DEF CreateFile, AnchorStep
  <2>2. FileMoves(h)
    BY <1>1, NoFileIsGood DEF CreateFile, FileMoves
  <2>3. HandleMoves(h)
    BY <1>1, <2>1, PlainMoves DEF CreateFile
  <2>4. QED
    BY <1>0, <1>1, <2>1, <2>2, <2>3 DEF CreateFile, Moves
<1>2. CASE Register(h)
  <2>1. AnchorStep
    BY <1>2, HandleRegistry DEF Register, CallFails, AnchorStep
  <2>2. HandleMoves(h)
    BY <1>2, <2>1, PlainMoves DEF Register
  <2>3. QED
    BY <1>0, <1>2, <2>1, <2>2 DEF Register, Moves, FileMoves
<1>3. CASE StoreRegistration(h)
  <2>1. AnchorStep /\ UNCHANGED answered
    BY <1>3 DEF StoreRegistration, AnchorStep
  <2>2. FileMoves(h)
    <3>1. CASE UNCHANGED files
      BY <3>1 DEF FileMoves
    <3>2. CASE Write(h, [File(h) EXCEPT !.state = "ready", !.cp = handles[h].cp])
      <4>1. "ready" \in FileStates \ {"active"} /\ answered \subseteq answered'
        BY <2>1 DEF FileStates
      <4>2. QED
        BY <2>1, <3>2, <4>1, StateMoves, Zenon
    <3>3. QED
      BY <1>3, <3>1, <3>2 DEF StoreRegistration
  <2>3. HandleMoves(h)
    BY <1>3, <2>1, PlainMoves DEF StoreRegistration
  <2>4. QED
    BY <1>0, <1>3, <2>1, <2>2, <2>3 DEF StoreRegistration, Moves
<1>4. CASE VerifyDatabase(h) \/ InspectRegistry(h)
  <2>1. AnchorStep /\ UNCHANGED <<files, sent, answered>>
    BY <1>4 DEF VerifyDatabase, InspectRegistry, AnchorStep
  <2>2. HandleMoves(h)
    BY <1>4, <2>1, PlainMoves DEF VerifyDatabase, InspectRegistry
  <2>3. QED
    BY <1>0, <2>1, <2>2 DEF Moves, FileMoves
<1>5. CASE Acquire(h)
  <2>1. handles[h].cp \in Checkpoints
    BY HandleFacts DEF HandleRows
  <2>2. AnchorStep
    BY <1>5, <2>1, HandleRegistry DEF Acquire, CallFails, AnchorStep
  <2>3. ASSUME AcquireSession(R(h), handles[h].cp, SessionOf[h]), Received(h, "acquired")
        PROVE  HandleMoves(h)
    <3>1. anchor[R(h)].token + 1 \in Nat /\ SessionOf[h] \in Sessions
      BY HandleRegistry DEF AuthInv, TypeOK, AnchorTypeOK, Checkpoints
    <3>2. /\ anchor'[R(h)] \in Checkpoints
          /\ anchor'[R(h)].session # NoSession
      BY <2>3, <3>1, AppendGives, HandleRegistry, AnchorAssumption DEF AcquireSession
    <3>3. handles[h].job \in Grants \cup Keys \cup {NoJob}
      BY HandleFacts DEF HandleRows
    <3>4. handles' = [handles EXCEPT ![h].pc = "acquired", ![h].job = handles[h].job,
                                     ![h].cp = anchor'[R(h)]]
      BY <2>3, ReceivedIsBusy
    <3>5. QED
      BY <3>2, <3>3, <3>4, BusyMoves
  <2>4. ASSUME Close(h) PROVE HandleMoves(h)
    BY <2>2, <2>4, PlainMoves
  <2>5. HandleMoves(h)
    BY <1>5, <2>3, <2>4 DEF Acquire
  <2>6. QED
    BY <1>0, <1>5, <2>2, <2>5 DEF Acquire, Moves, FileMoves
<1>6. CASE StoreSession(h)
  <2>1. AnchorStep /\ UNCHANGED answered /\ handles[h].pc = "acquired"
    BY <1>6 DEF StoreSession, At, AnchorStep
  <2>2. FileMoves(h)
    <3>1. CASE UNCHANGED files
      BY <3>1 DEF FileMoves
    <3>2. CASE Write(h, [File(h) EXCEPT !.state = "active", !.cp = handles[h].cp])
      <4>1. /\ "active" \in FileStates /\ handles[h].pc \in InSessionPoints
            /\ answered \subseteq answered'
        BY <2>1 DEF FileStates
      <4>2. QED
        BY <2>1, <3>2, <4>1, SessionAdded, Zenon
    <3>3. QED
      BY <1>6, <3>1, <3>2 DEF StoreSession
  <2>3. HandleMoves(h)
    BY <1>6, <2>1, PlainMoves DEF StoreSession
  <2>4. QED
    BY <1>0, <1>6, <2>1, <2>2, <2>3 DEF StoreSession, Moves
<1>7. QED
  BY <1>1, <1>2, <1>3, <1>4, <1>5, <1>6 DEF Opening

LEMMA WorkingInSession ==
  ASSUME AuthInv, NEW h \in Handles, Working(h)
  PROVE  File(h).cp \in Checkpoints /\ File(h).cp.session # NoSession
  BY HandleFacts DEF Working, GoodFile, FileRows

LEMMA PrepareWrites ==
  ASSUME AuthInv, NEW h \in Handles, NEW g \in Grants, PrepareAuthorization(h, g)
  PROVE  FileMoves(h)
<1> DEFINE row == [File(h) EXCEPT
                      !.grants[g] = "prepared",
                      !.slots = [k \in Keys |-> IF k \in KeysOf(g) THEN "allocated" ELSE @[k]]]
<1>1. GoodFile(FileOf[h], File(h), claimed, answered) /\ File(h) \in FileRows
  BY HandleFacts
<1>2. /\ row.state = File(h).state /\ row.cp = File(h).cp
      /\ row.grants = [File(h).grants EXCEPT ![g] = "prepared"]
      /\ row.slots = [k \in Keys |-> IF k \in KeysOf(g) THEN "allocated" ELSE File(h).slots[k]]
      /\ row \in FileRows
  BY <1>1 DEF FileRows, GrantStates, SlotStates
<1>3. Write(h, row) /\ UNCHANGED <<claimed, answered>>
  BY DEF PrepareAuthorization, anchorVars
<1> HIDE DEF row
<1>4. GoodFile(FileOf[h], row, claimed, answered)
  <2>1. \A x \in Grants : row.grants[x] = "active" => File(h).grants[x] = "active"
    BY <1>1, <1>2 DEF FileRows
  <2>2. \A k \in Keys : row.slots[k] \in {"prepared", "result"} => File(h).slots[k] = row.slots[k]
    BY <1>2
  <2>3. QED
    BY <1>1, <1>2, <2>1, <2>2 DEF GoodFile
<1>5. QED
  BY <1>2, <1>3, <1>4 DEF FileMoves

LEMMA RejectWrites ==
  ASSUME AuthInv, NEW h \in Handles, RejectClaim(h)
  PROVE  FileMoves(h)
<1> DEFINE row == [File(h) EXCEPT
                      !.grants[handles[h].job] = "review_required",
                      !.state = IF At(h, "claim_unknown") THEN "quarantined" ELSE @]
<1>1. GoodFile(FileOf[h], File(h), claimed, answered) /\ File(h) \in FileRows
  BY HandleFacts
<1>2. /\ row.state \in {File(h).state, "quarantined"} /\ row.cp = File(h).cp
      /\ row.grants = [File(h).grants EXCEPT ![handles[h].job] = "review_required"]
      /\ row.slots = File(h).slots /\ row \in FileRows
  BY <1>1 DEF FileRows, GrantStates, FileStates
<1>3. (Write(h, row) \/ UNCHANGED files) /\ UNCHANGED <<claimed, answered>>
  BY DEF RejectClaim, anchorVars
<1> HIDE DEF row
<1>4. GoodFile(FileOf[h], row, claimed, answered)
  <2>1. \A x \in Grants : row.grants[x] = "active" => File(h).grants[x] = "active"
    BY <1>1, <1>2 DEF FileRows
  <2>2. QED
    BY <1>1, <1>2, <2>1 DEF GoodFile
<1>5. QED
  BY <1>2, <1>3, <1>4 DEF FileMoves

LEMMA ActivateWrites ==
  ASSUME AuthInv, NEW h \in Handles, At(h, "claimed"), UNCHANGED <<claimed, answered>>,
         Write(h, [File(h) EXCEPT !.grants[handles[h].job] = "active", !.cp = handles[h].cp])
  PROVE  FileMoves(h)
<1> DEFINE row == [File(h) EXCEPT !.grants[handles[h].job] = "active", !.cp = handles[h].cp]
<1>1. GoodFile(FileOf[h], File(h), claimed, answered) /\ File(h) \in FileRows
  BY HandleFacts
<1>2. /\ handles[h].cp \in Checkpoints /\ handles[h].cp.session # NoSession
      /\ handles[h].job \in Grants /\ handles[h].job \in claimed
      /\ RegistryOf[handles[h].job] = FileRegistry[FileOf[h]]
  BY HandleFacts DEF HandleRows, GoodHandle, At, InSessionPoints
<1>3. /\ row.state = File(h).state /\ row.cp = handles[h].cp
      /\ row.grants = [File(h).grants EXCEPT ![handles[h].job] = "active"]
      /\ row.slots = File(h).slots /\ row \in FileRows
  BY <1>1, <1>2 DEF FileRows, GrantStates
<1> HIDE DEF row
<1>4. GoodFile(FileOf[h], row, claimed, answered)
  <2>1. \A x \in Grants : row.grants[x] = "active" =>
            File(h).grants[x] = "active" \/ x = handles[h].job
    BY <1>1, <1>3 DEF FileRows
  <2>2. QED
    BY <1>1, <1>2, <1>3, <2>1 DEF GoodFile
<1>5. QED
  BY <1>3, <1>4 DEF FileMoves, row

LEMMA ImportingMoves ==
  ASSUME AuthInv, NEW h \in Handles, Importing(h)
  PROVE  Moves(h)
<1> USE DEF Points, BusyPoints, InSessionPoints, ToSend
<1>0. answered \subseteq Keys
  BY DEF AuthInv, TypeOK
<1>1. ASSUME NEW g \in Grants, PrepareAuthorization(h, g) PROVE Moves(h)
  <2>1. AnchorStep
    BY <1>1 DEF PrepareAuthorization, AnchorStep
  <2>2. FileMoves(h)
    BY <1>1, PrepareWrites
  <2>3. HandleMoves(h)
    <3>1. handles' = [handles EXCEPT ![h].pc = "claiming", ![h].job = g, ![h].cp = File(h).cp]
      BY <1>1 DEF PrepareAuthorization, GotoWith
    <3>2. RegistryOf[g] = R(h) /\ File(h).cp \in Checkpoints /\ File(h).cp.session # NoSession
      BY <1>1, WorkingInSession DEF PrepareAuthorization
    <3>3. QED
      BY <3>1, <3>2, BusyMoves
  <2>4. QED
    BY <1>0, <1>1, <2>1, <2>2, <2>3 DEF PrepareAuthorization, Moves
<1>2. CASE Claim(h)
  <2>1. /\ handles[h].cp \in Checkpoints /\ handles[h].cp.session # NoSession
        /\ handles[h].job \in Grants /\ RegistryOf[handles[h].job] = R(h)
        /\ R(h) \in Registries
    BY <1>2, HandleFacts DEF Claim, At, GoodHandle, HandleRows
  <2>2. AnchorStep
    BY <1>2, <2>1 DEF Claim, AnchorStep
  <2>3. ASSUME ClaimAuthorization(R(h), handles[h].cp, handles[h].job), Received(h, "claimed")
        PROVE  HandleMoves(h)
    <3>1. /\ anchor'[R(h)] \in Checkpoints
          /\ anchor'[R(h)].session # NoSession
      <4>1. handles[h].cp.token \in Nat /\ handles[h].cp.session \in Sessions \cup {NoSession}
        BY <2>1 DEF Checkpoints
      <4>2. QED
        BY <2>1, <2>3, <4>1, AppendGives DEF ClaimAuthorization
    <3>2. handles' = [handles EXCEPT ![h].pc = "claimed", ![h].job = handles[h].job,
                                     ![h].cp = anchor'[R(h)]]
      BY <2>3, ReceivedIsBusy
    <3>3. handles[h].job \in claimed'
      BY <2>3 DEF ClaimAuthorization
    <3>4. QED
      BY <2>1, <3>1, <3>2, <3>3, BusyMoves
  <2>4. ASSUME Goto(h, "claim_refused") \/ Goto(h, "claim_unknown") PROVE HandleMoves(h)
    BY <2>2, <2>4, PlainMoves
  <2>5. HandleMoves(h)
    BY <1>2, <2>3, <2>4 DEF Claim
  <2>6. QED
    BY <1>0, <1>2, <2>2, <2>5 DEF Claim, Moves, FileMoves
<1>3. CASE RejectClaim(h)
  <2>1. AnchorStep
    BY <1>3 DEF RejectClaim, AnchorStep
  <2>2. FileMoves(h)
    BY <1>3, RejectWrites
  <2>3. HandleMoves(h)
    BY <1>3, <2>1, PlainMoves DEF RejectClaim
  <2>4. QED
    BY <1>0, <1>3, <2>1, <2>2, <2>3 DEF RejectClaim, Moves
<1>4. CASE ActivateAuthorization(h)
  <2>1. AnchorStep /\ UNCHANGED <<claimed, sent, answered>> /\ At(h, "claimed")
    BY <1>4 DEF ActivateAuthorization, AnchorStep, anchorVars
  <2>2. CASE CommitFails(h)
    BY <1>0, <2>1, <2>2, CommitFailsMoves DEF Moves
  <2>3. CASE ~CommitFails(h)
    <3>1. FileMoves(h)
      BY <1>4, <2>1, <2>3, ActivateWrites DEF ActivateAuthorization
    <3>2. HandleMoves(h)
      BY <1>4, <2>1, <2>3, PlainMoves DEF ActivateAuthorization
    <3>3. QED
      BY <1>0, <2>1, <3>1, <3>2 DEF Moves
  <2>4. QED
    BY <2>2, <2>3
<1>5. QED
  BY <1>1, <1>2, <1>3, <1>4 DEF Importing

LEMMA PriorAnsweredIsPrior ==
  ASSUME AuthInv, NEW h \in Handles, NEW k \in Keys, PriorAnswered(h, k)
  PROVE  Prior(k, answered)
<1>1. \A i \in 1..(k[2] - 1) : <<k[1], i>> \in Keys
  BY AnchorAssumption DEF Keys
<1>2. QED
  BY <1>1, HandleFacts DEF PriorAnswered, Prior, GoodFile

LEMMA PrepareSlotWrites ==
  ASSUME AuthInv, NEW h \in Handles, NEW k \in Keys, PrepareDispatch(h, k)
  PROVE  FileMoves(h)
<1> DEFINE row == [File(h) EXCEPT !.slots[k] = "prepared"]
<1>1. GoodFile(FileOf[h], File(h), claimed, answered) /\ File(h) \in FileRows
  BY HandleFacts
<1>2. /\ row.state = File(h).state /\ row.cp = File(h).cp /\ row.grants = File(h).grants
      /\ row.slots = [File(h).slots EXCEPT ![k] = "prepared"] /\ row \in FileRows
  BY <1>1 DEF FileRows, SlotStates
<1>3. Write(h, row) /\ UNCHANGED <<claimed, answered>>
  BY DEF PrepareDispatch, anchorVars
<1> HIDE DEF row
<1>4. Owned(FileRegistry[FileOf[h]], k, claimed) /\ Prior(k, answered)
  BY <1>1, PriorAnsweredIsPrior DEF PrepareDispatch, GoodFile, Owned
<1>5. GoodFile(FileOf[h], row, claimed, answered)
  <2>1. \A x \in Keys : x # k => row.slots[x] = File(h).slots[x]
    BY <1>1, <1>2 DEF FileRows
  <2>2. row.slots[k] = "prepared"
    BY <1>1, <1>2 DEF FileRows
  <2>3. QED
    BY <1>1, <1>2, <1>4, <2>1, <2>2 DEF GoodFile
<1>6. QED
  BY <1>2, <1>3, <1>5 DEF FileMoves

\* A slot gets a state in which it is not prepared, the file a state that is not
\* active or the one it has, and a checkpoint in a session or the one it has.
LEMMA SlotWrites ==
  ASSUME AuthInv, NEW h \in Handles, UNCHANGED claimed, answered \subseteq answered',
         NEW k, NEW to \in SlotStates \ {"prepared"},
         k \in Keys /\ to = "result" => k \in answered',
         NEW state \in FileStates, state = "active" => File(h).state = "active",
         NEW cp \in Checkpoints, cp = File(h).cp \/ cp.session # NoSession,
         Write(h, [File(h) EXCEPT !.slots[k] = to, !.state = state, !.cp = cp])
  PROVE  FileMoves(h)
<1> DEFINE row == [File(h) EXCEPT !.slots[k] = to, !.state = state, !.cp = cp]
<1>1. /\ GoodFile(FileOf[h], File(h), claimed, answered) /\ File(h) \in FileRows
      /\ GoodFile(FileOf[h], File(h), claimed', answered')
  BY HandleFacts, GoodFileStays
<1>2. /\ row.state = state /\ row.cp = cp /\ row.grants = File(h).grants
      /\ row.slots = [File(h).slots EXCEPT ![k] = to] /\ row \in FileRows
  BY <1>1 DEF FileRows
<1>3. Write(h, row)
  OBVIOUS
<1> HIDE DEF row
<1>4. GoodFile(FileOf[h], row, claimed', answered')
  <2>1. \A x \in Keys : x # k => row.slots[x] = File(h).slots[x]
    BY <1>1, <1>2 DEF FileRows
  <2>2. k \in Keys => row.slots[k] = to
    BY <1>1, <1>2 DEF FileRows
  <2>3. state = "active" => cp.session # NoSession
    BY <1>1 DEF GoodFile
  <2>4. QED
    BY <1>1, <1>2, <2>1, <2>2, <2>3 DEF GoodFile
<1>5. QED
  BY <1>2, <1>3, <1>4 DEF FileMoves

LEMMA BurnMoves ==
  ASSUME AuthInv, NEW h \in Handles, NEW k \in Keys, Burn(h, k)
  PROVE  Moves(h)
<1>1. /\ R(h) \in Registries /\ Owned(R(h), k, claimed) /\ Prior(k, answered)
      /\ File(h).cp \in Checkpoints /\ File(h).cp.session # NoSession
      /\ UNCHANGED <<files, sent, answered>> /\ answered \subseteq Keys
  BY HandleFacts, WorkingInSession DEF Burn, GoodFile, AuthInv, TypeOK
<1>2. AnchorStep
  BY <1>1 DEF Burn, AnchorStep
<1>3. ASSUME ConsumeSlot(R(h), File(h).cp, k),
             handles' = [handles EXCEPT ![h].pc = "burnt", ![h].job = k, ![h].cp = anchor'[R(h)]]
      PROVE  HandleMoves(h)
  <2>1. /\ anchor'[R(h)] \in Checkpoints
        /\ anchor'[R(h)].session # NoSession
    <3>1. File(h).cp.token \in Nat /\ File(h).cp.session \in Sessions \cup {NoSession}
      BY <1>1 DEF Checkpoints
    <3>2. QED
      BY <1>1, <1>3, <3>1, AppendGives DEF ConsumeSlot
  <2>2. k \in consumed' /\ k \notin consumed
    BY <1>3 DEF ConsumeSlot, ConsumeAllowed
  <2>3. sent[k] = 0
    BY <2>2 DEF AuthInv, SendsOnce
  <2>4. "burnt" \in InSessionPoints /\ Prior(k, answered')
    BY <1>1 DEF InSessionPoints
  <2>5. QED
    BY <1>3, <2>1, <2>2, <2>3, <2>4, BusyMoves
<1>4. ASSUME GotoWith(h, "burn_failed", k) PROVE HandleMoves(h)
  BY <1>2, <1>4, PlainMoves DEF Points, BusyPoints, InSessionPoints, ToSend
<1>5. HandleMoves(h)
  BY <1>3, <1>4 DEF Burn
<1>6. QED
  BY <1>1, <1>2, <1>5 DEF Moves, FileMoves

LEMMA SlotRows ==
  ASSUME NEW row \in FileRows, NEW k, NEW to, NEW state, NEW cp
  PROVE  /\ [row EXCEPT !.slots[k] = to] =
               [row EXCEPT !.slots[k] = to, !.state = row.state, !.cp = row.cp]
         /\ [row EXCEPT !.slots[k] = to, !.state = state] =
               [row EXCEPT !.slots[k] = to, !.state = state, !.cp = row.cp]
         /\ [row EXCEPT !.slots[k] = to, !.cp = cp] =
               [row EXCEPT !.slots[k] = to, !.state = row.state, !.cp = cp]
         /\ row.state \in FileStates /\ row.cp \in Checkpoints
  BY DEF FileRows

LEMMA CompleteMoves ==
  ASSUME AuthInv, NEW h \in Handles, NEW k \in Keys, CompleteDispatch(h, k)
  PROVE  Moves(h)
<1>1. AnchorStep /\ UNCHANGED <<claimed, sent>>
  BY DEF CompleteDispatch, AnchorStep, anchorVars
<1>2. ASSUME CommitFails(h), UNCHANGED answered PROVE Moves(h)
  <2>1. answered \subseteq answered' /\ answered' \subseteq Keys
    BY <1>2 DEF AuthInv, TypeOK
  <2>2. QED
    BY <1>1, <1>2, <2>1, CommitFailsMoves DEF Moves
<1>3. ASSUME Write(h, [File(h) EXCEPT !.slots[k] = "result"]), answered' = answered \cup {k},
             handles' = [handles EXCEPT ![h].awaiting = @ \ {k}]
      PROVE  Moves(h)
  <2>1. answered \subseteq answered' /\ answered' \subseteq Keys /\ k \in answered'
    BY <1>3 DEF AuthInv, TypeOK
  <2>2. FileMoves(h)
    <3>1. Write(h, [File(h) EXCEPT !.slots[k] = "result", !.state = File(h).state,
                                   !.cp = File(h).cp])
      BY <1>3, HandleFacts, SlotRows
    <3>2. "result" \in SlotStates \ {"prepared"}
      BY DEF SlotStates
    <3>3. File(h).state \in FileStates /\ File(h).cp \in Checkpoints
      BY HandleFacts, SlotRows
    <3>4. QED
      BY <1>1, <2>1, <3>1, <3>2, <3>3, SlotWrites
  <2>3. HandleMoves(h)
    <3>1. /\ handles' \in [Handles -> HandleRows]
          /\ \A i \in Handles : i # h => handles'[i] = handles[i]
          /\ handles'[h].pc = handles[h].pc
      BY <1>3, HandleFacts DEF HandleRows
    <3>2. handles[h].pc = "open"
      BY DEF CompleteDispatch, Working, At
    <3>3. handles'[h].pc \notin BusyPoints
      BY <3>1, <3>2 DEF BusyPoints, InSessionPoints, ToSend
    <3>4. QED
      BY <3>1, <3>3, PlainIsGood DEF HandleMoves, BusyPoints
  <2>4. QED
    BY <1>1, <2>1, <2>2, <2>3 DEF Moves
<1>4. QED
  BY <1>2, <1>3 DEF CompleteDispatch

LEMMA BurnFailsMoves ==
  ASSUME AuthInv, NEW h \in Handles, BurnFails(h)
  PROVE  Moves(h)
<1>1. AnchorStep /\ UNCHANGED <<claimed, sent, answered>> /\ answered \subseteq Keys
  BY DEF BurnFails, AnchorStep, anchorVars, AuthInv, TypeOK
<1>2. HandleMoves(h)
  BY <1>1, PlainMoves DEF BurnFails, Points, BusyPoints, InSessionPoints, ToSend
<1>3. FileMoves(h)
  <2>1. ASSUME Write(h, [File(h) EXCEPT !.slots[handles[h].job] = "anchor_ambiguous",
                                        !.state = "quarantined"])
        PROVE  FileMoves(h)
    <3>1. Write(h, [File(h) EXCEPT !.slots[handles[h].job] = "anchor_ambiguous",
                                   !.state = "quarantined", !.cp = File(h).cp])
      BY <2>1, HandleFacts, SlotRows
    <3>2. "anchor_ambiguous" \in SlotStates \ {"prepared"} /\ "quarantined" \in FileStates
      BY DEF SlotStates, FileStates
    <3>3. File(h).cp \in Checkpoints
      BY HandleFacts, SlotRows
    <3>4. QED
      BY <1>1, <3>1, <3>2, <3>3, SlotWrites
  <2>2. QED
    BY <2>1 DEF BurnFails, FileMoves
<1>4. QED
  BY <1>1, <1>2, <1>3 DEF Moves

LEMMA IssueMoves ==
  ASSUME AuthInv, NEW h \in Handles, IssueCapability(h)
  PROVE  Moves(h)
<1>1. /\ AnchorStep /\ UNCHANGED <<claimed, consumed, sent, answered>> /\ answered \subseteq Keys
      /\ handles[h].pc = "burnt"
  BY DEF IssueCapability, AnchorStep, anchorVars, AuthInv, TypeOK, At
<1>2. ASSUME CommitFails(h) PROVE Moves(h)
  BY <1>1, <1>2, CommitFailsMoves DEF Moves
<1>3. ASSUME Write(h, [File(h) EXCEPT !.slots[handles[h].job] = "dispatching",
                                      !.cp = handles[h].cp]),
             Goto(h, "sending")
      PROVE  Moves(h)
  <2>1. GoodHandle(h, handles[h], claimed, consumed, answered, sent) /\ handles[h] \in HandleRows
    BY HandleFacts
  <2>2. HandleMoves(h)
    <3>1. /\ handles' \in [Handles -> HandleRows]
          /\ \A i \in Handles : i # h => handles'[i] = handles[i]
          /\ handles'[h].pc = "sending" /\ handles'[h].job = handles[h].job
      BY <1>3, HandleFacts DEF Goto, HandleRows, Points
    <3>2. GoodHandle(h, handles'[h], claimed', consumed', answered', sent)
      BY <1>1, <2>1, <3>1 DEF GoodHandle, ToSend, InSessionPoints
    <3>3. QED
      BY <1>1, <3>1, <3>2 DEF HandleMoves, ToSend
  <2>3. FileMoves(h)
    <3>1. Write(h, [File(h) EXCEPT !.slots[handles[h].job] = "dispatching",
                                   !.state = File(h).state, !.cp = handles[h].cp])
      BY <1>3, HandleFacts, SlotRows
    <3>2. "dispatching" \in SlotStates \ {"prepared"} /\ File(h).state \in FileStates
      BY HandleFacts, SlotRows DEF SlotStates
    <3>3. handles[h].cp \in Checkpoints /\ handles[h].cp.session # NoSession
      BY <1>1, <2>1 DEF GoodHandle, InSessionPoints, HandleRows
    <3>4. QED
      BY <1>1, <3>1, <3>2, <3>3, SlotWrites
  <2>4. QED
    BY <1>1, <2>2, <2>3 DEF Moves
<1>4. QED
  BY <1>2, <1>3 DEF IssueCapability

LEMMA DispatchingMoves ==
  ASSUME AuthInv, NEW h \in Handles, Dispatching(h)
  PROVE  Moves(h) \/ Send(h)
<1>1. ASSUME NEW k \in Keys, PrepareDispatch(h, k) PROVE Moves(h)
  <2>1. AnchorStep /\ UNCHANGED <<handles, sent, answered>> /\ answered \subseteq Keys
    BY <1>1 DEF PrepareDispatch, AnchorStep, AuthInv, TypeOK
  <2>2. QED
    BY <1>1, <2>1, PrepareSlotWrites, StillMoves DEF Moves
<1>2. QED
  BY <1>1, BurnMoves, CompleteMoves, BurnFailsMoves, IssueMoves DEF Dispatching

\* The one step that sends.
LEMMA SendKeeps ==
  ASSUME AuthInv, NEW h \in Handles, Send(h)
  PROVE  AuthInv'
<1> DEFINE k == handles[h].job
<1>1. /\ handles[h].pc = "sending" /\ UNCHANGED <<anchor, claimed, consumed, files, answered>>
      /\ handles' = [handles EXCEPT ![h].pc = "open", ![h].awaiting = @ \cup {k}]
      /\ sent' = [sent EXCEPT ![k] = @ + 1]
  BY DEF Send, At, anchorVars
<1>2. k \in consumed /\ sent[k] = 0 /\ Prior(k, answered) /\ k \in Keys
  BY <1>1, HandleFacts DEF GoodHandle, ToSend, AuthInv, TypeOK, AnchorTypeOK
<1>3. sent' \in [Keys -> Nat] /\ sent'[k] = 1 /\ \A x \in Keys : x # k => sent'[x] = sent[x]
  BY <1>1, <1>2 DEF AuthInv, TypeOK
<1>4. /\ handles' \in [Handles -> HandleRows] /\ handles'[h].pc = "open"
      /\ \A i \in Handles : i # h => handles'[i] = handles[i]
  BY <1>1, <1>2, HandleFacts DEF HandleRows, Points
<1> HIDE DEF k
<1>5. \A i \in Handles : (i # h /\ handles[i].pc \in ToSend) => handles[i].job # k
  BY <1>1 DEF AuthInv, SendsOnce, ToSend, k
<1>6. TypeOK' /\ Registered'
  BY <1>1, <1>3, <1>4 DEF AuthInv, TypeOK, AnchorTypeOK, Registered, HandleRows
<1>7. ASSUME NEW i \in Handles
      PROVE  GoodHandle(i, handles'[i], claimed', consumed', answered', sent')
  <2>1. CASE i = h
    BY <1>4, <2>1, PlainIsGood DEF BusyPoints, InSessionPoints, ToSend
  <2>2. CASE i # h
    <3>1. /\ handles'[i] = handles[i]
          /\ GoodHandle(i, handles[i], claimed, consumed, answered, sent)
      BY <1>4, <2>2, HandleFacts
    <3>2. handles[i].pc \in ToSend => handles[i].job \in Keys /\ handles[i].job # k
      BY <1>5, <2>2, <3>1 DEF GoodHandle, AuthInv, TypeOK, AnchorTypeOK
    <3>3. GoodHandle(i, handles[i], claimed', consumed', answered', sent)
      BY <1>1, <3>1
    <3>4. handles[i].pc \in ToSend => sent'[handles[i].job] = sent[handles[i].job]
      BY <1>3, <3>2
    <3>5. QED
      BY <3>1, <3>3, <3>4 DEF GoodHandle
  <2>3. QED
    BY <2>1, <2>2
<1>8. SendsOnce'
  <2>1. \A x \in Keys : /\ sent'[x] <= 1
                        /\ sent'[x] # 0 => x \in consumed' /\ Prior(x, answered')
    BY <1>1, <1>2, <1>3 DEF AuthInv, SendsOnce
  <2>2. \A i \in Handles : handles'[i].pc \in ToSend => handles'[i] = handles[i]
    BY <1>4 DEF ToSend
  <2>3. QED
    BY <2>1, <2>2 DEF AuthInv, SendsOnce
<1>9. \A f \in Files : GoodFile(f, files'[f], claimed', answered')
  BY <1>1 DEF AuthInv
<1>10. QED
  BY <1>6, <1>7, <1>8, <1>9 DEF AuthInv

\* A file in which slots of one state get another.
LEMMA SweepWrites ==
  ASSUME AuthInv, NEW h \in Handles, UNCHANGED <<claimed, answered>>,
         NEW from, NEW to \in SlotStates \ {"prepared", "result"},
         NEW state \in {File(h).state, "quarantined"},
         Write(h, [File(h) EXCEPT !.state = state,
                      !.slots = [k \in Keys |-> IF @[k] = from THEN to ELSE @[k]]])
  PROVE  FileMoves(h)
<1> DEFINE row == [File(h) EXCEPT !.state = state,
                      !.slots = [k \in Keys |-> IF @[k] = from THEN to ELSE @[k]]]
<1>1. GoodFile(FileOf[h], File(h), claimed, answered) /\ File(h) \in FileRows
  BY HandleFacts
<1>2. /\ row.state = state /\ row.cp = File(h).cp /\ row.grants = File(h).grants
      /\ row.slots = [k \in Keys |-> IF File(h).slots[k] = from THEN to ELSE File(h).slots[k]]
      /\ row \in FileRows
  BY <1>1 DEF FileRows, FileStates
<1>3. Write(h, row)
  OBVIOUS
<1> HIDE DEF row
<1>4. \A k \in Keys : row.slots[k] \in {"prepared", "result"} => File(h).slots[k] = row.slots[k]
  BY <1>2
<1>5. GoodFile(FileOf[h], row, claimed, answered)
  BY <1>1, <1>2, <1>4 DEF GoodFile
<1>6. QED
  BY <1>2, <1>3, <1>5 DEF FileMoves

LEMMA ClosingMoves ==
  ASSUME AuthInv, NEW h \in Handles, Closing(h)
  PROVE  Moves(h)
<1> USE DEF Points, BusyPoints, InSessionPoints, ToSend
<1>0. answered \subseteq Keys
  BY DEF AuthInv, TypeOK
<1>1. CASE CloseIdle(h)
  <2>1. AnchorStep
    BY <1>1 DEF CloseIdle, AnchorStep
  <2>2. HandleMoves(h)
    BY <1>1, <2>1, PlainMoves DEF CloseIdle
  <2>3. QED
    BY <1>0, <1>1, <2>1, <2>2 DEF CloseIdle, Moves, FileMoves
<1>2. CASE CloseInFlight(h)
  <2>1. AnchorStep /\ UNCHANGED <<claimed, sent, answered>>
    BY <1>2 DEF CloseInFlight, AnchorStep, anchorVars
  <2>2. HandleMoves(h)
    BY <1>2, <2>1, PlainMoves DEF CloseInFlight
  <2>3. "unknown_after_crash" \in SlotStates \ {"prepared", "result"}
    BY DEF SlotStates
  <2>4. FileMoves(h)
    BY <1>2, <2>1, <2>3, SweepWrites DEF CloseInFlight, FileMoves
  <2>5. QED
    BY <1>0, <2>1, <2>2, <2>4 DEF Moves
<1>3. CASE Abandon(h)
  <2>1. AnchorStep /\ UNCHANGED <<claimed, sent, answered>>
    BY <1>3 DEF Abandon, AnchorStep, anchorVars
  <2>2. HandleMoves(h)
    <3>1. ASSUME GotoWith(h, "releasing", NoJob) PROVE HandleMoves(h)
      <4>1. handles' = [handles EXCEPT ![h].pc = "releasing", ![h].job = NoJob,
                                       ![h].cp = File(h).cp]
        BY <3>1 DEF GotoWith
      <4>2. File(h).cp \in Checkpoints /\ File(h).cp.session # NoSession
        BY <1>3, WorkingInSession DEF Abandon
      <4>3. NoJob \in Grants \cup Keys \cup {NoJob}
        OBVIOUS
      <4>4. QED
        BY <4>1, <4>2, <4>3, BusyMoves
    <3>2. ASSUME Close(h) PROVE HandleMoves(h)
      BY <2>1, <3>2, PlainMoves
    <3>3. QED
      BY <1>3, <3>1, <3>2 DEF Abandon
  <2>3. FileMoves(h)
    <3>1. ASSUME Write(h, [File(h) EXCEPT !.slots = [k \in Keys |->
                     IF @[k] = "prepared" THEN "abandoned_before_anchor" ELSE @[k]]])
          PROVE  FileMoves(h)
      <4>1. Write(h, [File(h) EXCEPT !.state = File(h).state, !.slots = [k \in Keys |->
                     IF @[k] = "prepared" THEN "abandoned_before_anchor" ELSE @[k]]])
        <5>1. [File(h) EXCEPT !.slots = [k \in Keys |->
                     IF @[k] = "prepared" THEN "abandoned_before_anchor" ELSE @[k]]]
              = [File(h) EXCEPT !.state = File(h).state, !.slots = [k \in Keys |->
                     IF @[k] = "prepared" THEN "abandoned_before_anchor" ELSE @[k]]]
          BY HandleFacts DEF FileRows
        <5>2. QED
          BY <3>1, <5>1
      <4>2. "abandoned_before_anchor" \in SlotStates \ {"prepared", "result"}
        BY DEF SlotStates
      <4>3. QED
        BY <2>1, <4>1, <4>2, SweepWrites
    <3>2. QED
      BY <1>3, <3>1 DEF Abandon, FileMoves
  <2>4. QED
    BY <1>0, <2>1, <2>2, <2>3 DEF Moves
<1>4. CASE Release(h)
  <2>1. /\ handles[h].cp \in Checkpoints /\ handles[h].cp.session # NoSession
        /\ R(h) \in Registries
    BY <1>4, HandleFacts DEF Release, At, GoodHandle, HandleRows
  <2>2. AnchorStep
    BY <1>4, <2>1 DEF Release, CallFails, AnchorStep
  <2>3. ASSUME Received(h, "released") \/ Goto(h, "release_failed") PROVE HandleMoves(h)
    BY <2>2, <2>3, PlainMoves
  <2>4. HandleMoves(h)
    BY <1>4, <2>3 DEF Release
  <2>5. QED
    BY <1>0, <1>4, <2>2, <2>4 DEF Release, Moves, FileMoves
<1>5. CASE StoreRelease(h)
  <2>1. /\ AnchorStep /\ UNCHANGED <<sent, answered>> /\ answered \subseteq answered'
        /\ {"ready", "quarantined"} \subseteq FileStates \ {"active"}
    BY <1>5 DEF StoreRelease, AnchorStep, FileStates
  <2>2. HandleMoves(h)
    BY <1>5, <2>1, PlainMoves DEF StoreRelease
  <2>3. ASSUME NEW state \in {"ready", "quarantined"},
               \/ Write(h, [File(h) EXCEPT !.state = state])
               \/ Write(h, [File(h) EXCEPT !.state = state, !.cp = handles[h].cp])
        PROVE  FileMoves(h)
    BY <2>1, <2>3, StateMoves
  <2>4. FileMoves(h)
    BY <1>5, <2>3 DEF StoreRelease, FileMoves
  <2>5. QED
    BY <1>0, <2>1, <2>2, <2>4 DEF Moves
<1>6. QED
  BY <1>1, <1>2, <1>3, <1>4, <1>5 DEF Closing

LEMMA CrashMoves ==
  ASSUME AuthInv, NEW h \in Handles, Crash(h)
  PROVE  Moves(h)
<1>1. /\ AnchorStep /\ UNCHANGED <<files, sent, answered>> /\ answered \subseteq Keys
      /\ Close(h)
  BY DEF Crash, AnchorStep, AuthInv, TypeOK
<1>2. HandleMoves(h)
  BY <1>1, PlainMoves DEF Points, BusyPoints, InSessionPoints, ToSend
<1>3. QED
  BY <1>1, <1>2 DEF Moves, FileMoves

\* A copied file is as good in its new place.
LEMMA CopyKeeps ==
  ASSUME AuthInv, NEW f \in Files, NEW g \in Files, Copy(f, g)
  PROVE  AuthInv'
<1>1. /\ UNCHANGED <<anchor, claimed, consumed, handles, sent, answered>>
      /\ files' = [files EXCEPT ![g] = files[f]] /\ FileRegistry[f] = FileRegistry[g]
  BY DEF Copy, anchorVars
<1>2. TypeOK'
  BY <1>1 DEF AuthInv, TypeOK, AnchorTypeOK
<1>3. GoodFile(g, files[f], claimed, answered)
  BY <1>1 DEF AuthInv, GoodFile
<1>4. ASSUME NEW x \in Files PROVE GoodFile(x, files'[x], claimed', answered')
  BY <1>1, <1>3 DEF AuthInv, TypeOK
<1>5. Registered' /\ SendsOnce'
  BY <1>1 DEF AuthInv, Registered, SendsOnce
<1>6. \A h \in Handles : GoodHandle(h, handles'[h], claimed', consumed', answered', sent')
  BY <1>1 DEF AuthInv
<1>7. QED
  BY <1>2, <1>4, <1>5, <1>6 DEF AuthInv

--------------------------------------------------------------------------------

LEMMA StepMoves ==
  ASSUME AuthInv, Next
  PROVE  \/ \E h \in Handles : Moves(h) \/ Send(h)
         \/ \E f, g \in Files : Copy(f, g)
  BY OpeningMoves, ImportingMoves, DispatchingMoves, ClosingMoves, CrashMoves DEF Next

LEMMA AuthStep == AuthInv /\ [Next]_vars => AuthInv'
<1> SUFFICES ASSUME AuthInv, [Next]_vars PROVE AuthInv'
  OBVIOUS
<1>1. CASE UNCHANGED vars
  BY <1>1 DEF vars, anchorVars, AuthInv, TypeOK, AnchorTypeOK, Registered, SendsOnce
<1>2. ASSUME NEW h \in Handles, Moves(h) PROVE AuthInv'
  BY <1>2, MovesKeep DEF Moves
<1>3. QED
  BY <1>1, <1>2, StepMoves, SendKeeps, CopyKeeps

LEMMA AuthInvariant == Spec => []AuthInv
  BY AuthInit, AuthStep, PTL DEF Spec

\* dispatch of offline-gateway.ts on burnDispatch of authority-registry.ts: in
\* however many files and copies of them a registry lives, and whatever its
\* processes and the anchor's answers go through, a slot's request leaves at most
\* once, after the anchor consumed the slot and the earlier ones were answered.
THEOREM SendsAnchored == Spec => []SendsAreAnchored
<1>1. AuthInv => SendsAreAnchored
  <2> SUFFICES ASSUME AuthInv, NEW k \in Keys
               PROVE  /\ sent[k] <= 1 /\ (sent[k] = 1 => k \in consumed)
                      /\ sent[k] > 0 => \A i \in 1..(k[2] - 1) : <<k[1], i>> \in answered
    BY DEF SendsAreAnchored, CallsKeepOrder
  <2>1. sent[k] \in Nat
    BY DEF AuthInv, TypeOK
  <2>2. QED
    BY <2>1 DEF AuthInv, SendsOnce, Prior
<1>2. QED
  BY <1>1, AuthInvariant, PTL

\* local-anchor-stub.ts under authority-registry.ts: every run of any number of
\* registries on one anchor is a run of AnchorPromise.
THEOREM AnchorKeepsPromise == Spec => ImplementsPromise
<1>1. Init => Promise!Init
  BY DEF Init, AnchorInit, Unregistered, Promise!Init
<1>2. AuthInv /\ [Next]_vars => [Promise!Next]_(Promise!promiseVars)
  <2> SUFFICES ASSUME AuthInv, [Next]_vars PROVE [Promise!Next]_(Promise!promiseVars)
    OBVIOUS
  <2>1. AnchorStep
    <3>1. UNCHANGED anchorVars => AnchorStep
      BY DEF AnchorStep
    <3>2. QED
      BY <3>1, StepMoves DEF vars, Moves, Send, Copy
  <2>2. QED
    BY <2>1, AnchorStepMaps DEF AuthInv, TypeOK
<1>3. QED
  BY <1>1, <1>2, AuthInvariant, PTL DEF Spec, ImplementsPromise, Promise!Spec

--------------------------------------------------------------------------------
(* Who may write a file, and what checkpoints say.                          *)

Pending   == {"registered", "acquired", "claimed", "burnt", "released"}
Released  == {"released", "release_failed"}
Active    == {"claiming", "claimed", "claim_refused", "claim_unknown", "burnt", "burn_failed",
              "sending", "releasing", "released", "release_failed"}
Inside    == Active \cup {"acquired", "open", "fatal"}
Creating  == {"initializing", "registered"}
Writing   == Inside \cup Creating
Usable    == {"ready", "active", "quarantined"}

Fresh == [NoFile EXCEPT !.state = "initializing"]

\* A checkpoint is an earlier one of the anchor's, or its last.
Bounded(cp, a) ==
    /\ cp.sequence <= a.sequence
    /\ cp.sequence = a.sequence => cp = a
    /\ cp.token <= a.token

\* The table rows grants and slots tell registry r's history at the anchor.
Identify(r, grants, slots, C, K) ==
    \A g \in Grants : RegistryOf[g] = r =>
        /\ g \in C <=> grants[g] = "active"
        /\ g \in C => \A k \in KeysOf(g) : k \in K <=> slots[k] \in SpentStates

RowInDoubt(file) == \E k \in Keys : file.slots[k] \in {"anchor_ambiguous", "unknown_after_crash"}

FileTells(f, file, a, C, K) ==
    /\ Bounded(file.cp, a)
    /\ (file.cp = a /\ a.sequence > 0) => Identify(FileRegistry[f], file.grants, file.slots, C, K)
    /\ RowInDoubt(file) => file.state = "quarantined"
    /\ file.state = "quarantined" => file.cp.session # NoSession
    /\ file.state = "absent" => file = NoFile

\* What a process relies on: the state of its file, ...
Holds(row, file) ==
    /\ row.pc \in Creating => file = Fresh
    /\ row.pc \in {"verified", "inspected"} => file.state \in Usable
    /\ row.pc = "acquired" => file.state = "ready"
    /\ row.pc \in {"open", "fatal"} => file.state \in {"active", "quarantined"}
    /\ row.pc \in Active => file.state = "active"

\* ... the rows of its job, ...
HoldsJob(row, file, r) ==
    /\ row.pc \in {"claiming", "claimed", "claim_refused", "claim_unknown"} =>
          row.job \in Grants /\ RegistryOf[row.job] = r /\ file.grants[row.job] = "prepared"
    /\ row.pc \in {"claiming", "claimed"} =>
          \A k \in KeysOf(row.job) : file.slots[k] = "allocated"
    /\ row.pc \in {"burnt", "burn_failed"} =>
          row.job \in Keys /\ file.slots[row.job] = "prepared"

\* ... the session and its token, ...
HoldsSession(row, file, a) ==
    /\ row.pc \in {"claiming", "releasing"} => row.cp = file.cp
    /\ (row.pc = "inspected" /\ row.cp = a) => file.cp = a
    /\ row.pc \in Inside \ {"acquired"} => file.cp.token = row.cp.token
    /\ row.pc \in Inside \ Released => a.session # NoSession /\ a.token = row.cp.token
    /\ row.pc \in Pending => row.cp = a /\ a.sequence > 0

\* ... and that its file tells the history once it stores what it received.
WillTell(row, file, r, C, K) ==
    /\ row.pc = "registered" => \A g \in C : RegistryOf[g] # r
    /\ row.pc \in {"acquired", "released"} => Identify(r, file.grants, file.slots, C, K)
    /\ row.pc = "claimed" =>
          Identify(r, [file.grants EXCEPT ![row.job] = "active"], file.slots, C, K)
    /\ row.pc = "burnt" =>
          Identify(r, file.grants, [file.slots EXCEPT ![row.job] = "dispatching"], C, K)

HandleTells(h, row, file, a, C, K) ==
    /\ Bounded(row.cp, a)
    /\ Holds(row, file)
    /\ HoldsJob(row, file, R(h))
    /\ HoldsSession(row, file, a)
    /\ WillTell(row, file, R(h), C, K)

\* A file has one writer, a session one process, and the last checkpoint is in
\* files or with the one process that received it.
WritersApart ==
    \A h, i \in Handles :
        (FileOf[h] = FileOf[i] /\ handles[h].pc \in Writing /\ handles[i].pc \in Writing) => h = i

TokensApart ==
    \A h, i \in Handles :
        (R(h) = R(i) /\ handles[h].pc \in Inside /\ handles[i].pc \in Inside
             /\ handles[h].cp.token = handles[i].cp.token) => h = i

NewestIsPending ==
    \A h \in Handles : handles[h].pc \in Pending =>
        /\ \A f \in Files : FileRegistry[f] = R(h) => files[f].cp # anchor[R(h)]
        /\ \A i \in Handles : (R(i) = R(h) /\ handles[i].cp = anchor[R(h)]) => i = h

\* The anchor's consents share no execution, and its slots are theirs.
ClaimsApart ==
    /\ \A g, x \in claimed : Authorized[g] \cap Authorized[x] # {} => g = x
    /\ \A k \in consumed : \E g \in claimed : k \in KeysOf(g)
    /\ \A g \in claimed : anchor[RegistryOf[g]].sequence > 0

\* Once a slot is in doubt, the session it was in is never given up, and the one
\* process that may still be in it has a quarantined file.
DoubtsStop ==
    \A f \in Files : InDoubt(f) =>
        /\ anchor[FileRegistry[f]].session # NoSession
        /\ \A h \in Handles : (R(h) = FileRegistry[f] /\ handles[h].pc \in Inside
                                  /\ handles[h].cp.token = anchor[R(h)].token)
                                 => File(h).state = "quarantined"

TellInv ==
    /\ \A f \in Files : FileTells(f, files[f], anchor[FileRegistry[f]], claimed, consumed)
    /\ \A h \in Handles : HandleTells(h, handles[h], File(h), anchor[R(h)], claimed, consumed)
    /\ WritersApart /\ TokensApart /\ NewestIsPending /\ ClaimsApart /\ DoubtsStop

--------------------------------------------------------------------------------
(* Steps that ask the anchor nothing.                                       *)

\* Process h moves, and writes its file only as its writer; a new checkpoint in
\* the file is the one it received, and a new doubt is about its own session.
Local(h) ==
    /\ UNCHANGED anchorVars
    /\ \A f \in Files : f # FileOf[h] => files'[f] = files[f]
    /\ \A i \in Handles : i # h => handles'[i] = handles[i]
    /\ handles'[h].pc \notin Pending
    /\ handles'[h].cp \in {handles[h].cp, File(h).cp, Unregistered}
    /\ handles'[h].pc \in Inside => /\ handles[h].pc \in Inside
                                    /\ handles'[h].cp.token = handles[h].cp.token
    /\ handles'[h].pc \in Creating => handles[h].pc \in Creating \/ File(h).state = "absent"
    /\ files'[FileOf[h]] # File(h) =>
          /\ handles[h].pc \in Writing \/ File(h).state = "absent"
          /\ File(h).state \in Usable => files'[FileOf[h]].state \in Usable
          /\ File(h).state # "quarantined"
    /\ files'[FileOf[h]].cp # File(h).cp =>
          handles[h].pc \in Pending /\ files'[FileOf[h]].cp = handles[h].cp
    /\ RowInDoubt(files'[FileOf[h]]) =>
          \/ RowInDoubt(File(h))
          \/ handles[h].pc \in Inside \ Released
    /\ FileTells(FileOf[h], files'[FileOf[h]], anchor[R(h)], claimed, consumed)
    /\ HandleTells(h, handles'[h], files'[FileOf[h]], anchor[R(h)], claimed, consumed)

LEMMA Known ==
  ASSUME AuthInv, TellInv, NEW h \in Handles
  PROVE  /\ handles[h] \in HandleRows /\ File(h) \in FileRows /\ File(h) = files[FileOf[h]]
         /\ FileOf[h] \in Files /\ R(h) \in Registries /\ R(h) = FileRegistry[FileOf[h]]
         /\ FileTells(FileOf[h], File(h), anchor[R(h)], claimed, consumed)
         /\ HandleTells(h, handles[h], File(h), anchor[R(h)], claimed, consumed)
  BY HandleFacts DEF TellInv, File

LEMMA LocalKeeps ==
  ASSUME AuthInv, TellInv, NEW h \in Handles, Local(h)
  PROVE  TellInv'
<1> DEFINE f == FileOf[h]
           r == R(h)
<1> USE DEF File
<1>0. UNCHANGED <<anchor, claimed, consumed>>
  BY DEF Local, anchorVars
<1>1. ASSUME NEW x \in Files
      PROVE  FileTells(x, files'[x], anchor'[FileRegistry[x]], claimed', consumed')
  BY <1>0, Known DEF Local, TellInv
<1>2. ASSUME NEW i \in Handles, i # h, FileOf[i] = f, files'[f] # files[f]
      PROVE  /\ handles[i].pc \notin Writing
             /\ files[f].state = "absent" => handles[i].pc \notin {"verified", "inspected"}
             /\ handles[i].cp = anchor[r] => files'[f].cp = files[f].cp
  <2>1. Holds(handles[i], files[f]) /\ R(i) = r
    BY <1>2, Known DEF HandleTells, R
  <2>2. CASE handles[h].pc \in Writing
    BY <1>2, <2>1, <2>2 DEF TellInv, WritersApart, NewestIsPending, Local, Holds, Usable
  <2>3. CASE files[f].state = "absent"
    BY <1>2, <2>1, <2>3 DEF TellInv, NewestIsPending, Local, Holds, Usable, Writing, Inside,
                           Creating, Fresh, Active, NoFile
  <2>4. QED
    BY <1>2, <2>2, <2>3 DEF Local
<1>3. ASSUME NEW i \in Handles
      PROVE  HandleTells(i, handles'[i], files'[FileOf[i]], anchor'[R(i)], claimed', consumed')
  <2>1. HandleTells(i, handles[i], files[FileOf[i]], anchor[R(i)], claimed, consumed)
    BY Known
  <2>2. CASE i = h
    BY <1>0, <2>2 DEF Local
  <2>3. CASE i # h /\ files'[FileOf[i]] = files[FileOf[i]]
    BY <1>0, <2>1, <2>3 DEF Local
  <2>4. CASE i # h /\ files'[FileOf[i]] # files[FileOf[i]]
    <3>1. FileOf[i] = f /\ R(i) = r /\ handles'[i] = handles[i]
      BY <2>4, Known DEF Local, R
    <3>2. /\ handles[i].pc \notin Writing
          /\ files[f].state = "absent" => handles[i].pc \notin {"verified", "inspected"}
          /\ handles[i].cp = anchor[r] => files'[f].cp = files[f].cp
      BY <1>2, <2>4, <3>1
    <3>3. Holds(handles[i], files'[f])
      BY <2>1, <2>4, <3>1, <3>2 DEF HandleTells, Holds, Local, Writing, Inside, Creating, Active
    <3>4. HoldsJob(handles[i], files'[f], r) /\ WillTell(handles[i], files'[f], r, claimed, consumed)
      BY <3>2 DEF HoldsJob, WillTell, Writing, Inside, Creating, Active
    <3>5. HoldsSession(handles[i], files'[f], anchor[r])
      BY <2>1, <3>1, <3>2 DEF HandleTells, HoldsSession, Writing, Inside, Creating, Active, Pending
    <3>6. QED
      BY <1>0, <2>1, <3>1, <3>3, <3>4, <3>5 DEF HandleTells
  <2>5. QED
    BY <2>2, <2>3, <2>4
<1>4. WritersApart'
  <2>1. ASSUME NEW i \in Handles, i # h, FileOf[i] = f, handles'[h].pc \in Writing
        PROVE  handles'[i].pc \notin Writing
    <3>1. handles'[i] = handles[i] /\ Holds(handles[i], files[f])
      BY <2>1, Known DEF Local, HandleTells
    <3>2. CASE handles[h].pc \in Writing
      BY <2>1, <3>1, <3>2 DEF TellInv, WritersApart
    <3>3. CASE files[f].state = "absent"
      BY <3>1, <3>3 DEF Holds, Usable, Writing, Inside, Creating, Fresh, Active, NoFile
    <3>4. QED
      BY <2>1, <3>2, <3>3 DEF Local, Writing
  <2>2. QED
    BY <2>1 DEF WritersApart, Local, TellInv
<1>5. TokensApart'
  BY DEF TokensApart, Local, TellInv
<1>6. NewestIsPending'
  <2>1. ASSUME NEW i \in Handles, handles'[i].pc \in Pending
        PROVE  /\ \A x \in Files : FileRegistry[x] = R(i) => files'[x].cp # anchor[R(i)]
               /\ \A j \in Handles : (R(j) = R(i) /\ handles'[j].cp = anchor[R(i)]) => j = i
    <3>1. i # h /\ handles'[i] = handles[i] /\ handles[i].pc \in Pending
      BY <2>1 DEF Local
    <3>2. anchor[R(i)].sequence > 0 /\ anchor[R(i)] # Unregistered
      BY <3>1, Known DEF HandleTells, HoldsSession, Unregistered
    <3>3. ASSUME R(h) = R(i)
          PROVE  files'[f].cp # anchor[R(i)] /\ handles'[h].cp # anchor[R(i)]
      <4>1. handles[h].cp # anchor[R(i)] /\ files[f].cp # anchor[R(i)]
        BY <3>1, <3>3, Known DEF TellInv, NewestIsPending
      <4>2. QED
        BY <3>2, <4>1 DEF Local
    <3>4. ASSUME NEW x \in Files, FileRegistry[x] = R(i) PROVE files'[x].cp # anchor[R(i)]
      BY <3>1, <3>3, <3>4, Known DEF TellInv, NewestIsPending, Local
    <3>5. ASSUME NEW j \in Handles, R(j) = R(i), handles'[j].cp = anchor[R(i)] PROVE j = i
      BY <3>1, <3>3, <3>5 DEF TellInv, NewestIsPending, Local
    <3>6. QED
      BY <3>4, <3>5
  <2>2. QED
    BY <1>0, <2>1, Zenon DEF NewestIsPending, R
<1>7. ClaimsApart'
  BY <1>0 DEF TellInv, ClaimsApart
<1>8. DoubtsStop'
  <2>1. ASSUME NEW x \in Files, RowInDoubt(files'[x])
        PROVE  /\ anchor[FileRegistry[x]].session # NoSession
               /\ \A i \in Handles : (R(i) = FileRegistry[x] /\ handles'[i].pc \in Inside
                                        /\ handles'[i].cp.token = anchor[R(i)].token)
                                           => files'[FileOf[i]].state = "quarantined"
    <3>1. CASE RowInDoubt(files[x])
      <4>1. /\ anchor[FileRegistry[x]].session # NoSession
            /\ \A i \in Handles : (R(i) = FileRegistry[x] /\ handles[i].pc \in Inside
                                     /\ handles[i].cp.token = anchor[R(i)].token)
                                        => files[FileOf[i]].state = "quarantined"
        BY <3>1 DEF TellInv, DoubtsStop, InDoubt, RowInDoubt
      <4>2. ASSUME NEW i \in Handles, R(i) = FileRegistry[x], handles'[i].pc \in Inside,
                   handles'[i].cp.token = anchor[R(i)].token
            PROVE  files'[FileOf[i]].state = "quarantined"
        <5>1. handles[i].pc \in Inside /\ handles[i].cp.token = anchor[R(i)].token
          BY <4>2 DEF Local
        <5>2. files[FileOf[i]].state = "quarantined"
          BY <4>1, <4>2, <5>1
        <5>3. QED
          BY <5>2, Known DEF Local
      <4>3. QED
        BY <4>1, <4>2
    <3>2. CASE ~RowInDoubt(files[x])
      <4>1. x = f /\ handles[h].pc \in Inside \ Released /\ files'[f].state = "quarantined"
        BY <2>1, <3>2 DEF Local, FileTells
      <4>2. anchor[r].session # NoSession /\ anchor[r].token = handles[h].cp.token
        BY <4>1, Known DEF HandleTells, HoldsSession
      <4>3. ASSUME NEW i \in Handles, R(i) = FileRegistry[x], handles'[i].pc \in Inside,
                   handles'[i].cp.token = anchor[R(i)].token
            PROVE  files'[FileOf[i]].state = "quarantined"
        <5>1. /\ handles[i].pc \in Inside /\ handles[i].cp.token = anchor[R(i)].token
              /\ R(i) = r
          BY <4>1, <4>3, Known DEF Local
        <5>2. i = h
          BY <4>1, <4>2, <5>1 DEF TellInv, TokensApart
        <5>3. QED
          BY <4>1, <5>2
      <4>4. QED
        BY <4>1, <4>2, <4>3, Known
    <3>3. QED
      BY <3>1, <3>2
  <2>2. QED
    BY <1>0, <2>1, Zenon DEF DoubtsStop, InDoubt, RowInDoubt, R
<1>9. QED
  BY <1>1, <1>3, <1>4, <1>5, <1>6, <1>7, <1>8, Zenon DEF TellInv, R

\* Local steps by what they make of the process and its file.
Settles(h, row, file) ==
    /\ row.pc \notin Pending
    /\ row.cp \in {handles[h].cp, File(h).cp, Unregistered}
    /\ row.pc \in Inside => handles[h].pc \in Inside /\ row.cp.token = handles[h].cp.token
    /\ row.pc \in Creating => handles[h].pc \in Creating \/ File(h).state = "absent"
    /\ file # File(h) =>
          /\ handles[h].pc \in Writing \/ File(h).state = "absent"
          /\ File(h).state \in Usable => file.state \in Usable
          /\ File(h).state # "quarantined"
    /\ file.cp # File(h).cp => handles[h].pc \in Pending /\ file.cp = handles[h].cp
    /\ RowInDoubt(file) => RowInDoubt(File(h)) \/ handles[h].pc \in Inside \ Released
    /\ FileTells(FileOf[h], file, anchor[R(h)], claimed, consumed)
    /\ HandleTells(h, row, file, anchor[R(h)], claimed, consumed)

LEMMA SettlesIsLocal ==
  ASSUME AuthInv, TellInv, NEW h \in Handles, NEW row, NEW file, Settles(h, row, file),
         UNCHANGED anchorVars,
         handles' = [handles EXCEPT ![h] = row],
         files' = [files EXCEPT ![FileOf[h]] = file]
  PROVE  TellInv'
<1>1. /\ handles'[h] = row /\ files'[FileOf[h]] = file
      /\ \A f \in Files : f # FileOf[h] => files'[f] = files[f]
      /\ \A i \in Handles : i # h => handles'[i] = handles[i]
  BY Known DEF AuthInv, TypeOK
<1>2. Local(h)
  BY <1>1 DEF Settles, Local
<1>3. QED
  BY <1>2, LocalKeeps

\* The file is as it was.
LEMMA RowSettles ==
  ASSUME AuthInv, TellInv, NEW h \in Handles, NEW row, UNCHANGED <<anchorVars, files>>,
         handles' = [handles EXCEPT ![h] = row],
         row.pc \notin Pending,
         row.cp \in {handles[h].cp, File(h).cp, Unregistered},
         row.pc \in Inside => handles[h].pc \in Inside /\ row.cp.token = handles[h].cp.token,
         row.pc \in Creating => handles[h].pc \in Creating,
         HandleTells(h, row, File(h), anchor[R(h)], claimed, consumed)
  PROVE  TellInv'
<1>1. Settles(h, row, File(h))
  BY Known DEF Settles
<1>2. files' = [files EXCEPT ![FileOf[h]] = File(h)]
  BY Known DEF AuthInv, TypeOK
<1>3. QED
  BY <1>1, <1>2, SettlesIsLocal DEF anchorVars

LEMMA IdleTells ==
  ASSUME AuthInv, NEW h \in Handles, NEW row \in {Unopened, Closed}, NEW file
  PROVE  /\ row.pc \in {"unopened", "closed"} /\ row.cp = Unregistered
         /\ HandleTells(h, row, file, anchor[R(h)], claimed, consumed)
<1>1. row.pc \in {"unopened", "closed"} /\ row.cp = Unregistered
  BY DEF Unopened, Closed
<1>2. Bounded(row.cp, anchor[R(h)])
  BY <1>1, HandleRegistry DEF Bounded, Unregistered, AuthInv, Registered, TypeOK, AnchorTypeOK,
                              Checkpoints
<1>3. QED
  BY <1>1, <1>2 DEF HandleTells, Holds, HoldsJob, HoldsSession, WillTell, Inside, Active, Creating,
                    Pending

LEMMA CloseSettles ==
  ASSUME AuthInv, TellInv, NEW h \in Handles, UNCHANGED <<anchorVars, files>>, Close(h)
  PROVE  TellInv'
<1>1. /\ Closed.pc = "closed" /\ Closed.cp = Unregistered
      /\ HandleTells(h, Closed, File(h), anchor[R(h)], claimed, consumed)
  BY IdleTells DEF Closed
<1>2. QED
  BY <1>1, RowSettles DEF Close, Pending, Inside, Active, Creating

--------------------------------------------------------------------------------
(* Opening.                                                                 *)

LEMMA CreateTells ==
  ASSUME AuthInv, TellInv, NEW h \in Handles, CreateFile(h)
  PROVE  TellInv'
<1> DEFINE row == [handles[h] EXCEPT !.pc = "initializing"]
<1>1. /\ row.pc = "initializing" /\ row.cp = handles[h].cp
      /\ File(h) = NoFile
  BY Known DEF HandleRows, FileTells, CreateFile
<1>2. /\ Fresh.cp = Unregistered /\ Fresh.state = "initializing" /\ File(h).cp = Unregistered
      /\ ~RowInDoubt(Fresh)
  BY <1>1 DEF Fresh, NoFile, RowInDoubt
<1>3. FileTells(FileOf[h], Fresh, anchor[R(h)], claimed, consumed)
  <2>1. FileTells(FileOf[h], File(h), anchor[R(h)], claimed, consumed)
    BY Known
  <2>2. anchor[R(h)] # Unregistered \/ anchor[R(h)].sequence = 0
    BY DEF Unregistered
  <2>3. QED
    BY <1>2, <2>1, <2>2 DEF FileTells, Unregistered
<1>4. HandleTells(h, row, Fresh, anchor[R(h)], claimed, consumed)
  BY <1>1, Known DEF HandleTells, Holds, HoldsJob, HoldsSession, WillTell, Inside, Active,
                     Creating, Pending
<1>5. Settles(h, row, Fresh)
  BY <1>1, <1>2, <1>3, <1>4 DEF Settles, Pending, Inside, Active, Usable, NoFile
<1>6. QED
  BY <1>5, SettlesIsLocal DEF CreateFile, Goto, Write, Fresh

LEMMA StoreRegistrationTells ==
  ASSUME AuthInv, TellInv, NEW h \in Handles, StoreRegistration(h)
  PROVE  TellInv'
<1> DEFINE file == [File(h) EXCEPT !.state = "ready", !.cp = handles[h].cp]
<1>1. CASE UNCHANGED files /\ Close(h)
  BY <1>1, CloseSettles DEF StoreRegistration
<1>2. CASE Write(h, file) /\ handles' = [handles EXCEPT ![h] = Unopened]
  <2>1. /\ handles[h].pc = "registered" /\ File(h) = Fresh
        /\ HandleTells(h, handles[h], File(h), anchor[R(h)], claimed, consumed)
    BY Known DEF StoreRegistration, At, HandleTells, Holds, Creating
  <2>2. /\ file.state = "ready" /\ file.cp = handles[h].cp
        /\ file.grants = [g \in Grants |-> "none"] /\ file.slots = [k \in Keys |-> "none"]
    BY <2>1 DEF Fresh, NoFile
  <2>3. /\ Unopened.pc = "unopened" /\ Unopened.cp = Unregistered
        /\ HandleTells(h, Unopened, file, anchor[R(h)], claimed, consumed)
    BY IdleTells DEF Unopened
  <2>4. FileTells(FileOf[h], file, anchor[R(h)], claimed, consumed)
    <3>1. \A g \in claimed : RegistryOf[g] # R(h)
      BY <2>1 DEF HandleTells, WillTell
    <3>2. Identify(R(h), file.grants, file.slots, claimed, consumed)
      BY <2>2, <3>1 DEF Identify
    <3>3. QED
      BY <2>1, <2>2, <3>2, Known DEF FileTells, HandleTells, RowInDoubt
  <2>5. Settles(h, Unopened, file)
    <3>1. File(h).state = "initializing" /\ ~RowInDoubt(file)
      BY <2>1, <2>2 DEF Fresh, NoFile, RowInDoubt
    <3>2. QED
      BY <2>1, <2>2, <2>3, <2>4, <3>1 DEF Settles, Pending, Inside, Active, Creating, Writing, Usable
  <2>6. QED
    BY <1>2, <2>5, SettlesIsLocal DEF StoreRegistration, Write
<1>3. QED
  BY <1>1, <1>2 DEF StoreRegistration

LEMMA VerifyTells ==
  ASSUME AuthInv, TellInv, NEW h \in Handles, VerifyDatabase(h)
  PROVE  TellInv'
<1> DEFINE row == [handles[h] EXCEPT !.pc = "verified"]
<1>1. row.pc = "verified" /\ row.cp = handles[h].cp
  BY Known DEF HandleRows
<1>2. HandleTells(h, row, File(h), anchor[R(h)], claimed, consumed)
  BY <1>1, Known DEF VerifyDatabase, HandleTells, Holds, HoldsJob, HoldsSession, WillTell, Inside,
                     Active, Creating, Pending, Usable
<1>3. QED
  BY <1>1, <1>2, RowSettles DEF VerifyDatabase, Goto, Pending, Inside, Active, Creating

LEMMA InspectTells ==
  ASSUME AuthInv, TellInv, NEW h \in Handles, InspectRegistry(h)
  PROVE  TellInv'
<1> DEFINE row == [handles[h] EXCEPT !.pc = "inspected", !.job = NoJob, !.cp = File(h).cp]
<1>1. CASE Close(h)
  BY <1>1, CloseSettles DEF InspectRegistry
<1>2. CASE GotoWith(h, "inspected", NoJob)
  <2>1. row.pc = "inspected" /\ row.cp = File(h).cp /\ handles[h].pc = "verified"
    BY Known DEF HandleRows, InspectRegistry, At
  <2>2. HandleTells(h, row, File(h), anchor[R(h)], claimed, consumed)
    BY <2>1, Known DEF HandleTells, FileTells, Holds, HoldsJob, HoldsSession, WillTell, Inside,
                       Active, Creating, Pending
  <2>3. handles' = [handles EXCEPT ![h] = row]
    BY <1>2 DEF GotoWith
  <2> HIDE DEF row
  <2>4. QED
    BY <2>1, <2>2, <2>3, RowSettles DEF InspectRegistry, Pending, Inside, Active, Creating
<1>3. QED
  BY <1>1, <1>2 DEF InspectRegistry

LEMMA StoreSessionTells ==
  ASSUME AuthInv, TellInv, NEW h \in Handles, StoreSession(h)
  PROVE  TellInv'
<1> DEFINE row == [handles[h] EXCEPT !.pc = "open"]
           file == [File(h) EXCEPT !.state = "active", !.cp = handles[h].cp]
<1>1. CASE UNCHANGED files /\ Close(h)
  BY <1>1, CloseSettles DEF StoreSession
<1>2. CASE Write(h, file) /\ Goto(h, "open")
  <2>1. /\ handles[h].pc = "acquired" /\ File(h).state = "ready"
        /\ HandleTells(h, handles[h], File(h), anchor[R(h)], claimed, consumed)
        /\ FileTells(FileOf[h], File(h), anchor[R(h)], claimed, consumed)
    BY Known DEF StoreSession, At, HandleTells, Holds
  <2>2. /\ file.state = "active" /\ file.cp = handles[h].cp
        /\ file.grants = File(h).grants /\ file.slots = File(h).slots
        /\ row.pc = "open" /\ row.cp = handles[h].cp
    BY Known DEF FileRows, HandleRows
  <2>3. FileTells(FileOf[h], file, anchor[R(h)], claimed, consumed)
    BY <2>1, <2>2, Known DEF FileTells, HandleTells, WillTell, RowInDoubt
  <2>4. HandleTells(h, row, file, anchor[R(h)], claimed, consumed)
    BY <2>1, <2>2 DEF HandleTells, Holds, HoldsJob, HoldsSession, WillTell, Inside, Active, Creating,
                      Pending, Released
  <2>5. Settles(h, row, file)
    BY <2>1, <2>2, <2>3, <2>4 DEF Settles, Pending, Inside, Active, Creating, Writing, Usable,
                                  RowInDoubt
  <2>6. QED
    BY <1>2, <2>5, SettlesIsLocal DEF StoreSession, Write, Goto
<1>3. QED
  BY <1>1, <1>2 DEF StoreSession

--------------------------------------------------------------------------------
(* Working.                                                                 *)

\* A commit that fails while the file is active.
LEMMA CommitFailsTells ==
  ASSUME AuthInv, TellInv, NEW h \in Handles, CommitFails(h), UNCHANGED anchorVars,
         File(h).state = "active", handles[h].pc \in {"open", "claimed", "burnt"}
  PROVE  TellInv'
<1> DEFINE fatal == [handles[h] EXCEPT !.pc = "fatal"]
           open  == [handles[h] EXCEPT !.pc = "open"]
           file  == [File(h) EXCEPT !.state = "quarantined"]
<1>1. /\ fatal.pc = "fatal" /\ fatal.cp = handles[h].cp
      /\ open.pc = "open" /\ open.cp = handles[h].cp
      /\ file.state = "quarantined" /\ file.cp = File(h).cp
      /\ file.grants = File(h).grants /\ file.slots = File(h).slots
  BY Known DEF HandleRows, FileRows
<1>2. /\ handles[h].pc \in Inside \ Released /\ handles[h].pc # "acquired"
      /\ HandleTells(h, handles[h], File(h), anchor[R(h)], claimed, consumed)
      /\ FileTells(FileOf[h], File(h), anchor[R(h)], claimed, consumed)
  BY Known DEF Inside, Released, Active
<1>3. \/ Write(h, file) /\ handles' = [handles EXCEPT ![h] = open]
      \/ UNCHANGED files /\ handles' = [handles EXCEPT ![h] = fatal]
  BY DEF CommitFails, Goto
<1> HIDE DEF fatal, open, file
<1>4. ASSUME NEW row, row.pc \in {"open", "fatal"}, row.cp = handles[h].cp,
             NEW F, F.state \in {"active", "quarantined"}, F.cp = File(h).cp
      PROVE  HandleTells(h, row, F, anchor[R(h)], claimed, consumed)
  BY <1>2, <1>4 DEF HandleTells, Holds, HoldsJob, HoldsSession, WillTell, Inside, Active,
                    Creating, Pending
<1>5. CASE UNCHANGED files /\ handles' = [handles EXCEPT ![h] = fatal]
  <2>1. HandleTells(h, fatal, File(h), anchor[R(h)], claimed, consumed)
    BY <1>1, <1>4
  <2>2. QED
    BY <1>1, <1>2, <1>5, <2>1, RowSettles DEF Pending, Inside, Active, Creating
<1>6. CASE Write(h, file) /\ handles' = [handles EXCEPT ![h] = open]
  <2>1. FileTells(FileOf[h], file, anchor[R(h)], claimed, consumed)
    BY <1>1, <1>2, HandleFacts DEF FileTells, GoodFile, RowInDoubt
  <2>2. HandleTells(h, open, file, anchor[R(h)], claimed, consumed)
    BY <1>1, <1>4
  <2>3. Settles(h, open, file)
    BY <1>1, <1>2, <2>1, <2>2 DEF Settles, Pending, Inside, Active, Creating, Writing, Usable,
                                  RowInDoubt
  <2>4. QED
    BY <1>6, <2>3, SettlesIsLocal DEF Write
<1>7. QED
  BY <1>3, <1>5, <1>6

LEMMA PrepareTells ==
  ASSUME AuthInv, TellInv, NEW h \in Handles, NEW g \in Grants, PrepareAuthorization(h, g)
  PROVE  TellInv'
<1> DEFINE row == [handles[h] EXCEPT !.pc = "claiming", !.job = g, !.cp = File(h).cp]
           file == [File(h) EXCEPT
                       !.grants[g] = "prepared",
                       !.slots = [k \in Keys |-> IF k \in KeysOf(g) THEN "allocated" ELSE @[k]]]
<1>1. /\ handles[h].pc = "open" /\ File(h).state = "active" /\ RegistryOf[g] = R(h)
      /\ \A x \in Grants : File(h).grants[x] # "none" =>
            AuthorizationOf[x] # AuthorizationOf[g] /\ Authorized[x] \cap Authorized[g] = {}
      /\ HandleTells(h, handles[h], File(h), anchor[R(h)], claimed, consumed)
      /\ FileTells(FileOf[h], File(h), anchor[R(h)], claimed, consumed)
      /\ File(h) \in FileRows
  BY Known DEF PrepareAuthorization, Working, At
<1>2. /\ file.state = "active" /\ file.cp = File(h).cp
      /\ file.grants = [File(h).grants EXCEPT ![g] = "prepared"]
      /\ file.slots = [k \in Keys |-> IF k \in KeysOf(g) THEN "allocated" ELSE File(h).slots[k]]
      /\ row.pc = "claiming" /\ row.cp = File(h).cp /\ row.job = g
  BY <1>1, Known DEF FileRows, HandleRows
<1>3. Write(h, file) /\ handles' = [handles EXCEPT ![h] = row] /\ UNCHANGED anchorVars
  BY DEF PrepareAuthorization, GotoWith
<1> HIDE DEF row, file
<1>4. ~RowInDoubt(file)
  BY <1>1, <1>2 DEF FileTells, RowInDoubt
<1>5. KeysOf(g) \subseteq Keys
  BY AnchorAssumption DEF KeysOf, Keys
<1>6. ASSUME File(h).cp = anchor[R(h)], anchor[R(h)].sequence > 0
      PROVE  Identify(R(h), file.grants, file.slots, claimed, consumed)
  <2>1. Identify(R(h), File(h).grants, File(h).slots, claimed, consumed)
    BY <1>1, <1>6, HandleFacts DEF FileTells
  <2>2. File(h).grants[g] = "none" /\ g \notin claimed
    BY <1>1, <2>1 DEF Identify
  <2>3. ASSUME NEW x \in Grants, RegistryOf[x] = R(h)
        PROVE  /\ x \in claimed <=> file.grants[x] = "active"
               /\ x \in claimed => \A k \in KeysOf(x) : k \in consumed <=> file.slots[k] \in SpentStates
    <3>1. CASE x = g
      BY <1>1, <1>2, <2>2, <3>1 DEF FileRows
    <3>2. CASE x # g
      <4>1. /\ x \in claimed <=> file.grants[x] = "active"
            /\ x \in claimed => File(h).grants[x] # "none"
        BY <1>1, <1>2, <2>1, <2>3, <3>2 DEF Identify, FileRows
      <4>2. ASSUME x \in claimed, NEW k \in KeysOf(x)
            PROVE  k \notin KeysOf(g) /\ k \in Keys
        BY <1>1, <4>1, <4>2, AnchorAssumption DEF KeysOf, Keys
      <4>3. QED
        BY <1>2, <2>1, <2>3, <4>1, <4>2 DEF Identify
    <3>3. QED
      BY <3>1, <3>2
  <2>4. QED
    BY <2>3 DEF Identify
<1>7. FileTells(FileOf[h], file, anchor[R(h)], claimed, consumed)
  BY <1>1, <1>2, <1>4, <1>6, HandleFacts DEF FileTells
<1>8. HandleTells(h, row, file, anchor[R(h)], claimed, consumed)
  <2>1. HoldsJob(row, file, R(h)) /\ Holds(row, file)
    BY <1>1, <1>2, <1>5 DEF HoldsJob, Holds, FileRows, Active, Creating
  <2>2. HoldsSession(row, file, anchor[R(h)]) /\ WillTell(row, file, R(h), claimed, consumed)
    BY <1>1, <1>2 DEF HandleTells, HoldsSession, WillTell, Inside, Active, Pending, Released
  <2>3. Bounded(row.cp, anchor[R(h)])
    BY <1>1, <1>2 DEF FileTells
  <2>4. QED
    BY <2>1, <2>2, <2>3 DEF HandleTells
<1>9. Settles(h, row, file)
  <2>1. handles[h].pc \in Inside /\ File(h).cp.token = handles[h].cp.token
    BY <1>1 DEF HandleTells, HoldsSession, Inside
  <2>2. QED
    BY <1>1, <1>2, <1>4, <1>7, <1>8, <2>1 DEF Settles, Pending, Inside, Active, Creating, Writing,
                                             Usable
<1>10. QED
  BY <1>3, <1>9, SettlesIsLocal DEF Write

LEMMA ClaimFailsTells ==
  ASSUME AuthInv, TellInv, NEW h \in Handles, UNCHANGED <<anchorVars, files>>,
         handles[h].pc = "claiming", NEW pc \in {"claim_refused", "claim_unknown"}, Goto(h, pc)
  PROVE  TellInv'
<1> DEFINE row == [handles[h] EXCEPT !.pc = pc]
<1>1. row.pc = pc /\ row.cp = handles[h].cp /\ row.job = handles[h].job
  BY Known DEF HandleRows
<1>2. HandleTells(h, row, File(h), anchor[R(h)], claimed, consumed)
  BY <1>1, Known DEF HandleTells, Holds, HoldsJob, HoldsSession, WillTell, Inside,
                     Active, Creating, Pending, Released
<1>3. QED
  BY <1>1, <1>2, RowSettles DEF Goto, Pending, Inside, Active, Creating

LEMMA RejectTells ==
  ASSUME AuthInv, TellInv, NEW h \in Handles, RejectClaim(h)
  PROVE  TellInv'
<1> DEFINE g == handles[h].job
           row == [handles[h] EXCEPT !.pc = "open"]
           file == [File(h) EXCEPT
                       !.grants[g] = "review_required",
                       !.state = IF At(h, "claim_unknown") THEN "quarantined" ELSE @]
<1>1. /\ handles[h].pc \in {"claim_refused", "claim_unknown"}
      /\ HandleTells(h, handles[h], File(h), anchor[R(h)], claimed, consumed)
      /\ FileTells(FileOf[h], File(h), anchor[R(h)], claimed, consumed)
      /\ File(h) \in FileRows /\ File(h).state = "active" /\ File(h).cp.session # NoSession
      /\ g \in Grants /\ RegistryOf[g] = R(h) /\ File(h).grants[g] = "prepared"
  BY Known, HandleFacts DEF RejectClaim, HandleTells, Holds, HoldsJob, Active, GoodFile
<1>2. /\ file.state \in {"active", "quarantined"} /\ file.cp = File(h).cp
      /\ file.grants = [File(h).grants EXCEPT ![g] = "review_required"]
      /\ file.slots = File(h).slots
      /\ row.pc = "open" /\ row.cp = handles[h].cp
  BY <1>1, Known DEF FileRows, HandleRows
<1>3. ASSUME NEW F, F.state \in {"active", "quarantined"}, F.cp = File(h).cp
      PROVE  HandleTells(h, row, F, anchor[R(h)], claimed, consumed)
  BY <1>1, <1>2, <1>3 DEF HandleTells, Holds, HoldsJob, HoldsSession, WillTell, Inside, Active,
                          Creating, Pending, Released
<1>4. CASE UNCHANGED files
  <2>1. HandleTells(h, row, File(h), anchor[R(h)], claimed, consumed)
    BY <1>1, <1>3
  <2>2. handles' = [handles EXCEPT ![h] = row] /\ UNCHANGED <<anchorVars, files>>
    BY <1>4 DEF RejectClaim, Goto
  <2> HIDE DEF row
  <2>3. QED
    BY <1>1, <1>2, <2>1, <2>2, RowSettles DEF Pending, Inside, Active, Creating
<1>5. CASE Write(h, file)
  <2> HIDE DEF file
  <2>1. ~RowInDoubt(file)
    BY <1>1, <1>2 DEF FileTells, RowInDoubt
  <2>2. FileTells(FileOf[h], file, anchor[R(h)], claimed, consumed)
    BY <1>1, <1>2, <2>1, HandleFacts DEF FileTells, Identify, FileRows
  <2>3. Settles(h, row, file)
    BY <1>1, <1>2, <1>3, <2>1, <2>2 DEF Settles, Pending, Inside, Active, Creating, Writing, Usable
  <2>4. QED
    BY <1>5, <2>3, SettlesIsLocal DEF RejectClaim, Write, Goto
<1>6. Write(h, file) \/ UNCHANGED files
  BY DEF RejectClaim
<1>7. QED
  BY <1>4, <1>5, <1>6

LEMMA ActivateTells ==
  ASSUME AuthInv, TellInv, NEW h \in Handles, ActivateAuthorization(h)
  PROVE  TellInv'
<1> DEFINE g == handles[h].job
           row == [handles[h] EXCEPT !.pc = "open"]
           file == [File(h) EXCEPT !.grants[g] = "active", !.cp = handles[h].cp]
<1>1. /\ handles[h].pc = "claimed" /\ g \in Grants
      /\ HandleTells(h, handles[h], File(h), anchor[R(h)], claimed, consumed)
      /\ FileTells(FileOf[h], File(h), anchor[R(h)], claimed, consumed)
      /\ File(h) \in FileRows /\ File(h).state = "active"
  BY Known DEF ActivateAuthorization, At, HandleTells, Holds, HoldsJob, Active
<1>2. CASE CommitFails(h)
  BY <1>1, <1>2, CommitFailsTells DEF ActivateAuthorization
<1>3. CASE Write(h, file) /\ Goto(h, "open")
  <2>1. /\ file.state = "active" /\ file.cp = handles[h].cp
        /\ file.grants = [File(h).grants EXCEPT ![g] = "active"] /\ file.slots = File(h).slots
        /\ row.pc = "open" /\ row.cp = handles[h].cp
    BY <1>1, Known DEF FileRows, HandleRows
  <2> HIDE DEF file
  <2>2. ~RowInDoubt(file)
    BY <1>1, <2>1 DEF FileTells, RowInDoubt
  <2>3. FileTells(FileOf[h], file, anchor[R(h)], claimed, consumed)
    BY <1>1, <2>1, <2>2, HandleFacts DEF FileTells, HandleTells, WillTell
  <2>4. HandleTells(h, row, file, anchor[R(h)], claimed, consumed)
    BY <1>1, <2>1 DEF HandleTells, Holds, HoldsJob, HoldsSession, WillTell, Inside, Active, Creating,
                      Pending, Released
  <2>5. Settles(h, row, file)
    BY <1>1, <2>1, <2>2, <2>3, <2>4 DEF Settles, Pending, Inside, Active, Creating, Writing, Usable
  <2>6. QED
    BY <1>3, <2>5, SettlesIsLocal DEF ActivateAuthorization, Write, Goto
<1>4. QED
  BY <1>2, <1>3 DEF ActivateAuthorization
LEMMA PrepareSlotTells ==
  ASSUME AuthInv, TellInv, NEW h \in Handles, NEW k \in Keys, PrepareDispatch(h, k)
  PROVE  TellInv'
<1> DEFINE file == [File(h) EXCEPT !.slots[k] = "prepared"]
<1>1. /\ handles[h].pc = "open" /\ File(h).state = "active" /\ File(h).slots[k] = "allocated"
      /\ HandleTells(h, handles[h], File(h), anchor[R(h)], claimed, consumed)
      /\ FileTells(FileOf[h], File(h), anchor[R(h)], claimed, consumed)
      /\ File(h) \in FileRows
  BY Known DEF PrepareDispatch, Working, At
<1>2. /\ file.state = "active" /\ file.cp = File(h).cp /\ file.grants = File(h).grants
      /\ file.slots = [File(h).slots EXCEPT ![k] = "prepared"]
  BY <1>1 DEF FileRows
<1>3. Write(h, file) /\ handles' = [handles EXCEPT ![h] = handles[h]] /\ UNCHANGED anchorVars
  BY HandleFacts DEF PrepareDispatch
<1> HIDE DEF file
<1>4. ~RowInDoubt(file)
  BY <1>1, <1>2 DEF FileTells, RowInDoubt
<1>5. ASSUME Identify(R(h), File(h).grants, File(h).slots, claimed, consumed)
      PROVE  Identify(R(h), file.grants, file.slots, claimed, consumed)
  BY <1>1, <1>2, <1>5, AnchorAssumption DEF Identify, SpentStates, FileRows, KeysOf, Keys
<1>6. FileTells(FileOf[h], file, anchor[R(h)], claimed, consumed)
  BY <1>1, <1>2, <1>4, <1>5, HandleFacts DEF FileTells
<1>7. HandleTells(h, handles[h], file, anchor[R(h)], claimed, consumed)
  BY <1>1, <1>2 DEF HandleTells, Holds, HoldsJob, HoldsSession, WillTell, Inside, Active,
                    Creating, Pending
<1>8. Settles(h, handles[h], file)
  BY <1>1, <1>2, <1>4, <1>6, <1>7 DEF Settles, Pending, Inside, Active, Creating, Writing, Usable
<1>9. QED
  BY <1>3, <1>8, SettlesIsLocal DEF Write

LEMMA BurnRefusedTells ==
  ASSUME AuthInv, TellInv, NEW h \in Handles, NEW k \in Keys, UNCHANGED <<anchorVars, files>>,
         Working(h), File(h).slots[k] = "prepared", GotoWith(h, "burn_failed", k)
  PROVE  TellInv'
<1> DEFINE row == [handles[h] EXCEPT !.pc = "burn_failed", !.job = k, !.cp = File(h).cp]
<1>1. /\ row.pc = "burn_failed" /\ row.job = k /\ row.cp = File(h).cp
      /\ handles[h].pc = "open" /\ File(h).state = "active"
      /\ HandleTells(h, handles[h], File(h), anchor[R(h)], claimed, consumed)
      /\ FileTells(FileOf[h], File(h), anchor[R(h)], claimed, consumed)
  BY Known DEF HandleRows, Working, At
<1>2. HandleTells(h, row, File(h), anchor[R(h)], claimed, consumed)
  BY <1>1 DEF HandleTells, FileTells, Holds, HoldsJob, HoldsSession, WillTell, Inside, Active,
              Creating, Pending, Released
<1>3. handles' = [handles EXCEPT ![h] = row]
  BY DEF GotoWith
<1> HIDE DEF row
<1>4. row.cp.token = handles[h].cp.token
  BY <1>1 DEF HandleTells, HoldsSession, Inside
<1>5. QED
  BY <1>1, <1>2, <1>3, <1>4, RowSettles DEF Pending, Inside, Active, Creating

LEMMA BurnFailsTells ==
  ASSUME AuthInv, TellInv, NEW h \in Handles, BurnFails(h)
  PROVE  TellInv'
<1> DEFINE k == handles[h].job
           row == [handles[h] EXCEPT !.pc = "open"]
           file == [File(h) EXCEPT !.slots[k] = "anchor_ambiguous", !.state = "quarantined"]
<1>1. /\ handles[h].pc = "burn_failed" /\ File(h).state = "active"
      /\ k \in Keys /\ File(h).slots[k] = "prepared" /\ File(h).cp.session # NoSession
      /\ HandleTells(h, handles[h], File(h), anchor[R(h)], claimed, consumed)
      /\ FileTells(FileOf[h], File(h), anchor[R(h)], claimed, consumed)
      /\ File(h) \in FileRows
  BY Known, HandleFacts DEF BurnFails, At, HandleTells, Holds, HoldsJob, Active, GoodFile
<1>2. /\ file.state = "quarantined" /\ file.cp = File(h).cp /\ file.grants = File(h).grants
      /\ file.slots = [File(h).slots EXCEPT ![k] = "anchor_ambiguous"]
      /\ row.pc = "open" /\ row.cp = handles[h].cp
  BY <1>1, Known DEF FileRows, HandleRows
<1>3. /\ Write(h, file) \/ UNCHANGED files
      /\ handles' = [handles EXCEPT ![h] = row] /\ UNCHANGED anchorVars
  BY DEF BurnFails, Goto
<1> HIDE DEF file, row
<1>4. ASSUME NEW F, F.state \in {"active", "quarantined"}, F.cp = File(h).cp
      PROVE  HandleTells(h, row, F, anchor[R(h)], claimed, consumed)
  BY <1>1, <1>2, <1>4 DEF HandleTells, Holds, HoldsJob, HoldsSession, WillTell, Inside, Active,
                          Creating, Pending, Released
<1>5. CASE UNCHANGED files
  <2>1. HandleTells(h, row, File(h), anchor[R(h)], claimed, consumed)
    BY <1>1, <1>4
  <2>2. QED
    BY <1>1, <1>2, <1>3, <1>5, <2>1, RowSettles DEF Pending, Inside, Active, Creating
<1>6. CASE Write(h, file)
  <2>1. ASSUME Identify(R(h), File(h).grants, File(h).slots, claimed, consumed)
        PROVE  Identify(R(h), file.grants, file.slots, claimed, consumed)
    BY <1>1, <1>2, <2>1, AnchorAssumption DEF Identify, SpentStates, FileRows, KeysOf, Keys
  <2>2. FileTells(FileOf[h], file, anchor[R(h)], claimed, consumed)
    BY <1>1, <1>2, <2>1, HandleFacts DEF FileTells
  <2>3. HandleTells(h, row, file, anchor[R(h)], claimed, consumed)
    BY <1>2, <1>4
  <2>4. Settles(h, row, file)
    BY <1>1, <1>2, <2>2, <2>3 DEF Settles, Pending, Inside, Active, Creating, Writing, Usable,
                                  Released
  <2>5. QED
    BY <1>3, <1>6, <2>4, SettlesIsLocal DEF Write
<1>7. QED
  BY <1>3, <1>5, <1>6

LEMMA IssueTells ==
  ASSUME AuthInv, TellInv, NEW h \in Handles, IssueCapability(h)
  PROVE  TellInv'
<1> DEFINE k == handles[h].job
           row == [handles[h] EXCEPT !.pc = "sending"]
           file == [File(h) EXCEPT !.slots[k] = "dispatching", !.cp = handles[h].cp]
<1>1. /\ handles[h].pc = "burnt" /\ File(h).state = "active" /\ k \in Keys
      /\ HandleTells(h, handles[h], File(h), anchor[R(h)], claimed, consumed)
      /\ FileTells(FileOf[h], File(h), anchor[R(h)], claimed, consumed)
      /\ File(h) \in FileRows
  BY Known DEF IssueCapability, At, HandleTells, Holds, HoldsJob, Active
<1>2. CASE CommitFails(h)
  BY <1>1, <1>2, CommitFailsTells DEF IssueCapability
<1>3. CASE Write(h, file) /\ Goto(h, "sending")
  <2>1. /\ file.state = "active" /\ file.cp = handles[h].cp /\ file.grants = File(h).grants
        /\ file.slots = [File(h).slots EXCEPT ![k] = "dispatching"]
        /\ row.pc = "sending" /\ row.cp = handles[h].cp
    BY <1>1, Known DEF FileRows, HandleRows
  <2> HIDE DEF file
  <2>2. ~RowInDoubt(file)
    BY <1>1, <2>1 DEF FileTells, RowInDoubt
  <2>3. FileTells(FileOf[h], file, anchor[R(h)], claimed, consumed)
    BY <1>1, <2>1, <2>2, HandleFacts DEF FileTells, HandleTells, WillTell
  <2>4. HandleTells(h, row, file, anchor[R(h)], claimed, consumed)
    BY <1>1, <2>1 DEF HandleTells, Holds, HoldsJob, HoldsSession, WillTell, Inside, Active, Creating,
                      Pending, Released
  <2>5. Settles(h, row, file)
    BY <1>1, <2>1, <2>2, <2>3, <2>4 DEF Settles, Pending, Inside, Active, Creating, Writing, Usable
  <2>6. QED
    BY <1>3, <2>5, SettlesIsLocal DEF IssueCapability, Write, Goto
<1>4. QED
  BY <1>2, <1>3 DEF IssueCapability

LEMMA SendTells ==
  ASSUME AuthInv, TellInv, NEW h \in Handles, Send(h)
  PROVE  TellInv'
<1> DEFINE row == [handles[h] EXCEPT !.pc = "open",
                                     !.awaiting = handles[h].awaiting \cup {handles[h].job}]
<1>1. /\ row.pc = "open" /\ row.cp = handles[h].cp /\ handles[h].pc = "sending"
      /\ HandleTells(h, handles[h], File(h), anchor[R(h)], claimed, consumed)
  BY Known DEF HandleRows, Send, At
<1>2. HandleTells(h, row, File(h), anchor[R(h)], claimed, consumed)
  BY <1>1 DEF HandleTells, Holds, HoldsJob, HoldsSession, WillTell, Inside, Active,
              Creating, Pending, Released
<1>3. handles' = [handles EXCEPT ![h] = row] /\ UNCHANGED <<anchorVars, files>>
  BY DEF Send
<1> HIDE DEF row
<1>4. QED
  BY <1>1, <1>2, <1>3, RowSettles DEF Pending, Inside, Active, Creating

LEMMA CompleteTells ==
  ASSUME AuthInv, TellInv, NEW h \in Handles, NEW k \in Keys, CompleteDispatch(h, k)
  PROVE  TellInv'
<1> DEFINE row == [handles[h] EXCEPT !.awaiting = handles[h].awaiting \ {k}]
           file == [File(h) EXCEPT !.slots[k] = "result"]
<1>1. /\ handles[h].pc = "open" /\ File(h).state = "active" /\ File(h).slots[k] = "dispatching"
      /\ HandleTells(h, handles[h], File(h), anchor[R(h)], claimed, consumed)
      /\ FileTells(FileOf[h], File(h), anchor[R(h)], claimed, consumed)
      /\ File(h) \in FileRows /\ UNCHANGED anchorVars
  BY Known DEF CompleteDispatch, Working, At
<1>2. CASE CommitFails(h)
  BY <1>1, <1>2, CommitFailsTells
<1>3. CASE Write(h, file) /\ handles' = [handles EXCEPT ![h] = row]
  <2>1. /\ file.state = "active" /\ file.cp = File(h).cp /\ file.grants = File(h).grants
        /\ file.slots = [File(h).slots EXCEPT ![k] = "result"]
        /\ row.pc = "open" /\ row.cp = handles[h].cp
    BY <1>1, Known DEF FileRows, HandleRows
  <2> HIDE DEF file, row
  <2>2. ~RowInDoubt(file)
    BY <1>1, <2>1 DEF FileTells, RowInDoubt
  <2>3. ASSUME Identify(R(h), File(h).grants, File(h).slots, claimed, consumed)
        PROVE  Identify(R(h), file.grants, file.slots, claimed, consumed)
    BY <1>1, <2>1, <2>3, AnchorAssumption DEF Identify, SpentStates, FileRows, KeysOf, Keys
  <2>4. FileTells(FileOf[h], file, anchor[R(h)], claimed, consumed)
    BY <1>1, <2>1, <2>2, <2>3, HandleFacts DEF FileTells
  <2>5. HandleTells(h, row, file, anchor[R(h)], claimed, consumed)
    BY <1>1, <2>1 DEF HandleTells, Holds, HoldsJob, HoldsSession, WillTell, Inside, Active, Creating,
                      Pending, Released
  <2>6. Settles(h, row, file)
    BY <1>1, <2>1, <2>2, <2>4, <2>5 DEF Settles, Pending, Inside, Active, Creating, Writing, Usable
  <2>7. QED
    BY <1>1, <1>3, <2>6, SettlesIsLocal DEF Write
<1>4. CommitFails(h) \/ (Write(h, file) /\ handles' = [handles EXCEPT ![h] = row])
  BY DEF CompleteDispatch
<1>5. QED
  BY <1>2, <1>3, <1>4

--------------------------------------------------------------------------------
(* Closing.                                                                 *)

\* The process closes, and its file gets the last checkpoint or no new one.
LEMMA CloseWritesTells ==
  ASSUME AuthInv, TellInv, NEW h \in Handles, NEW file, UNCHANGED anchorVars,
         Write(h, file), Close(h), handles[h].pc \in Writing, File(h).state = "active",
         file.state \in {"ready", "quarantined"}, file.cp \in {File(h).cp, handles[h].cp},
         file.cp # File(h).cp => handles[h].pc \in Pending,
         RowInDoubt(file) => handles[h].pc \in Inside \ Released,
         FileTells(FileOf[h], file, anchor[R(h)], claimed, consumed)
  PROVE  TellInv'
<1>1. /\ Closed.pc = "closed" /\ Closed.cp = Unregistered
      /\ HandleTells(h, Closed, file, anchor[R(h)], claimed, consumed)
  BY IdleTells DEF Closed
<1>2. Settles(h, Closed, file)
  BY <1>1 DEF Settles, Pending, Inside, Active, Creating, Usable
<1>3. QED
  BY <1>2, SettlesIsLocal DEF Write, Close

LEMMA CloseInFlightTells ==
  ASSUME AuthInv, TellInv, NEW h \in Handles, CloseInFlight(h)
  PROVE  TellInv'
<1> DEFINE file == [File(h) EXCEPT !.state = "quarantined",
                       !.slots = [k \in Keys |-> IF @[k] = "dispatching"
                                                 THEN "unknown_after_crash" ELSE @[k]]]
<1>1. /\ handles[h].pc = "open" /\ File(h).state = "active" /\ File(h).cp.session # NoSession
      /\ FileTells(FileOf[h], File(h), anchor[R(h)], claimed, consumed)
      /\ File(h) \in FileRows /\ UNCHANGED anchorVars /\ Close(h)
  BY Known, HandleFacts DEF CloseInFlight, Working, At, GoodFile
<1>2. /\ file.state = "quarantined" /\ file.cp = File(h).cp /\ file.grants = File(h).grants
      /\ file.slots = [k \in Keys |-> IF File(h).slots[k] = "dispatching"
                                      THEN "unknown_after_crash" ELSE File(h).slots[k]]
  BY <1>1 DEF FileRows
<1>3. Write(h, file) \/ UNCHANGED files
  BY DEF CloseInFlight
<1> HIDE DEF file
<1>4. ASSUME Identify(R(h), File(h).grants, File(h).slots, claimed, consumed)
      PROVE  Identify(R(h), file.grants, file.slots, claimed, consumed)
  BY <1>1, <1>2, <1>4, AnchorAssumption DEF Identify, SpentStates, FileRows, KeysOf, Keys
<1>5. FileTells(FileOf[h], file, anchor[R(h)], claimed, consumed)
  BY <1>1, <1>2, <1>4, HandleFacts DEF FileTells
<1>6. QED
  BY <1>1, <1>2, <1>3, <1>5, CloseSettles, CloseWritesTells
  DEF Writing, Inside, Active, Released, anchorVars

LEMMA AbandonTells ==
  ASSUME AuthInv, TellInv, NEW h \in Handles, Abandon(h)
  PROVE  TellInv'
<1> DEFINE row == [handles[h] EXCEPT !.pc = "releasing", !.job = NoJob, !.cp = File(h).cp]
           file == [File(h) EXCEPT
                       !.slots = [k \in Keys |-> IF @[k] = "prepared"
                                                 THEN "abandoned_before_anchor" ELSE @[k]]]
<1>1. /\ handles[h].pc = "open" /\ File(h).state = "active"
      /\ HandleTells(h, handles[h], File(h), anchor[R(h)], claimed, consumed)
      /\ FileTells(FileOf[h], File(h), anchor[R(h)], claimed, consumed)
      /\ File(h) \in FileRows /\ UNCHANGED anchorVars
  BY Known DEF Abandon, Working, At
<1>2. CASE UNCHANGED files /\ Close(h)
  BY <1>1, <1>2, CloseSettles
<1>3. CASE Write(h, file) /\ handles' = [handles EXCEPT ![h] = row]
  <2>1. /\ file.state = "active" /\ file.cp = File(h).cp /\ file.grants = File(h).grants
        /\ file.slots = [k \in Keys |-> IF File(h).slots[k] = "prepared"
                                        THEN "abandoned_before_anchor" ELSE File(h).slots[k]]
        /\ row.pc = "releasing" /\ row.cp = File(h).cp
    BY <1>1, Known DEF FileRows, HandleRows
  <2> HIDE DEF file, row
  <2>2. ~RowInDoubt(file)
    BY <1>1, <2>1 DEF FileTells, RowInDoubt
  <2>3. ASSUME Identify(R(h), File(h).grants, File(h).slots, claimed, consumed)
        PROVE  Identify(R(h), file.grants, file.slots, claimed, consumed)
    BY <1>1, <2>1, <2>3, AnchorAssumption DEF Identify, SpentStates, FileRows, KeysOf, Keys
  <2>4. FileTells(FileOf[h], file, anchor[R(h)], claimed, consumed)
    BY <1>1, <2>1, <2>2, <2>3, HandleFacts DEF FileTells
  <2>5. HandleTells(h, row, file, anchor[R(h)], claimed, consumed)
    BY <1>1, <2>1 DEF HandleTells, FileTells, Holds, HoldsJob, HoldsSession, WillTell, Inside,
                      Active, Creating, Pending, Released
  <2>6. handles[h].cp.token = row.cp.token
    BY <1>1, <2>1 DEF HandleTells, HoldsSession, Inside
  <2>7. Settles(h, row, file)
    BY <1>1, <2>1, <2>2, <2>4, <2>5, <2>6
    DEF Settles, Pending, Inside, Active, Creating, Writing, Usable
  <2>8. QED
    BY <1>1, <1>3, <2>7, SettlesIsLocal DEF Write
<1>4. (UNCHANGED files /\ Close(h)) \/ (Write(h, file) /\ handles' = [handles EXCEPT ![h] = row])
  BY DEF Abandon, GotoWith
<1>5. QED
  BY <1>2, <1>3, <1>4

LEMMA ReleaseRefusedTells ==
  ASSUME AuthInv, TellInv, NEW h \in Handles, UNCHANGED <<anchorVars, files>>,
         handles[h].pc = "releasing", Goto(h, "release_failed")
  PROVE  TellInv'
<1> DEFINE row == [handles[h] EXCEPT !.pc = "release_failed"]
<1>1. /\ row.pc = "release_failed" /\ row.cp = handles[h].cp
      /\ HandleTells(h, handles[h], File(h), anchor[R(h)], claimed, consumed)
  BY Known DEF HandleRows
<1>2. HandleTells(h, row, File(h), anchor[R(h)], claimed, consumed)
  BY <1>1 DEF HandleTells, Holds, HoldsJob, HoldsSession, WillTell, Inside, Active,
              Creating, Pending, Released
<1>3. handles' = [handles EXCEPT ![h] = row]
  BY DEF Goto
<1> HIDE DEF row
<1>4. QED
  BY <1>1, <1>2, <1>3, RowSettles DEF Pending, Inside, Active, Creating

LEMMA StoreReleaseTells ==
  ASSUME AuthInv, TellInv, NEW h \in Handles, StoreRelease(h)
  PROVE  TellInv'
<1> DEFINE ready == [File(h) EXCEPT !.state = "ready", !.cp = handles[h].cp]
           lost  == [File(h) EXCEPT !.state = "quarantined"]
<1>1. /\ handles[h].pc \in {"released", "release_failed"} /\ File(h).state = "active"
      /\ File(h).cp.session # NoSession
      /\ HandleTells(h, handles[h], File(h), anchor[R(h)], claimed, consumed)
      /\ FileTells(FileOf[h], File(h), anchor[R(h)], claimed, consumed)
      /\ File(h) \in FileRows /\ UNCHANGED anchorVars /\ Close(h)
  BY Known, HandleFacts DEF StoreRelease, HandleTells, Holds, Active, GoodFile
<1>2. /\ ready.state = "ready" /\ ready.cp = handles[h].cp /\ ready.grants = File(h).grants
      /\ ready.slots = File(h).slots
      /\ lost.state = "quarantined" /\ lost.cp = File(h).cp /\ lost.grants = File(h).grants
      /\ lost.slots = File(h).slots
  BY <1>1 DEF FileRows
<1>3. ~RowInDoubt(ready) /\ ~RowInDoubt(lost)
  BY <1>1, <1>2 DEF FileTells, RowInDoubt
<1>4. \/ handles[h].pc = "released" /\ Write(h, ready)
      \/ Write(h, lost)
      \/ UNCHANGED files
  BY DEF StoreRelease, At
<1> HIDE DEF ready, lost
<1>5. FileTells(FileOf[h], lost, anchor[R(h)], claimed, consumed)
  BY <1>1, <1>2, <1>3 DEF FileTells
<1>6. ASSUME handles[h].pc = "released"
      PROVE  FileTells(FileOf[h], ready, anchor[R(h)], claimed, consumed)
  BY <1>1, <1>2, <1>3, <1>6, HandleFacts DEF FileTells, HandleTells, WillTell
<1>7. QED
  BY <1>1, <1>2, <1>3, <1>4, <1>5, <1>6, CloseSettles, CloseWritesTells
  DEF Writing, Inside, Active, Pending, anchorVars

LEMMA CopyTells ==
  ASSUME AuthInv, TellInv, NEW f \in Files, NEW g \in Files, Copy(f, g)
  PROVE  TellInv'
<1>1. /\ UNCHANGED <<anchor, claimed, consumed, handles>>
      /\ FileRegistry[f] = FileRegistry[g] /\ files[f].state # "absent"
      /\ \A h \in Handles : FileOf[h] = g => handles[h].pc \in {"unopened", "closed"}
  BY DEF Copy, anchorVars
<1>2. \A x \in Files : files'[x] = files[IF x = g THEN f ELSE x]
  BY DEF Copy, AuthInv, TypeOK
<1>3. ASSUME NEW x \in Files
      PROVE  FileTells(x, files'[x], anchor'[FileRegistry[x]], claimed', consumed')
  BY <1>1, <1>2 DEF TellInv, FileTells
<1>4. ASSUME NEW h \in Handles
      PROVE  HandleTells(h, handles'[h], files'[FileOf[h]], anchor'[R(h)], claimed', consumed')
  <2>1. HandleTells(h, handles[h], files[FileOf[h]], anchor[R(h)], claimed, consumed)
    BY Known
  <2>2. CASE FileOf[h] # g
    BY <1>1, <1>2, <2>1, <2>2, Known
  <2>3. CASE FileOf[h] = g
    BY <1>1, <2>1, <2>3 DEF HandleTells, Holds, HoldsJob, HoldsSession, WillTell, Inside, Active,
                            Creating, Pending
  <2>4. QED
    BY <2>2, <2>3
<1>5. WritersApart' /\ TokensApart' /\ ClaimsApart'
  BY <1>1 DEF TellInv, WritersApart, TokensApart, ClaimsApart, R
<1>6. NewestIsPending'
  <2>1. ASSUME NEW h \in Handles, handles[h].pc \in Pending, NEW x \in Files,
               FileRegistry[x] = R(h)
        PROVE  files'[x].cp # anchor[R(h)]
    BY <1>1, <1>2, <2>1 DEF TellInv, NewestIsPending
  <2>2. QED
    BY <1>1, <2>1 DEF TellInv, NewestIsPending, R
<1>7. DoubtsStop'
  <2>1. ASSUME NEW x \in Files, RowInDoubt(files'[x])
        PROVE  /\ anchor[FileRegistry[x]].session # NoSession
               /\ \A h \in Handles : (R(h) = FileRegistry[x] /\ handles[h].pc \in Inside
                                        /\ handles[h].cp.token = anchor[R(h)].token)
                                           => files'[FileOf[h]].state = "quarantined"
    <3>1. PICK y \in Files : FileRegistry[y] = FileRegistry[x] /\ RowInDoubt(files[y])
      BY <1>1, <1>2, <2>1
    <3>2. /\ anchor[FileRegistry[x]].session # NoSession
          /\ \A h \in Handles : (R(h) = FileRegistry[x] /\ handles[h].pc \in Inside
                                   /\ handles[h].cp.token = anchor[R(h)].token)
                                      => files[FileOf[h]].state = "quarantined"
      BY <3>1 DEF TellInv, DoubtsStop, InDoubt, RowInDoubt, File
    <3>3. ASSUME NEW h \in Handles, handles[h].pc \in Inside
          PROVE  files'[FileOf[h]] = files[FileOf[h]]
      BY <1>1, <1>2, <3>3, HandleFacts DEF Inside, Active
    <3>4. QED
      BY <3>2, <3>3
  <2>2. QED
    BY <1>1, <2>1, Zenon DEF DoubtsStop, InDoubt, RowInDoubt, R, File
<1>8. QED
  BY <1>3, <1>4, <1>5, <1>6, <1>7, Zenon DEF TellInv, R, File

LEMMA TellInit == Init => TellInv
<1> SUFFICES ASSUME Init PROVE TellInv
  OBVIOUS
<1>1. AuthInv
  BY AuthInit
<1>2. /\ \A f \in Files : files[f] = NoFile
      /\ \A h \in Handles : handles[h] = Unopened
      /\ \A r \in Registries : anchor[r] = Unregistered
      /\ claimed = {} /\ consumed = {}
      /\ Unopened.pc = "unopened"
  BY DEF Init, AnchorInit, Unopened
<1>3. ASSUME NEW f \in Files
      PROVE  FileTells(f, files[f], anchor[FileRegistry[f]], claimed, consumed) /\ ~InDoubt(f)
  <2>1. files[f] = NoFile /\ anchor[FileRegistry[f]] = Unregistered
    BY <1>2, RegistryAssumption
  <2>2. QED
    BY <2>1 DEF FileTells, Bounded, NoFile, Unregistered, RowInDoubt, InDoubt
<1>4. ASSUME NEW h \in Handles
      PROVE  HandleTells(h, handles[h], File(h), anchor[R(h)], claimed, consumed)
  BY <1>1, <1>2, IdleTells
<1>5. WritersApart /\ TokensApart /\ NewestIsPending /\ ClaimsApart /\ DoubtsStop
  BY <1>2, <1>3 DEF WritersApart, TokensApart, NewestIsPending, ClaimsApart, DoubtsStop, Writing,
                    Inside, Active, Creating, Pending
<1>6. QED
  BY <1>3, <1>4, <1>5 DEF TellInv

--------------------------------------------------------------------------------
(* Calls of the anchor.                                                     *)

\* Registry r's consents and slots are all that changes.
Elsewhere(r) ==
    \A g \in Grants : RegistryOf[g] # r =>
        /\ g \in claimed' <=> g \in claimed
        /\ g \in claimed => \A k \in KeysOf(g) : k \in consumed' <=> k \in consumed

\* Process h, as the only one in its registry's session, moves the checkpoint and
\* receives it, or does not hear of it.
Calls(h, row) ==
    LET r == R(h) IN
    /\ UNCHANGED files
    /\ handles' = [handles EXCEPT ![h] = row]
    /\ \A q \in Registries : q # r => anchor'[q] = anchor[q]
    /\ anchor'[r] \in Checkpoints
    /\ anchor'[r].sequence = anchor[r].sequence + 1 /\ anchor'[r].token >= anchor[r].token
    /\ \A i \in Handles : (R(i) = r /\ i # h) => handles[i].pc \notin (Inside \ Released) \cup Pending
    /\ \A f \in Files : FileRegistry[f] = r => ~InDoubt(f)
    /\ row.cp = anchor'[r] \/ (row.cp \in {handles[h].cp, File(h).cp, Unregistered} /\ row.pc \notin Pending)
    /\ row.pc \in Writing =>
          \/ handles[h].pc \in Writing
          \/ \A i \in Handles : (FileOf[i] = FileOf[h] /\ i # h) => handles[i].pc \notin Writing
    /\ row.pc \in Inside =>
          \/ handles[h].pc \in Inside /\ row.cp.token = handles[h].cp.token
          \/ row.cp.token > anchor[r].token
    /\ HandleTells(h, row, File(h), anchor'[r], claimed', consumed')
    /\ claimed' \subseteq Grants /\ Elsewhere(r) /\ ClaimsApart'

LEMMA CallKeeps ==
  ASSUME AuthInv, TellInv, NEW h \in Handles, NEW row, Calls(h, row)
  PROVE  TellInv'
<1> DEFINE r == R(h)
           a == anchor[r]
           n == anchor'[r]
<1>1. /\ a \in Checkpoints /\ n \in Checkpoints /\ n.sequence = a.sequence + 1 /\ n.token >= a.token
      /\ a.sequence \in Nat /\ n.sequence \in Nat /\ a.token \in Nat /\ n.token \in Nat
      /\ r \in Registries
  BY HandleRegistry DEF Calls, AuthInv, TypeOK, AnchorTypeOK, Checkpoints
<1>2. /\ handles'[h] = row /\ \A i \in Handles : i # h => handles'[i] = handles[i]
      /\ files' = files /\ \A q \in Registries : q # r => anchor'[q] = anchor[q]
  BY Known DEF Calls, AuthInv, TypeOK
<1>3. ASSUME NEW cp \in Checkpoints, Bounded(cp, a)
      PROVE  Bounded(cp, n) /\ cp # n
  <2>1. cp.sequence \in Nat /\ cp.token \in Nat
    BY DEF Checkpoints
  <2>2. QED
    BY <1>1, <1>3, <2>1 DEF Bounded
<1>4. ASSUME NEW q \in Registries, q # r, NEW grants, NEW slots,
             Identify(q, grants, slots, claimed, consumed)
      PROVE  Identify(q, grants, slots, claimed', consumed')
  BY <1>4 DEF Calls, Elsewhere, Identify
<1>5. ASSUME NEW f \in Files
      PROVE  FileTells(f, files'[f], anchor'[FileRegistry[f]], claimed', consumed')
  <2>1. /\ FileTells(f, files[f], anchor[FileRegistry[f]], claimed, consumed)
        /\ files[f].cp \in Checkpoints /\ FileRegistry[f] \in Registries
    BY RegistryAssumption DEF TellInv, AuthInv, TypeOK
  <2>2. CASE FileRegistry[f] = r
    <3>1. Bounded(files[f].cp, n) /\ files[f].cp # n
      BY <1>3, <2>1, <2>2 DEF FileTells
    <3>2. QED
      BY <1>2, <2>1, <2>2, <3>1 DEF FileTells
  <2>3. CASE FileRegistry[f] # r
    BY <1>2, <1>4, <2>1, <2>3 DEF FileTells
  <2>4. QED
    BY <2>2, <2>3
<1>6. ASSUME NEW i \in Handles
      PROVE  HandleTells(i, handles'[i], files'[FileOf[i]], anchor'[R(i)], claimed', consumed')
  <2>1. /\ HandleTells(i, handles[i], files[FileOf[i]], anchor[R(i)], claimed, consumed)
        /\ handles[i].cp \in Checkpoints /\ R(i) \in Registries
    BY Known DEF HandleRows
  <2>2. CASE i = h
    BY <1>2, <2>2, Known DEF Calls
  <2>3. CASE i # h /\ R(i) = r
    <3>1. handles[i].pc \notin (Inside \ Released) \cup Pending
      BY <2>3 DEF Calls
    <3>2. Bounded(handles[i].cp, n) /\ handles[i].cp # n
      BY <1>3, <2>1, <2>3 DEF HandleTells
    <3>3. /\ HoldsSession(handles[i], files[FileOf[i]], n)
          /\ WillTell(handles[i], files[FileOf[i]], r, claimed', consumed')
      BY <2>1, <2>3, <3>1, <3>2 DEF HandleTells, HoldsSession, WillTell, Pending, Inside, Active, Released
    <3>4. QED
      BY <1>2, <2>1, <2>3, <3>2, <3>3 DEF HandleTells
  <2>4. CASE R(i) # r
    <3>1. handles'[i] = handles[i] /\ anchor'[R(i)] = anchor[R(i)]
      BY <1>2, <2>1, <2>4
    <3>2. WillTell(handles[i], files[FileOf[i]], R(i), claimed', consumed')
      <4>1. handles[i].pc = "registered" => \A g \in claimed' : RegistryOf[g] # R(i)
        BY <2>1, <2>4 DEF HandleTells, WillTell, Calls, Elsewhere
      <4>2. QED
        BY <1>4, <2>1, <2>4, <4>1 DEF HandleTells, WillTell
    <3>3. QED
      BY <1>2, <2>1, <3>1, <3>2 DEF HandleTells
  <2>5. QED
    BY <2>2, <2>3, <2>4<1>7. WritersApart'
  <2>1. ASSUME NEW i \in Handles, i # h, FileOf[i] = FileOf[h], row.pc \in Writing
        PROVE  handles[i].pc \notin Writing
    BY <2>1 DEF TellInv, WritersApart, Calls
  <2>2. QED
    BY <1>2, <2>1 DEF TellInv, WritersApart
<1>8. TokensApart'
  <2>1. ASSUME NEW i \in Handles, i # h, R(i) = r, row.pc \in Inside, handles[i].pc \in Inside
        PROVE  handles[i].cp.token # row.cp.token
    <3>1. Bounded(handles[i].cp, a) /\ handles[i].cp.token \in Nat
      BY <2>1, Known DEF HandleTells, HandleRows, Checkpoints
    <3>2. CASE handles[h].pc \in Inside /\ row.cp.token = handles[h].cp.token
      BY <2>1, <3>2 DEF TellInv, TokensApart
    <3>3. CASE row.cp.token > a.token
      BY <1>1, <3>1, <3>3 DEF Bounded
    <3>4. QED
      BY <2>1, <3>2, <3>3 DEF Calls
  <2>2. QED
    BY <1>2, <2>1 DEF TellInv, TokensApart, R
<1>9. NewestIsPending'
  <2>1. ASSUME NEW i \in Handles, handles'[i].pc \in Pending
        PROVE  /\ \A f \in Files : FileRegistry[f] = R(i) => files[f].cp # anchor'[R(i)]
               /\ \A j \in Handles : (R(j) = R(i) /\ handles'[j].cp = anchor'[R(i)]) => j = i
    <3>1. CASE i = h
      <4>1. ASSUME NEW f \in Files, FileRegistry[f] = r PROVE files[f].cp # n
        <5>1. Bounded(files[f].cp, a) /\ files[f].cp \in Checkpoints
          BY <4>1 DEF TellInv, FileTells, AuthInv, TypeOK
        <5>2. QED
          BY <1>3, <5>1
      <4>2. ASSUME NEW j \in Handles, R(j) = r, j # h PROVE handles[j].cp # n
        <5>1. Bounded(handles[j].cp, a) /\ handles[j].cp \in Checkpoints
          BY <4>2, Known DEF HandleTells, HandleRows
        <5>2. QED
          BY <1>3, <5>1
      <4>3. QED
        BY <1>2, <3>1, <4>1, <4>2
    <3>2. CASE i # h
      <4>1. handles[i].pc \in Pending /\ R(i) # r /\ R(i) \in Registries
        BY <1>2, <2>1, <3>2, HandleRegistry DEF Calls
      <4>2. QED
        BY <1>2, <4>1 DEF TellInv, NewestIsPending
    <3>3. QED
      BY <3>1, <3>2
  <2>2. QED
    BY <1>2, <2>1, Zenon DEF NewestIsPending, R
<1>10. DoubtsStop'
  <2>1. ASSUME NEW f \in Files, InDoubt(f)
        PROVE  /\ anchor'[FileRegistry[f]].session # NoSession
               /\ \A i \in Handles : (R(i) = FileRegistry[f] /\ handles'[i].pc \in Inside
                                        /\ handles'[i].cp.token = anchor'[R(i)].token)
                                           => File(i).state = "quarantined"
    <3>1. FileRegistry[f] # r /\ FileRegistry[f] \in Registries
      BY <2>1, RegistryAssumption DEF Calls
    <3>2. QED
      BY <1>2, <2>1, <3>1 DEF TellInv, DoubtsStop
  <2>2. QED
    BY <1>2, <2>1, Zenon DEF DoubtsStop, InDoubt, R, File
<1>11. ClaimsApart'
  BY DEF Calls
<1>12. QED
  BY <1>5, <1>6, <1>7, <1>8, <1>9, <1>10, <1>11, Zenon DEF TellInv, R, File
\* A process whose checkpoint, or whose file's, is the anchor's is alone.
LEMMA Alone ==
  ASSUME AuthInv, TellInv, NEW h \in Handles, handles[h].pc \in Inside \ Released,
         handles[h].pc # "acquired", File(h).state = "active",
         Matches(R(h), handles[h].cp) \/ Matches(R(h), File(h).cp)
  PROVE  /\ \A i \in Handles : (R(i) = R(h) /\ i # h) => handles[i].pc \notin (Inside \ Released) \cup Pending
         /\ \A f \in Files : FileRegistry[f] = R(h) => ~InDoubt(f)
         /\ anchor[R(h)].session # NoSession
<1>1. anchor[R(h)].session # NoSession /\ anchor[R(h)].token = handles[h].cp.token
  BY Known DEF HandleTells, HoldsSession
<1>2. ASSUME NEW i \in Handles, R(i) = R(h), i # h
      PROVE  handles[i].pc \notin (Inside \ Released) \cup Pending
  <2>1. handles[i].pc \notin Inside \ Released
    <3>1. handles[i].pc \in Inside \ Released => anchor[R(i)].token = handles[i].cp.token
      BY Known DEF HandleTells, HoldsSession
    <3>2. QED
      BY <1>1, <1>2, <3>1 DEF TellInv, TokensApart
  <2>2. handles[i].pc \notin Pending
    BY <1>2, Known DEF TellInv, NewestIsPending, Matches
  <2>3. QED
    BY <2>1, <2>2
<1>3. ASSUME NEW f \in Files, FileRegistry[f] = R(h) PROVE ~InDoubt(f)
  BY <1>1, <1>3 DEF TellInv, DoubtsStop
<1>4. QED
  BY <1>1, <1>2, <1>3

\* What the anchor's new row is.
LEMMA Appended ==
  ASSUME AuthInv, NEW h \in Handles, NEW s \in Sessions \cup {NoSession}, NEW t \in Nat,
         t >= anchor[R(h)].token, Append(R(h), s, t)
  PROVE  LET n == anchor'[R(h)] IN
         /\ n \in Checkpoints /\ n.session = s /\ n.token = t
         /\ n.sequence = anchor[R(h)].sequence + 1 /\ n.sequence > 0
         /\ n.token >= anchor[R(h)].token
         /\ \A q \in Registries : q # R(h) => anchor'[q] = anchor[q]
<1>1. anchor \in [Registries -> Checkpoints] /\ R(h) \in Registries
  BY HandleRegistry DEF AuthInv, TypeOK, AnchorTypeOK
<1>2. anchor[R(h)].sequence + 1 \in Nat /\ anchor[R(h)].sequence + 1 > 0
  BY <1>1 DEF Checkpoints
<1>3. anchor'[R(h)] = [sequence |-> anchor[R(h)].sequence + 1, session |-> s, token |-> t]
  BY <1>1 DEF Append
<1>4. \A q \in Registries : q # R(h) => anchor'[q] = anchor[q]
  BY <1>1 DEF Append
<1>5. QED
  BY <1>2, <1>3, <1>4 DEF Checkpoints

\* A registry's consents stay apart while nothing new is claimed or consumed.
LEMMA ClaimsStay ==
  ASSUME AuthInv, TellInv, NEW h \in Handles, UNCHANGED <<claimed, consumed>>,
         anchor'[R(h)].sequence > 0, \A q \in Registries : q # R(h) => anchor'[q] = anchor[q]
  PROVE  ClaimsApart' /\ Elsewhere(R(h)) /\ claimed' \subseteq Grants
<1>1. \A g \in claimed : anchor'[RegistryOf[g]].sequence > 0
  BY AnchorAssumption DEF TellInv, ClaimsApart, AuthInv, TypeOK, AnchorTypeOK
<1>2. QED
  BY <1>1 DEF TellInv, ClaimsApart, Elsewhere, AuthInv, TypeOK, AnchorTypeOK

LEMMA RegisterTells ==
  ASSUME AuthInv, TellInv, NEW h \in Handles, Register(h)
  PROVE  TellInv'
<1> DEFINE n == anchor'[R(h)]
           row == [handles[h] EXCEPT !.pc = "registered", !.cp = n]
<1>1. CASE UNCHANGED anchorVars /\ Close(h)
  BY <1>1, CloseSettles DEF Register
<1>2. ASSUME RegisterRegistry(R(h)), NEW new, handles' = [handles EXCEPT ![h] = new],
             new = Closed \/ new = row
      PROVE  Calls(h, new)
  <2>1. /\ anchor[R(h)] = Unregistered /\ handles[h].pc = "initializing" /\ UNCHANGED files
        /\ UNCHANGED <<claimed, consumed>>
    BY <1>2, HandleFacts DEF Register, RegisterRegistry, At, AuthInv, Registered
  <2>2. /\ n \in Checkpoints /\ n.sequence = anchor[R(h)].sequence + 1 /\ n.sequence > 0
        /\ n.token >= anchor[R(h)].token
        /\ \A q \in Registries : q # R(h) => anchor'[q] = anchor[q]
    <3>1. 0 >= anchor[R(h)].token
      BY <2>1 DEF Unregistered
    <3>2. QED
      BY <1>2, <3>1, Appended DEF RegisterRegistry
  <2>3. ClaimsApart' /\ Elsewhere(R(h)) /\ claimed' \subseteq Grants
    BY <2>1, <2>2, ClaimsStay
  <2>4. ASSUME NEW i \in Handles, R(i) = R(h)
        PROVE  handles[i].pc \notin (Inside \ Released) \cup Pending
    BY <2>1, <2>4, Known DEF HandleTells, HoldsSession, Unregistered
  <2>5. ASSUME NEW f \in Files, FileRegistry[f] = R(h) PROVE ~InDoubt(f)
    BY <2>1, <2>5 DEF TellInv, DoubtsStop, Unregistered
  <2>6. /\ HandleTells(h, new, File(h), n, claimed', consumed')
        /\ new.pc \in {"closed", "registered"}
        /\ new.cp = n \/ (new.cp = Unregistered /\ new.pc = "closed")
    <3>1. CASE new = Closed
      <4>1. Bounded(Unregistered, n)
        BY <2>2 DEF Bounded, Checkpoints, Unregistered
      <4>2. QED
        BY <3>1, <4>1 DEF Closed, Unopened, HandleTells, Holds, HoldsJob, HoldsSession, WillTell,
                          Inside, Active, Creating, Pending
    <3>2. CASE new = row
      <4>1. new.pc = "registered" /\ new.cp = n
        BY <3>2, Known DEF HandleRows
      <4>2. Bounded(n, n)
        BY <2>2 DEF Bounded, Checkpoints
      <4>3. File(h) = Fresh
        BY <2>1, Known DEF HandleTells, Holds, Creating
      <4>4. \A g \in claimed : RegistryOf[g] # R(h)
        BY <2>1 DEF TellInv, ClaimsApart, Unregistered
      <4>5. QED
        BY <2>1, <2>2, <4>1, <4>2, <4>3, <4>4 DEF HandleTells, Holds, HoldsJob, HoldsSession, WillTell,
                          Inside, Active, Creating, Pending
    <3>3. QED
      BY <1>2, <3>1, <3>2
  <2>7. handles[h].pc \in Writing /\ new.pc \notin Inside
    BY <2>1, <2>6 DEF Writing, Creating, Inside, Active
  <2>8. new.cp = n \/ (new.cp \in {handles[h].cp, File(h).cp, Unregistered} /\ new.pc \notin Pending)
    BY <2>6 DEF Pending
  <2>9. QED
    BY <1>2, <2>1, <2>2, <2>3, <2>4, <2>5, <2>6, <2>7, <2>8 DEF Calls
<1>3. \/ UNCHANGED anchorVars /\ Close(h)
      \/ /\ RegisterRegistry(R(h))
         /\ handles' = [handles EXCEPT ![h] = Closed] \/ handles' = [handles EXCEPT ![h] = row]
  BY DEF Register, CallFails, Received, Close
<1>4. QED
  BY <1>1, <1>2, <1>3, CallKeeps
LEMMA AcquireTells ==
  ASSUME AuthInv, TellInv, NEW h \in Handles, Acquire(h)
  PROVE  TellInv'
<1> DEFINE n == anchor'[R(h)]
           row == [handles[h] EXCEPT !.pc = "acquired", !.cp = n]
           call == AcquireSession(R(h), handles[h].cp, SessionOf[h])
<1>1. CASE UNCHANGED anchorVars /\ Close(h)
  BY <1>1, CloseSettles DEF Acquire
<1>2. ASSUME call, NEW new, handles' = [handles EXCEPT ![h] = new], new = Closed \/ new = row
      PROVE  Calls(h, new)
  <2>1. /\ anchor[R(h)] = handles[h].cp /\ anchor[R(h)].session = NoSession
        /\ anchor[R(h)].sequence > 0 /\ handles[h].pc = "inspected"
        /\ UNCHANGED <<files, claimed, consumed>>
    BY <1>2 DEF Acquire, AcquireSession, AcquireAllowed, Matches, At
  <2>2. /\ n \in Checkpoints /\ n.sequence = anchor[R(h)].sequence + 1 /\ n.sequence > 0
        /\ n.session # NoSession /\ n.token > anchor[R(h)].token /\ n.token >= anchor[R(h)].token
        /\ \A q \in Registries : q # R(h) => anchor'[q] = anchor[q]
    <3>1. /\ anchor[R(h)].token \in Nat /\ SessionOf[h] \in Sessions
          /\ SessionOf[h] # NoSession
      BY HandleRegistry, AnchorAssumption DEF AuthInv, TypeOK, AnchorTypeOK, Checkpoints
    <3>2. /\ anchor[R(h)].token + 1 \in Nat /\ anchor[R(h)].token + 1 >= anchor[R(h)].token
          /\ anchor[R(h)].token + 1 > anchor[R(h)].token
      BY <3>1
    <3>3. Append(R(h), SessionOf[h], anchor[R(h)].token + 1)
      BY <1>2 DEF AcquireSession
    <3>4. QED
      BY <3>1, <3>2, <3>3, Appended
  <2>3. ClaimsApart' /\ Elsewhere(R(h)) /\ claimed' \subseteq Grants
    BY <2>1, <2>2, ClaimsStay
  <2>4. /\ File(h).cp = anchor[R(h)] /\ File(h).state = "ready"
        /\ FileTells(FileOf[h], File(h), anchor[R(h)], claimed, consumed)
    BY <2>1, Known, HandleFacts DEF HandleTells, HoldsSession, Holds, FileTells, GoodFile, Usable
  <2>5. ASSUME NEW i \in Handles, R(i) = R(h), i # h
        PROVE  handles[i].pc \notin (Inside \ Released) \cup Pending
    <3>1. handles[i].pc \notin Inside \ Released
      BY <2>1, <2>5, Known DEF HandleTells, HoldsSession
    <3>2. handles[i].pc \notin Pending
      BY <2>1, <2>5 DEF TellInv, NewestIsPending
    <3>3. QED
      BY <3>1, <3>2
  <2>6. ASSUME NEW f \in Files, FileRegistry[f] = R(h) PROVE ~InDoubt(f)
    BY <2>1, <2>6 DEF TellInv, DoubtsStop
  <2>7. ASSUME NEW i \in Handles, FileOf[i] = FileOf[h], i # h PROVE handles[i].pc \notin Writing
    <3>1. R(i) = R(h) /\ Holds(handles[i], File(h))
      BY <2>7, Known DEF HandleTells, R, File
    <3>2. handles[i].pc \notin Creating
      BY <2>4, <3>1 DEF Holds, Fresh, NoFile
    <3>3. handles[i].pc # "release_failed"
      BY <2>4, <3>1 DEF Holds, Active
    <3>4. QED
      BY <2>5, <2>7, <3>1, <3>2, <3>3 DEF Writing, Released, Pending
  <2>8. /\ HandleTells(h, new, File(h), n, claimed', consumed')
        /\ new.pc \in {"closed", "acquired"}
        /\ (new.pc = "acquired" /\ new.cp = n) \/ (new.cp = Unregistered /\ new.pc = "closed")
    <3>1. CASE new = Closed
      <4>1. Bounded(Unregistered, n)
        BY <2>2 DEF Bounded, Checkpoints, Unregistered
      <4>2. QED
        BY <3>1, <4>1 DEF Closed, Unopened, HandleTells, Holds, HoldsJob, HoldsSession, WillTell,
                          Inside, Active, Creating, Pending
    <3>2. CASE new = row
      <4>1. new.pc = "acquired" /\ new.cp = n
        BY <3>2, Known DEF HandleRows
      <4>2. Bounded(n, n)
        BY <2>2 DEF Bounded, Checkpoints
      <4>3. Identify(R(h), File(h).grants, File(h).slots, claimed, consumed)
        BY <2>1, <2>4, HandleFacts DEF FileTells
      <4>4. QED
        BY <2>1, <2>2, <2>4, <4>1, <4>2, <4>3 DEF HandleTells, Holds, HoldsJob, HoldsSession, WillTell,
                          Inside, Active, Creating, Pending
    <3>3. QED
      BY <1>2, <3>1, <3>2
  <2>9. new.cp = n \/ (new.cp \in {handles[h].cp, File(h).cp, Unregistered} /\ new.pc \notin Pending)
    BY <2>8 DEF Pending
  <2>10. new.pc \in Inside => new.cp.token > anchor[R(h)].token
    BY <2>2, <2>8 DEF Inside, Active
  <2>11. QED
    BY <1>2, <2>1, <2>2, <2>3, <2>5, <2>6, <2>7, <2>8, <2>9, <2>10 DEF Calls
<1>3. \/ UNCHANGED anchorVars /\ Close(h)
      \/ call /\ (handles' = [handles EXCEPT ![h] = Closed] \/ handles' = [handles EXCEPT ![h] = row])
  BY DEF Acquire, CallFails, Received, Close
<1>4. QED
  BY <1>1, <1>2, <1>3, CallKeeps

\* A call from within the session: what is left to show of it.
LEMMA SessionCalls ==
  ASSUME AuthInv, TellInv, NEW h \in Handles, NEW row, NEW s \in Sessions \cup {NoSession},
         UNCHANGED files, handles' = [handles EXCEPT ![h] = row],
         handles[h].pc \in Inside \ Released, handles[h].pc # "acquired", File(h).state = "active",
         Matches(R(h), File(h).cp), Append(R(h), s, File(h).cp.token),
         row.pc \in Inside,
         row.cp = anchor'[R(h)] \/ (row.cp = File(h).cp /\ row.pc \notin Pending),
         s = anchor[R(h)].session \/ row.pc \in Released,
         Holds(row, File(h)) /\ HoldsJob(row, File(h), R(h)),
         WillTell(row, File(h), R(h), claimed', consumed'),
         row.pc \notin {"claiming", "releasing", "inspected"},
         claimed' \subseteq Grants, Elsewhere(R(h)), ClaimsApart'
  PROVE  TellInv'
<1> DEFINE n == anchor'[R(h)]
<1>1. /\ anchor[R(h)] = File(h).cp /\ anchor[R(h)] \in Checkpoints
      /\ File(h).cp.token = handles[h].cp.token /\ anchor[R(h)].session # NoSession
      /\ \A i \in Handles : (R(i) = R(h) /\ i # h) => handles[i].pc \notin (Inside \ Released) \cup Pending
      /\ \A f \in Files : FileRegistry[f] = R(h) => ~InDoubt(f)
      /\ Bounded(File(h).cp, anchor[R(h)])
  BY Alone, Known DEF Matches, FileRows, FileTells, HandleTells, HoldsSession
<1>2. /\ n \in Checkpoints /\ n.session = s /\ n.token = File(h).cp.token
      /\ n.sequence = anchor[R(h)].sequence + 1 /\ n.sequence > 0
      /\ n.token >= anchor[R(h)].token
      /\ \A q \in Registries : q # R(h) => anchor'[q] = anchor[q]
  <2>1. File(h).cp.token \in Nat /\ File(h).cp.token >= anchor[R(h)].token
    BY <1>1 DEF Checkpoints
  <2>2. QED
    BY <2>1, Appended
<1>3. row.cp.token = handles[h].cp.token /\ row.cp.token = n.token
  BY <1>1, <1>2
<1>4. Bounded(row.cp, n)
  BY <1>1, <1>2 DEF Bounded, Checkpoints
<1>5. HoldsSession(row, File(h), n)
  BY <1>1, <1>2, <1>3 DEF HoldsSession
<1>6. HandleTells(h, row, File(h), n, claimed', consumed')
  BY <1>4, <1>5 DEF HandleTells
<1>7. handles[h].pc \in Inside /\ handles[h].pc \in Writing
  BY DEF Writing
<1>8. Calls(h, row)
  BY <1>1, <1>2, <1>3, <1>6, <1>7 DEF Calls
<1>9. QED
  BY <1>8, CallKeeps
LEMMA ClaimTells ==
  ASSUME AuthInv, TellInv, NEW h \in Handles, Claim(h)
  PROVE  TellInv'
<1> DEFINE n == anchor'[R(h)]
           g == handles[h].job
           claimedRow == [handles[h] EXCEPT !.pc = "claimed", !.cp = n]
           unknownRow == [handles[h] EXCEPT !.pc = "claim_unknown"]
           call == ClaimAuthorization(R(h), handles[h].cp, g)
<1>1. CASE UNCHANGED anchorVars /\ (Goto(h, "claim_refused") \/ Goto(h, "claim_unknown"))
  BY <1>1, ClaimFailsTells DEF Claim, At
<1>2. ASSUME call, NEW row, handles' = [handles EXCEPT ![h] = row],
             row = claimedRow \/ row = unknownRow
      PROVE  TellInv'
  <2>1. /\ handles[h].pc = "claiming" /\ handles[h].cp = File(h).cp /\ File(h).state = "active"
        /\ g \in Grants /\ RegistryOf[g] = R(h) /\ File(h).grants[g] = "prepared"
        /\ \A k \in KeysOf(g) : File(h).slots[k] = "allocated"
        /\ File(h) \in FileRows /\ handles[h] \in HandleRows /\ UNCHANGED files
    BY Known DEF Claim, At, HandleTells, Holds, HoldsJob, HoldsSession, Active
  <2>2. /\ Matches(R(h), File(h).cp) /\ Append(R(h), File(h).cp.session, File(h).cp.token)
        /\ claimed' = claimed \cup {g} /\ consumed' = consumed
        /\ \A x \in claimed : Authorized[x] \cap Authorized[g] = {}
    BY <1>2, <2>1 DEF ClaimAuthorization, ClaimAllowed
  <2>3. /\ File(h).cp.session = anchor[R(h)].session
        /\ File(h).cp.session \in Sessions \cup {NoSession} /\ File(h).cp.token \in Nat
        /\ File(h).cp.token >= anchor[R(h)].token
        /\ anchor[R(h)].sequence > 0 /\ File(h).cp = anchor[R(h)]
    BY <2>1, <2>2 DEF Matches, FileRows, Checkpoints
  <2>4. /\ \A q \in Registries : q # R(h) => anchor'[q] = anchor[q]
        /\ n.sequence > 0
    BY <2>2, <2>3, Appended
  <2>5. \A x \in claimed : KeysOf(x) \cap KeysOf(g) = {}
    BY <2>2 DEF KeysOf
  <2>6. claimed' \subseteq Grants /\ Elsewhere(R(h))
    BY <2>1, <2>2 DEF AuthInv, TypeOK, AnchorTypeOK, Elsewhere
  <2>7. ClaimsApart'
    <3>1. \A x, y \in claimed' : Authorized[x] \cap Authorized[y] # {} => x = y
      BY <2>2 DEF TellInv, ClaimsApart
    <3>2. \A k \in consumed : \E x \in claimed' : k \in KeysOf(x)
      BY <2>2 DEF TellInv, ClaimsApart
    <3>3. \A x \in claimed' : anchor'[RegistryOf[x]].sequence > 0
      BY <2>1, <2>2, <2>4, <2>6, AnchorAssumption DEF TellInv, ClaimsApart
    <3>4. QED
      BY <2>2, <3>1, <3>2, <3>3 DEF ClaimsApart
  <2>8. Identify(R(h), [File(h).grants EXCEPT ![g] = "active"], File(h).slots, claimed', consumed')
    <3>1. Identify(R(h), File(h).grants, File(h).slots, claimed, consumed)
      BY <2>3, Known DEF FileTells
    <3>2. \A k \in KeysOf(g) : k \notin consumed /\ File(h).slots[k] \notin SpentStates
      BY <2>1, <2>5 DEF TellInv, ClaimsApart, SpentStates
    <3>3. QED
      BY <2>1, <2>2, <3>1, <3>2 DEF Identify, FileRows
  <2>9. /\ row.job = g
        /\ (row.pc = "claimed" /\ row.cp = n) \/ (row.pc = "claim_unknown" /\ row.cp = File(h).cp)
    BY <1>2, <2>1 DEF HandleRows
  <2>10. /\ Holds(row, File(h)) /\ HoldsJob(row, File(h), R(h))
         /\ WillTell(row, File(h), R(h), claimed', consumed')
    BY <2>1, <2>8, <2>9 DEF Holds, HoldsJob, WillTell, Active, Creating
  <2>11. /\ handles[h].pc \in Inside \ Released /\ handles[h].pc # "acquired" /\ row.pc \in Inside
         /\ row.cp = n \/ (row.cp = File(h).cp /\ row.pc \notin Pending)
         /\ row.pc \notin {"claiming", "releasing", "inspected"}
    BY <2>1, <2>9 DEF Inside, Active, Released, Pending
  <2>12. QED
    BY <1>2, <2>1, <2>2, <2>3, <2>6, <2>7, <2>10, <2>11, SessionCalls
<1>3. \/ UNCHANGED anchorVars /\ (Goto(h, "claim_refused") \/ Goto(h, "claim_unknown"))
      \/ /\ call
         /\ handles' = [handles EXCEPT ![h] = claimedRow] \/ handles' = [handles EXCEPT ![h] = unknownRow]
  BY DEF Claim, Received, Goto
<1>4. QED
  BY <1>1, <1>2, <1>3

LEMMA BurnTells ==
  ASSUME AuthInv, TellInv, NEW h \in Handles, NEW k \in Keys, Burn(h, k)
  PROVE  TellInv'
<1> DEFINE n == anchor'[R(h)]
           burntRow == [handles[h] EXCEPT !.pc = "burnt", !.job = k, !.cp = n]
           failedRow == [handles[h] EXCEPT !.pc = "burn_failed", !.job = k, !.cp = File(h).cp]
           call == ConsumeSlot(R(h), File(h).cp, k)
<1>1. CASE UNCHANGED anchorVars /\ GotoWith(h, "burn_failed", k)
  BY <1>1, BurnRefusedTells DEF Burn
<1>2. ASSUME call, NEW row, handles' = [handles EXCEPT ![h] = row],
             row = burntRow \/ row = failedRow
      PROVE  TellInv'
  <2>1. /\ handles[h].pc = "open" /\ File(h).state = "active" /\ File(h).slots[k] = "prepared"
        /\ File(h) \in FileRows /\ handles[h] \in HandleRows /\ UNCHANGED files
    BY Known DEF Burn, Working, At
  <2>2. /\ Matches(R(h), File(h).cp) /\ Append(R(h), File(h).cp.session, File(h).cp.token)
        /\ consumed' = consumed \cup {k} /\ claimed' = claimed
    BY <1>2, <2>1 DEF ConsumeSlot, ConsumeAllowed
  <2>3. /\ File(h).cp.session = anchor[R(h)].session
        /\ File(h).cp.session \in Sessions \cup {NoSession} /\ File(h).cp.token \in Nat
        /\ File(h).cp.token >= anchor[R(h)].token
        /\ anchor[R(h)].sequence > 0 /\ File(h).cp = anchor[R(h)]
    BY <2>1, <2>2 DEF Matches, FileRows, Checkpoints
  <2>4. /\ \A q \in Registries : q # R(h) => anchor'[q] = anchor[q]
        /\ n.sequence > 0
    BY <2>2, <2>3, Appended
  <2>5. PICK g \in claimed : RegistryOf[g] = R(h) /\ k \in KeysOf(g)
    BY <2>1, HandleFacts DEF GoodFile, Owned
  <2>6. claimed \subseteq Grants /\ \A x \in claimed : x # g => k \notin KeysOf(x)
    BY <2>5 DEF TellInv, ClaimsApart, KeysOf, AuthInv, TypeOK, AnchorTypeOK
  <2>7. claimed' \subseteq Grants /\ Elsewhere(R(h))
    BY <2>2, <2>5, <2>6 DEF Elsewhere
  <2>8. ClaimsApart'
    <3>1. \A x \in claimed : anchor'[RegistryOf[x]].sequence > 0
      BY <2>4, <2>6, AnchorAssumption DEF TellInv, ClaimsApart
    <3>2. \A c \in consumed' : \E x \in claimed : c \in KeysOf(x)
      BY <2>2, <2>5 DEF TellInv, ClaimsApart
    <3>3. QED
      BY <2>2, <3>1, <3>2 DEF TellInv, ClaimsApart
  <2>9. Identify(R(h), File(h).grants, [File(h).slots EXCEPT ![k] = "dispatching"], claimed', consumed')
    <3>1. Identify(R(h), File(h).grants, File(h).slots, claimed, consumed)
      BY <2>3, Known DEF FileTells
    <3>2. QED
      BY <2>1, <2>2, <3>1 DEF Identify, FileRows, SpentStates
  <2>10. /\ row.job = k
         /\ (row.pc = "burnt" /\ row.cp = n) \/ (row.pc = "burn_failed" /\ row.cp = File(h).cp)
    BY <1>2, <2>1 DEF HandleRows
  <2>11. /\ Holds(row, File(h)) /\ HoldsJob(row, File(h), R(h))
         /\ WillTell(row, File(h), R(h), claimed', consumed')
    BY <2>1, <2>9, <2>10 DEF Holds, HoldsJob, WillTell, Active, Creating
  <2>12. /\ handles[h].pc \in Inside \ Released /\ handles[h].pc # "acquired" /\ row.pc \in Inside
         /\ row.cp = n \/ (row.cp = File(h).cp /\ row.pc \notin Pending)
         /\ row.pc \notin {"claiming", "releasing", "inspected"}
    BY <2>1, <2>10 DEF Inside, Active, Released, Pending
  <2>13. QED
    BY <1>2, <2>1, <2>2, <2>3, <2>7, <2>8, <2>11, <2>12, SessionCalls
<1>3. \/ UNCHANGED anchorVars /\ GotoWith(h, "burn_failed", k)
      \/ /\ call
         /\ handles' = [handles EXCEPT ![h] = burntRow] \/ handles' = [handles EXCEPT ![h] = failedRow]
  BY DEF Burn, GotoWith
<1>4. QED
  BY <1>1, <1>2, <1>3

LEMMA ReleaseTells ==
  ASSUME AuthInv, TellInv, NEW h \in Handles, Release(h)
  PROVE  TellInv'
<1> DEFINE n == anchor'[R(h)]
           doneRow == [handles[h] EXCEPT !.pc = "released", !.cp = n]
           failedRow == [handles[h] EXCEPT !.pc = "release_failed"]
           call == ReleaseSession(R(h), handles[h].cp)
<1>1. CASE UNCHANGED anchorVars /\ Goto(h, "release_failed")
  BY <1>1, ReleaseRefusedTells DEF Release, At
<1>2. ASSUME call, NEW row, handles' = [handles EXCEPT ![h] = row],
             row = doneRow \/ row = failedRow
      PROVE  TellInv'
  <2>1. /\ handles[h].pc = "releasing" /\ handles[h].cp = File(h).cp /\ File(h).state = "active"
        /\ File(h) \in FileRows /\ handles[h] \in HandleRows /\ UNCHANGED files
    BY Known DEF Release, At, HandleTells, Holds, HoldsSession, Active
  <2>2. /\ Matches(R(h), File(h).cp) /\ Append(R(h), NoSession, File(h).cp.token)
        /\ UNCHANGED <<claimed, consumed>>
    BY <1>2, <2>1 DEF ReleaseSession, ReleaseAllowed
  <2>3. /\ File(h).cp.token \in Nat /\ File(h).cp.token >= anchor[R(h)].token
        /\ anchor[R(h)].sequence > 0 /\ File(h).cp = anchor[R(h)]
    BY <2>1, <2>2 DEF Matches, FileRows, Checkpoints
  <2>4. /\ \A q \in Registries : q # R(h) => anchor'[q] = anchor[q]
        /\ n.sequence > 0
    BY <2>2, <2>3, Appended
  <2>5. ClaimsApart' /\ Elsewhere(R(h)) /\ claimed' \subseteq Grants
    BY <2>2, <2>4, ClaimsStay
  <2>6. Identify(R(h), File(h).grants, File(h).slots, claimed', consumed')
    BY <2>2, <2>3, Known DEF FileTells
  <2>7. (row.pc = "released" /\ row.cp = n) \/ (row.pc = "release_failed" /\ row.cp = File(h).cp)
    BY <1>2, <2>1 DEF HandleRows
  <2>8. /\ Holds(row, File(h)) /\ HoldsJob(row, File(h), R(h))
        /\ WillTell(row, File(h), R(h), claimed', consumed')
    BY <2>1, <2>6, <2>7 DEF Holds, HoldsJob, WillTell, Active, Creating
  <2>9. /\ handles[h].pc \in Inside \ Released /\ handles[h].pc # "acquired" /\ row.pc \in Inside
        /\ row.pc \in Released
        /\ row.cp = n \/ (row.cp = File(h).cp /\ row.pc \notin Pending)
        /\ row.pc \notin {"claiming", "releasing", "inspected"}
    BY <2>1, <2>7 DEF Inside, Active, Released, Pending
  <2>10. QED
    BY <1>2, <2>1, <2>2, <2>3, <2>5, <2>8, <2>9, SessionCalls
<1>3. \/ UNCHANGED anchorVars /\ Goto(h, "release_failed")
      \/ /\ call
         /\ handles' = [handles EXCEPT ![h] = doneRow] \/ handles' = [handles EXCEPT ![h] = failedRow]
  BY DEF Release, CallFails, Received, Goto
<1>4. QED
  BY <1>1, <1>2, <1>3

LEMMA TellStep ==
  ASSUME AuthInv, TellInv, [Next]_vars
  PROVE  TellInv'
<1>1. CASE UNCHANGED vars
  BY <1>1 DEF vars, anchorVars, TellInv, FileTells, HandleTells, WritersApart, TokensApart,
              NewestIsPending, ClaimsApart, DoubtsStop, InDoubt, File, R
<1>2. ASSUME NEW h \in Handles, Opening(h) PROVE TellInv'
  BY <1>2, CreateTells, RegisterTells, StoreRegistrationTells, VerifyTells, InspectTells,
     AcquireTells, StoreSessionTells DEF Opening
<1>3. ASSUME NEW h \in Handles, Importing(h) PROVE TellInv'
  BY <1>3, PrepareTells, ClaimTells, RejectTells, ActivateTells DEF Importing
<1>4. ASSUME NEW h \in Handles, Dispatching(h) PROVE TellInv'
  BY <1>4, PrepareSlotTells, BurnTells, CompleteTells, BurnFailsTells, IssueTells, SendTells
  DEF Dispatching
<1>5. ASSUME NEW h \in Handles, Closing(h) PROVE TellInv'
  BY <1>5, CloseSettles, CloseInFlightTells, AbandonTells, ReleaseTells, StoreReleaseTells
  DEF Closing, CloseIdle, anchorVars
<1>6. ASSUME NEW h \in Handles, Crash(h) PROVE TellInv'
  BY <1>6, CloseSettles DEF Crash, anchorVars
<1>7. ASSUME NEW f \in Files, NEW g \in Files, Copy(f, g) PROVE TellInv'
  BY <1>7, CopyTells
<1>8. QED
  BY <1>1, <1>2, <1>3, <1>4, <1>5, <1>6, <1>7 DEF Next

LEMMA TellInvariant == Spec => [](AuthInv /\ TellInv)
<1>1. AuthInv /\ TellInv /\ [Next]_vars => AuthInv' /\ TellInv'
  BY AuthStep, TellStep
<1>2. QED
  BY <1>1, AuthInit, TellInit, PTL DEF Spec

\* A file with the anchor's checkpoint tells the anchor's history
\* (#acquireSession, importAuthorization, burnDispatch, close).
THEOREM CheckpointsIdentify == Spec => []CheckpointsIdentifyHistories
<1>1. ASSUME AuthInv, TellInv PROVE CheckpointsIdentifyHistories
  <2>1. ASSUME NEW f \in Files, Matches(FileRegistry[f], files[f].cp)
        PROVE  Identify(FileRegistry[f], files[f].grants, files[f].slots, claimed, consumed)
    BY <1>1, <2>1 DEF TellInv, FileTells, Matches
  <2>2. QED
    BY <1>1, <2>1 DEF CheckpointsIdentifyHistories, Identify, AuthInv
<1>2. QED
  BY <1>1, TellInvariant, PTL

\* The anchor accepts calls of one process at a time (acquireSession of
\* local-anchor-stub.ts and #acquireSession), whatever files are copied.
THEOREM SessionsExclusive == Spec => []SessionsAreExclusive
<1>1. ASSUME AuthInv, TellInv PROVE SessionsAreExclusive
  <2>1. ASSUME NEW h \in Handles, InSession(h)
        PROVE  handles[h].pc \in Inside /\ handles[h].cp.token = anchor[R(h)].token
    <3>1. /\ handles[h].pc \in Inside
          /\ HandleTells(h, handles[h], File(h), anchor[R(h)], claimed, consumed)
          /\ handles[h].cp = anchor[R(h)] \/ File(h).cp = anchor[R(h)]
      BY <1>1, <2>1, Known DEF InSession, Inside, Active, HandleRows, Points, Matches
    <3>2. CASE handles[h].pc = "acquired"
      BY <3>1, <3>2 DEF HandleTells, HoldsSession, Pending
    <3>3. CASE handles[h].pc # "acquired"
      BY <3>1, <3>3 DEF HandleTells, HoldsSession
    <3>4. QED
      BY <3>1, <3>2, <3>3
  <2>2. QED
    BY <1>1, <2>1 DEF SessionsAreExclusive, TellInv, TokensApart
<1>2. QED
  BY <1>1, TellInvariant, PTL

LEMMA OnlyBurnsConsume ==
  ASSUME [Next]_vars, consumed' # consumed
  PROVE  \E h \in Handles, k \in Keys :
            /\ Working(h) /\ File(h).slots[k] = "prepared"
            /\ Matches(R(h), File(h).cp) /\ consumed' = consumed \cup {k}
<1>1. ASSUME NEW h \in Handles, Opening(h) PROVE FALSE
  BY <1>1 DEF Opening, CreateFile, Register, StoreRegistration, VerifyDatabase, InspectRegistry,
              Acquire, StoreSession, CallFails, RegisterRegistry, AcquireSession, anchorVars
<1>2. ASSUME NEW h \in Handles, Importing(h) PROVE FALSE
  BY <1>2 DEF Importing, PrepareAuthorization, Claim, RejectClaim, ActivateAuthorization,
              ClaimAuthorization, anchorVars
<1>3. ASSUME NEW h \in Handles, Closing(h) PROVE FALSE
  BY <1>3 DEF Closing, CloseIdle, CloseInFlight, Abandon, Release, StoreRelease, CallFails,
              ReleaseSession, anchorVars
<1>4. ASSUME NEW h \in Handles, Dispatching(h)
      PROVE  \E k \in Keys : Burn(h, k) /\ ConsumeSlot(R(h), File(h).cp, k)
  BY <1>4 DEF Dispatching, PrepareDispatch, Burn, CompleteDispatch, BurnFails, IssueCapability,
              Send, anchorVars
<1>5. \E h \in Handles, k \in Keys : Burn(h, k) /\ ConsumeSlot(R(h), File(h).cp, k)
  BY <1>1, <1>2, <1>3, <1>4 DEF Next, Crash, Copy, vars, anchorVars
<1>6. QED
  BY <1>5 DEF Burn, ConsumeSlot, ConsumeAllowed

\* Once a file records a slot whose request may have been paid for, its registry's
\* consents are spent no further (burnDispatch, close, #quarantine), whatever
\* older copy of the file somebody opens.
THEOREM DoubtsFinal == Spec => DoubtIsFinal
<1>1. ASSUME AuthInv, TellInv, [Next]_vars, NEW f \in Files, InDoubt(f), NEW g \in claimed,
             RegistryOf[g] = FileRegistry[f]
      PROVE  (consumed' \ consumed) \cap KeysOf(g) = {}
  <2> SUFFICES ASSUME (consumed' \ consumed) \cap KeysOf(g) # {} PROVE FALSE
    OBVIOUS
  <2>1. PICK h \in Handles, k \in Keys :
           /\ Working(h) /\ File(h).slots[k] = "prepared"
           /\ Matches(R(h), File(h).cp) /\ consumed' = consumed \cup {k}
    BY <1>1, OnlyBurnsConsume
  <2>2. k \in KeysOf(g)
    BY <2>1
  <2>3. PICK x \in claimed : RegistryOf[x] = R(h) /\ k \in KeysOf(x)
    BY <1>1, <2>1, HandleFacts DEF GoodFile, Owned
  <2>4. x = g
    BY <1>1, <2>2, <2>3 DEF TellInv, ClaimsApart, KeysOf
  <2>5. FileRegistry[f] = R(h)
    BY <1>1, <2>3, <2>4
  <2>6. ~InDoubt(f)
    BY <1>1, <2>1, <2>5, Alone DEF Working, At, Inside, Active, Released
  <2>7. QED
    BY <1>1, <2>6
<1>2. AuthInv /\ TellInv /\ [Next]_vars
        => [\A f \in Files : InDoubt(f) =>
              \A g \in claimed : RegistryOf[g] = FileRegistry[f] =>
                 (consumed' \ consumed) \cap KeysOf(g) = {}]_vars
  BY <1>1
<1>3. QED
  BY <1>2, TellInvariant, PTL DEF Spec, DoubtIsFinal

--------------------------------------------------------------------------------
(* A registry without failures is never locked out.                         *)

Hands(f) == {handles[h].pc : h \in {i \in Handles : FileOf[i] = f}}
AtWork   == Active \cup {"open"}
Failures == {"fatal", "claim_unknown", "release_failed"}

\* A file goes with its registry's anchor a, or a process at its file, at one of
\* the points pcs, is about to bring it up to date.
Kept(row, a, pcs) ==
    /\ row.state = "initializing" => a.sequence > 0 \/ "initializing" \in pcs
    /\ row.state \in Usable => a.sequence > 0
    /\ row.state = "ready" => row.cp = a \/ "acquired" \in pcs
    /\ row.state = "active" => \E pc \in pcs \cap AtWork : row.cp = a \/ pc \in Pending
    /\ row.state = "quarantined" => RowInDoubt(row)

KeptFile(f) == Kept(files[f], anchor[FileRegistry[f]], Hands(f))

\* The file that the anchor's events of its registry are about.
Owns(f) == files[f].state \in Usable \/ "registered" \in Hands(f)

OwnersApart == \A f, g \in Files : (FileRegistry[f] = FileRegistry[g] /\ Owns(f) /\ Owns(g)) => f = g

NoFailures == \A h \in Handles : handles[h].pc \notin Failures

CleanInv == ~Faults => OwnersApart /\ NoFailures /\ \A f \in Files : KeptFile(f)

LEMMA HandsOf ==
  ASSUME NEW h \in Handles
  PROVE  handles[h].pc \in Hands(FileOf[h]) /\ handles'[h].pc \in Hands(FileOf[h])'
  BY DEF Hands

\* One more process does not hurt.
LEMMA KeptByMore ==
  ASSUME NEW row, NEW a, NEW P, NEW Q, P \subseteq Q, Kept(row, a, P)
  PROVE  Kept(row, a, Q)
  BY DEF Kept

\* A process at none of the points that a file may wait for.
Bystanding == Points \ (AtWork \cup {"initializing", "acquired"})

LEMMA BystanderKeeps ==
  ASSUME NEW h \in Handles, KeptFile(FileOf[h]), handles[h].pc \in Bystanding,
         files'[FileOf[h]] = files[FileOf[h]],
         anchor'[FileRegistry[FileOf[h]]] = anchor[FileRegistry[FileOf[h]]],
         \A i \in Handles : i # h => handles'[i] = handles[i]
  PROVE  KeptFile(FileOf[h])'
<1>1. \A pc \in Hands(FileOf[h]) : pc \in Hands(FileOf[h])' \/ pc = handles[h].pc
  BY DEF Hands
<1>2. PICK row : row = files[FileOf[h]]
  OBVIOUS
<1>3. PICK a : a = anchor[FileRegistry[FileOf[h]]]
  OBVIOUS
<1>4. Kept(row, a, Hands(FileOf[h]))
  BY <1>2, <1>3 DEF KeptFile
<1>5. Kept(row, a, Hands(FileOf[h])')
  BY <1>1, <1>4, SMT DEF Kept, Bystanding
<1>6. QED
  BY <1>2, <1>3, <1>5 DEF KeptFile

\* The process that steps vouches for its file.
LEMMA VouchedFor ==
  ASSUME NEW h \in Handles,
         Kept(files'[FileOf[h]], anchor'[FileRegistry[FileOf[h]]], {handles'[h].pc})
  PROVE  KeptFile(FileOf[h])'
<1>1. {handles'[h].pc} \subseteq Hands(FileOf[h])'
  BY HandsOf
<1>2. PICK row : row = files'[FileOf[h]]
  OBVIOUS
<1>3. PICK a : a = anchor'[FileRegistry[FileOf[h]]]
  OBVIOUS
<1>4. Kept(row, a, Hands(FileOf[h])')
  BY <1>1, <1>2, <1>3, KeptByMore
<1>5. QED
  BY <1>2, <1>3, <1>4 DEF KeptFile

\* The anchor moves only for the registry of h, and only if no file of it but
\* that of h is in use.
OwnEvent(h) ==
    /\ \A q \in Registries : q # R(h) => anchor'[q] = anchor[q]
    /\ \/ anchor'[R(h)] = anchor[R(h)]
       \/ /\ anchor'[R(h)].sequence > 0
          /\ \A f \in Files : (f # FileOf[h] /\ FileRegistry[f] = R(h)) => files[f].state \notin Usable

\* What a step of h does without failures.
Proceeds(h) ==
    /\ \A f \in Files : f # FileOf[h] => files'[f] = files[f]
    /\ \A i \in Handles : i # h => handles'[i] = handles[i]
    /\ OwnEvent(h)
    /\ KeptFile(FileOf[h])'
    /\ handles'[h].pc \notin Failures
    /\ \/ files'[FileOf[h]].state \in Usable \/ handles'[h].pc = "registered" =>
             files[FileOf[h]].state \in Usable \/ handles[h].pc = "registered"
       \/ \A f \in Files : FileRegistry[f] = R(h) => ~Owns(f)

LEMMA ProceedsKeeps ==
  ASSUME AuthInv, CleanInv, ~Faults, NEW h \in Handles, Proceeds(h)
  PROVE  CleanInv'
<1>1. NoFailures'
  BY DEF CleanInv, NoFailures, Proceeds
<1>2. \A f \in Files : f # FileOf[h] => Hands(f)' = Hands(f)
  BY DEF Hands, Proceeds
<1>3. ASSUME NEW f \in Files, f # FileOf[h] PROVE KeptFile(f)'
  <2>1. Kept(files[f], anchor[FileRegistry[f]], Hands(f)) /\ FileRegistry[f] \in Registries
    BY RegistryAssumption DEF CleanInv, KeptFile
  <2>2. files'[f] = files[f] /\ Hands(f)' = Hands(f)
    BY <1>2, <1>3 DEF Proceeds
  <2>3. PICK row : row = files[f]
    OBVIOUS
  <2>4. PICK P : P = Hands(f)
    OBVIOUS
  <2>5. CASE anchor'[FileRegistry[f]] = anchor[FileRegistry[f]]
    <3>1. PICK a : a = anchor[FileRegistry[f]]
      OBVIOUS
    <3>2. Kept(row, a, P)
      BY <2>1, <2>3, <2>4, <3>1
    <3>3. QED
      BY <2>2, <2>3, <2>4, <2>5, <3>1, <3>2 DEF KeptFile
  <2>6. CASE anchor'[FileRegistry[f]] # anchor[FileRegistry[f]]
    <3>1. FileRegistry[f] = R(h) /\ anchor'[R(h)].sequence > 0 /\ row.state \notin Usable
      BY <1>3, <2>1, <2>3, <2>6 DEF Proceeds, OwnEvent
    <3>2. PICK a : a = anchor'[R(h)]
      OBVIOUS
    <3>3. Kept(row, a, P)
      BY <3>1, <3>2 DEF Kept, Usable
    <3>4. QED
      BY <2>2, <2>3, <2>4, <3>1, <3>2, <3>3 DEF KeptFile
  <2>7. QED
    BY <2>5, <2>6
<1>4. \A f \in Files : KeptFile(f)'
  <2>1. KeptFile(FileOf[h])'
    BY DEF Proceeds
  <2>2. QED
    BY <1>3, <2>1
<1>5. \A f \in Files : f # FileOf[h] => (Owns(f)' <=> Owns(f))
  BY <1>2 DEF Owns, Proceeds
<1>6. \/ Owns(FileOf[h])' => Owns(FileOf[h])
      \/ \A f \in Files : FileRegistry[f] = R(h) => ~Owns(f)
  <2>1. ASSUME files'[FileOf[h]].state \in Usable \/ handles'[h].pc = "registered" =>
                  files[FileOf[h]].state \in Usable \/ handles[h].pc = "registered",
               Owns(FileOf[h])'
        PROVE  Owns(FileOf[h])
    <3>1. \A pc \in Hands(FileOf[h])' : pc \in Hands(FileOf[h]) \/ pc = handles'[h].pc
      BY DEF Hands, Proceeds
    <3>2. files'[FileOf[h]].state \in Usable \/ "registered" \in Hands(FileOf[h])'
      BY <2>1 DEF Owns
    <3>3. QED
      BY <2>1, <3>1, <3>2, HandsOf DEF Owns
  <2>2. QED
    BY <2>1 DEF Proceeds
<1>7. OwnersApart'
  <2>1. \A f, g \in Files : (FileRegistry[f] = FileRegistry[g] /\ Owns(f)' /\ Owns(g)') => f = g
    BY <1>5, <1>6, RegistryAssumption DEF CleanInv, OwnersApart, R
  <2>2. QED
    BY <2>1, Zenon DEF OwnersApart
<1>8. QED
  BY <1>1, <1>4, <1>7, Zenon DEF CleanInv

\* Only process h and its file change, if anything.
OnlyOf(h) ==
    /\ \A f \in Files : f # FileOf[h] => files'[f] = files[f]
    /\ \A i \in Handles : i # h => handles'[i] = handles[i]

\* The file that process h leaves, and the point it goes to.
Leaves(h, file, pc) == OnlyOf(h) /\ files'[FileOf[h]] = file /\ handles'[h].pc = pc

LEMMA WriteLeaves ==
  ASSUME AuthInv, NEW h \in Handles, NEW file, NEW pc,
         Write(h, file) \/ (UNCHANGED files /\ file = File(h)),
         \/ Goto(h, pc) \/ Received(h, pc) \/ (\E job : GotoWith(h, pc, job))
         \/ Close(h) /\ pc = "closed"
         \/ UNCHANGED handles /\ pc = handles[h].pc
         \/ \E row : handles' = [handles EXCEPT ![h] = row] /\ row.pc = pc
  PROVE  Leaves(h, file, pc)
<1>1. /\ files'[FileOf[h]] = file
      /\ \A f \in Files : f # FileOf[h] => files'[f] = files[f]
  BY HandleFacts DEF Write, File
<1>2. handles \in [Handles -> HandleRows]
  BY HandleFacts
<1>3. /\ handles'[h].pc = pc
      /\ \A i \in Handles : i # h => handles'[i] = handles[i]
  BY <1>2 DEF Goto, Received, GotoWith, Close, Closed, Unopened, HandleRows
<1>4. QED
  BY <1>1, <1>3 DEF Leaves, OnlyOf

\* The process at work on an active file is its only one, and the file goes with
\* the anchor unless the process has something to store.
LEMMA Current ==
  ASSUME AuthInv, TellInv, CleanInv, ~Faults, NEW h \in Handles, handles[h].pc \in AtWork,
         File(h).state = "active"
  PROVE  anchor[R(h)].sequence > 0 /\ (handles[h].pc \notin Pending => File(h).cp = anchor[R(h)])
<1>1. Kept(File(h), anchor[R(h)], Hands(FileOf[h]))
  BY HandleFacts DEF CleanInv, KeptFile, File
<1>2. PICK pc \in Hands(FileOf[h]) \cap AtWork : File(h).cp = anchor[R(h)] \/ pc \in Pending
  BY <1>1 DEF Kept
<1>3. PICK i \in Handles : FileOf[i] = FileOf[h] /\ handles[i].pc = pc
  BY <1>2 DEF Hands
<1>4. i = h
  BY <1>2, <1>3 DEF TellInv, WritersApart, AtWork, Writing, Inside
<1>5. QED
  BY <1>1, <1>2, <1>3, <1>4 DEF Kept, Usable

LEMMA LocalProceeds ==
  ASSUME AuthInv, TellInv, CleanInv, ~Faults, NEW h \in Handles, UNCHANGED anchorVars,
         NEW file, NEW pc, Leaves(h, file, pc), Kept(file, anchor[R(h)], {pc}),
         pc \notin Failures \cup {"registered"},
         file.state \in Usable => File(h).state \in Usable \/ handles[h].pc = "registered"
  PROVE  CleanInv'
<1>1. anchor' = anchor /\ files[FileOf[h]] = File(h) /\ R(h) = FileRegistry[FileOf[h]]
  BY DEF anchorVars, File, R
<1>2. KeptFile(FileOf[h])'
  BY <1>1, VouchedFor DEF Leaves
<1>3. OwnEvent(h)
  BY <1>1 DEF OwnEvent
<1>4. Proceeds(h)
  BY <1>1, <1>2, <1>3 DEF Proceeds, Leaves, OnlyOf
<1>5. QED
  BY <1>4, ProceedsKeeps

\* A process works on: its file stays active, with the checkpoint it had.
LEMMA WorkKeeps ==
  ASSUME AuthInv, TellInv, CleanInv, ~Faults, NEW h \in Handles, UNCHANGED anchorVars,
         handles[h].pc \in AtWork \ Pending, File(h).state = "active",
         NEW file, NEW pc \in AtWork \ Failures, Leaves(h, file, pc),
         file.state = "active", file.cp = File(h).cp
  PROVE  CleanInv'
<1>1. Kept(file, anchor[R(h)], {pc})
  BY Current DEF Kept
<1>2. QED
  BY <1>1, LocalProceeds DEF AtWork, Active, Usable

\* It stores the checkpoint it received.
LEMMA StoreKeeps ==
  ASSUME AuthInv, TellInv, CleanInv, ~Faults, NEW h \in Handles, UNCHANGED anchorVars,
         handles[h].pc \in Pending, NEW file, NEW pc, Leaves(h, file, pc),
         file.cp = handles[h].cp, pc \notin Failures \cup {"registered"},
         file.state = "ready" \/ (file.state = "active" /\ pc \in AtWork)
  PROVE  CleanInv'
<1>1. handles[h].cp = anchor[R(h)] /\ anchor[R(h)].sequence > 0 /\ Holds(handles[h], File(h))
  BY Known DEF HandleTells, HoldsSession
<1>2. Kept(file, anchor[R(h)], {pc})
  BY <1>1 DEF Kept
<1>3. File(h).state \in Usable \/ handles[h].pc = "registered"
  BY <1>1 DEF Holds, Pending, Usable, Active
<1>4. QED
  BY <1>2, <1>3, LocalProceeds

\* It leaves a doubt.
LEMMA DoubtKeeps ==
  ASSUME AuthInv, TellInv, CleanInv, ~Faults, NEW h \in Handles, UNCHANGED anchorVars,
         File(h).state \in {"active", "quarantined"}, anchor[R(h)].sequence > 0,
         NEW file, NEW pc \in {"open", "closed"}, Leaves(h, file, pc),
         file.state = "quarantined", RowInDoubt(file)
  PROVE  CleanInv'
<1>1. Kept(file, anchor[R(h)], {pc})
  BY DEF Kept
<1>2. QED
  BY <1>1, LocalProceeds DEF Usable, Failures

\* It did not matter to its file.
LEMMA BystanderProceeds ==
  ASSUME AuthInv, TellInv, CleanInv, ~Faults, NEW h \in Handles, UNCHANGED <<anchorVars, files>>,
         handles[h].pc \in Bystanding, OnlyOf(h), handles'[h].pc \notin Failures \cup {"registered"}
  PROVE  CleanInv'
<1>1. anchor' = anchor /\ files' = files
  BY DEF anchorVars
<1>2. KeptFile(FileOf[h])'
  BY <1>1, BystanderKeeps, HandleFacts DEF OnlyOf, CleanInv
<1>3. OwnEvent(h)
  BY <1>1 DEF OwnEvent
<1>4. Proceeds(h)
  BY <1>1, <1>2, <1>3 DEF Proceeds, OnlyOf
<1>5. QED
  BY <1>4, ProceedsKeeps

\* The anchor's new event is about the file of the process that asked for it.
LEMMA EventKeeps ==
  ASSUME AuthInv, TellInv, CleanInv, ~Faults, NEW h \in Handles,
         NEW s \in Sessions \cup {NoSession}, NEW t \in Nat, t >= anchor[R(h)].token,
         Append(R(h), s, t), NEW pc, Leaves(h, File(h), pc),
         \/ File(h).state = "active" /\ pc \in (AtWork \cap Pending) \ Failures
         \/ File(h).state = "ready" /\ pc = "acquired"
  PROVE  CleanInv'
<1>1. anchor'[R(h)].sequence > 0 /\ \A q \in Registries : q # R(h) => anchor'[q] = anchor[q]
  BY Appended
<1>2. \A f \in Files : (f # FileOf[h] /\ FileRegistry[f] = R(h)) => files[f].state \notin Usable
  BY HandleFacts DEF CleanInv, OwnersApart, Owns, File, R, Usable
<1>3. PICK a : a = anchor'[R(h)]
  OBVIOUS
<1>4. PICK file : file = File(h)
  OBVIOUS
<1>5. Kept(file, a, {pc})
  BY <1>1, <1>3, <1>4 DEF Kept
<1>6. files'[FileOf[h]] = file /\ handles'[h].pc = pc /\ files[FileOf[h]] = file
  BY <1>4 DEF Leaves, File
<1>7. KeptFile(FileOf[h])'
  BY <1>3, <1>5, <1>6, VouchedFor DEF R
<1>8. OwnEvent(h)
  BY <1>1, <1>2 DEF OwnEvent
<1>9. pc \notin Failures /\ pc # "registered" /\ file.state \in Usable
  BY <1>4 DEF Failures, AtWork, Active, Usable
<1>10. Proceeds(h)
  BY <1>6, <1>7, <1>8, <1>9 DEF Proceeds, Leaves, OnlyOf
<1>11. QED
  BY <1>10, ProceedsKeeps

--------------------------------------------------------------------------------
(* The steps, without failures.                                             *)

LEMMA CreateClean ==
  ASSUME AuthInv, TellInv, CleanInv, ~Faults, NEW h \in Handles, CreateFile(h)
  PROVE  CleanInv'
<1> DEFINE file == [NoFile EXCEPT !.state = "initializing"]
<1>1. file.state = "initializing"
  BY DEF NoFile
<1>2. Leaves(h, file, "initializing") /\ UNCHANGED anchorVars
  BY WriteLeaves DEF CreateFile
<1> HIDE DEF file
<1>3. Kept(file, anchor[R(h)], {"initializing"}) /\ file.state \notin Usable
  BY <1>1 DEF Kept, Usable
<1>4. QED
  BY <1>2, <1>3, LocalProceeds DEF Failures

\* The first registration finds no file in use, a later one is refused.
LEMMA RegisterClean ==
  ASSUME AuthInv, TellInv, CleanInv, ~Faults, NEW h \in Handles, Register(h)
  PROVE  CleanInv'
<1>1. handles[h].pc = "initializing" /\ File(h).state = "initializing" /\ UNCHANGED files
  BY Known DEF Register, At, HandleTells, Holds, Creating, Fresh, NoFile
<1>2. CASE RegisterRegistry(R(h)) /\ Received(h, "registered")
  <2>1. Leaves(h, File(h), "registered")
    BY <1>1, <1>2, WriteLeaves
  <2>2. anchor[R(h)].sequence = 0 /\ Append(R(h), NoSession, 0)
    BY <1>2 DEF RegisterRegistry
  <2>3. anchor[R(h)].token = 0
    BY <2>2, HandleFacts DEF AuthInv, Registered, Unregistered
  <2>4. anchor'[R(h)].sequence > 0 /\ \A q \in Registries : q # R(h) => anchor'[q] = anchor[q]
    BY <2>2, <2>3, Appended
  <2>5. ASSUME NEW f \in Files, FileRegistry[f] = R(h) PROVE ~Owns(f)
    <3>1. files[f].state \notin Usable
      BY <2>2, <2>5 DEF CleanInv, KeptFile, Kept
    <3>2. ASSUME NEW i \in Handles, FileOf[i] = f PROVE handles[i].pc # "registered"
      BY <2>2, <2>5, <3>2, Known DEF HandleTells, HoldsSession, Pending, R
    <3>3. QED
      BY <3>1, <3>2 DEF Owns, Hands
  <2>6. PICK a : a = anchor'[R(h)]
    OBVIOUS
  <2>7. PICK file : file = File(h)
    OBVIOUS
  <2>8. Kept(file, a, {"registered"})
    BY <1>1, <2>4, <2>6, <2>7 DEF Kept, Usable
  <2>9. files'[FileOf[h]] = file /\ handles'[h].pc = "registered"
    BY <2>1, <2>7 DEF Leaves
  <2>10. KeptFile(FileOf[h])'
    BY <2>6, <2>8, <2>9, VouchedFor DEF R
  <2>11. OwnEvent(h)
    BY <2>4, <2>5 DEF OwnEvent, Owns
  <2>12. Proceeds(h)
    BY <2>1, <2>5, <2>9, <2>10, <2>11 DEF Proceeds, Leaves, OnlyOf, Failures
  <2>13. QED
    BY <2>12, ProceedsKeeps
<1>3. CASE anchor[R(h)].sequence # 0 /\ UNCHANGED anchorVars /\ Close(h)
  <2>1. Leaves(h, File(h), "closed")
    BY <1>1, <1>3, WriteLeaves
  <2>2. anchor[R(h)].sequence > 0
    BY <1>3, HandleFacts DEF AuthInv, TypeOK, AnchorTypeOK, Checkpoints
  <2>3. Kept(File(h), anchor[R(h)], {"closed"}) /\ File(h).state \notin Usable
    BY <1>1, <2>2 DEF Kept, Usable
  <2>4. QED
    BY <1>3, <2>1, <2>3, LocalProceeds DEF Failures
<1>4. QED
  BY <1>2, <1>3 DEF Register, CallFails

LEMMA OpeningClean ==
  ASSUME AuthInv, TellInv, CleanInv, ~Faults, NEW h \in Handles, Opening(h)
  PROVE  CleanInv'
<1>1. CASE StoreRegistration(h)
  <2> DEFINE file == [File(h) EXCEPT !.state = "ready", !.cp = handles[h].cp]
  <2>1. file.state = "ready" /\ file.cp = handles[h].cp
    BY HandleFacts DEF FileRows
  <2>2. /\ Write(h, file) /\ handles' = [handles EXCEPT ![h] = Unopened] /\ UNCHANGED anchorVars
        /\ handles[h].pc = "registered"
    BY <1>1 DEF StoreRegistration, At
  <2> HIDE DEF file
  <2>3. Leaves(h, file, "unopened")
    <3>1. Unopened.pc = "unopened"
      BY DEF Unopened
    <3>2. QED
      BY <2>2, <3>1, WriteLeaves
  <2>4. QED
    BY <2>1, <2>2, <2>3, StoreKeeps DEF Pending, Failures
<1>2. CASE VerifyDatabase(h) \/ InspectRegistry(h)
  <2>1. /\ UNCHANGED <<anchorVars, files>> /\ handles[h].pc \in Bystanding
        /\ \E pc \in {"verified", "inspected", "closed"} : Leaves(h, File(h), pc)
    <3>1. /\ UNCHANGED <<anchorVars, files>> /\ handles[h].pc \in {"unopened", "verified"}
          /\ \E pc \in {"verified", "inspected", "closed"} :
                Goto(h, pc) \/ (\E job : GotoWith(h, pc, job)) \/ (Close(h) /\ pc = "closed")
      BY <1>2 DEF VerifyDatabase, InspectRegistry, At
    <3>2. \E pc \in {"verified", "inspected", "closed"} : Leaves(h, File(h), pc)
      BY <3>1, WriteLeaves
    <3>3. QED
      BY <3>1, <3>2 DEF Bystanding, AtWork, Active, Points
  <2>2. OnlyOf(h) /\ handles'[h].pc \in {"verified", "inspected", "closed"}
    BY <2>1 DEF Leaves
  <2>3. QED
    BY <2>1, <2>2, BystanderProceeds DEF Failures
<1>3. CASE Acquire(h) /\ UNCHANGED anchorVars
  <2>1. UNCHANGED files /\ handles[h].pc = "inspected"
    BY <1>3 DEF Acquire, At
  <2>2. CASE Close(h)
    <3>1. Leaves(h, File(h), "closed")
      BY <2>1, <2>2, WriteLeaves
    <3>2. OnlyOf(h) /\ handles'[h].pc = "closed"
      BY <3>1 DEF Leaves
    <3>3. QED
      BY <1>3, <2>1, <3>2, BystanderProceeds DEF Bystanding, AtWork, Active, Points, Failures
  <2>3. CASE AcquireSession(R(h), handles[h].cp, SessionOf[h])
    <3>1. anchor'[R(h)] = anchor[R(h)] /\ SessionOf[h] \in Sessions \cup {NoSession}
          /\ anchor[R(h)].token + 1 \in Nat /\ anchor[R(h)].token + 1 >= anchor[R(h)].token
      BY <1>3, HandleRegistry DEF anchorVars, AuthInv, TypeOK, AnchorTypeOK, Checkpoints
    <3>2. anchor'[R(h)].sequence = anchor[R(h)].sequence + 1
      BY <2>3, <3>1, Appended DEF AcquireSession
    <3>3. anchor[R(h)].sequence \in Nat
      BY HandleRegistry DEF AuthInv, TypeOK, AnchorTypeOK, Checkpoints
    <3>4. QED
      BY <3>1, <3>2, <3>3
  <2>4. QED
    BY <1>3, <2>2, <2>3 DEF Acquire, CallFails
<1>4. CASE Acquire(h) /\ ~UNCHANGED anchorVars
  <2>1. /\ AcquireSession(R(h), handles[h].cp, SessionOf[h]) /\ Received(h, "acquired")
        /\ handles[h].pc = "inspected" /\ UNCHANGED files
    BY <1>4 DEF Acquire, At, CallFails
  <2>2. /\ anchor[R(h)] = handles[h].cp /\ anchor[R(h)].session = NoSession
        /\ Append(R(h), SessionOf[h], anchor[R(h)].token + 1)
    BY <2>1 DEF AcquireSession, AcquireAllowed, Matches
  <2>3. File(h).cp = anchor[R(h)] /\ File(h).state \in Usable
    BY <2>1, <2>2, Known DEF HandleTells, HoldsSession, Holds
  <2>4. File(h).state = "ready"
    BY <2>2, <2>3, Known, HandleFacts DEF FileTells, GoodFile, Usable
  <2>5. SessionOf[h] \in Sessions \cup {NoSession}
        /\ anchor[R(h)].token + 1 \in Nat /\ anchor[R(h)].token + 1 >= anchor[R(h)].token
    BY HandleRegistry DEF AuthInv, TypeOK, AnchorTypeOK, Checkpoints
  <2>6. Leaves(h, File(h), "acquired")
    BY <2>1, WriteLeaves
  <2>7. QED
    BY <2>2, <2>4, <2>5, <2>6, EventKeeps
<1>5. CASE StoreSession(h)
  <2> DEFINE file == [File(h) EXCEPT !.state = "active", !.cp = handles[h].cp]
  <2>1. file.state = "active" /\ file.cp = handles[h].cp
    BY HandleFacts DEF FileRows
  <2>2. Leaves(h, file, "open") /\ UNCHANGED anchorVars /\ handles[h].pc = "acquired"
    BY <1>5, WriteLeaves DEF StoreSession, At
  <2> HIDE DEF file
  <2>3. QED
    BY <2>1, <2>2, StoreKeeps DEF Pending, Failures, AtWork
<1>6. QED
  BY <1>1, <1>2, <1>3, <1>4, <1>5, CreateClean, RegisterClean DEF Opening

LEMMA ImportingClean ==
  ASSUME AuthInv, TellInv, CleanInv, ~Faults, NEW h \in Handles, Importing(h)
  PROVE  CleanInv'
<1>0. /\ File(h) \in FileRows
      /\ handles[h].pc \in AtWork => Holds(handles[h], File(h))
      /\ handles[h].pc \notin Failures
  BY Known DEF HandleTells, CleanInv, NoFailures
<1>1. ASSUME NEW g \in Grants, PrepareAuthorization(h, g) PROVE CleanInv'
  <2> DEFINE file == [File(h) EXCEPT !.grants[g] = "prepared",
                 !.slots = [k \in Keys |-> IF k \in KeysOf(g) THEN "allocated" ELSE @[k]]]
  <2>1. file.state = File(h).state /\ file.cp = File(h).cp
    BY <1>0 DEF FileRows
  <2>2. /\ Leaves(h, file, "claiming") /\ UNCHANGED anchorVars
        /\ handles[h].pc = "open" /\ File(h).state = "active"
    BY <1>1, WriteLeaves DEF PrepareAuthorization, Working, At
  <2> HIDE DEF file
  <2>3. QED
    BY <2>1, <2>2, WorkKeeps DEF AtWork, Active, Pending, Failures
<1>2. CASE Claim(h)
  <2>1. handles[h].pc = "claiming" /\ File(h).state = "active" /\ UNCHANGED files
    BY <1>0, <1>2 DEF Claim, At, Holds, Active, AtWork
  <2>2. CASE UNCHANGED anchorVars /\ Goto(h, "claim_refused")
    <3>1. Leaves(h, File(h), "claim_refused")
      BY <2>1, <2>2, WriteLeaves
    <3>2. QED
      BY <2>1, <2>2, <3>1, WorkKeeps DEF AtWork, Active, Pending, Failures
  <2>3. CASE ClaimAuthorization(R(h), handles[h].cp, handles[h].job) /\ Received(h, "claimed")
    <3>1. Leaves(h, File(h), "claimed")
      BY <2>1, <2>3, WriteLeaves
    <3>2. /\ anchor[R(h)] = handles[h].cp
          /\ Append(R(h), handles[h].cp.session, handles[h].cp.token)
      BY <2>3 DEF ClaimAuthorization, ClaimAllowed, Matches
    <3>3. /\ handles[h].cp.session \in Sessions \cup {NoSession} /\ handles[h].cp.token \in Nat
          /\ handles[h].cp.token >= anchor[R(h)].token
      BY <3>2, HandleFacts DEF HandleRows, Checkpoints
    <3>4. QED
      BY <2>1, <3>1, <3>2, <3>3, EventKeeps DEF AtWork, Active, Pending, Failures
  <2>4. QED
    BY <1>2, <2>2, <2>3 DEF Claim
<1>3. CASE RejectClaim(h)
  <2> DEFINE file == [File(h) EXCEPT !.grants[handles[h].job] = "review_required",
                        !.state = IF At(h, "claim_unknown") THEN "quarantined" ELSE @]
  <2>1. handles[h].pc = "claim_refused" /\ File(h).state = "active"
    BY <1>0, <1>3 DEF RejectClaim, Holds, Active, AtWork, Failures
  <2>2. file.state = File(h).state /\ file.cp = File(h).cp
    BY <1>0, <2>1 DEF FileRows, At
  <2>3. Leaves(h, file, "open") /\ UNCHANGED anchorVars
    BY <1>3, WriteLeaves DEF RejectClaim
  <2> HIDE DEF file
  <2>4. QED
    BY <2>1, <2>2, <2>3, WorkKeeps DEF AtWork, Active, Pending, Failures
<1>4. CASE ActivateAuthorization(h)
  <2> DEFINE file == [File(h) EXCEPT !.grants[handles[h].job] = "active", !.cp = handles[h].cp]
  <2>1. handles[h].pc = "claimed" /\ File(h).state = "active"
    BY <1>0, <1>4 DEF ActivateAuthorization, At, Holds, Active, AtWork
  <2>2. file.state = "active" /\ file.cp = handles[h].cp
    BY <1>0, <2>1 DEF FileRows
  <2>3. Leaves(h, file, "open") /\ UNCHANGED anchorVars
    BY <1>4, WriteLeaves DEF ActivateAuthorization, CommitFails
  <2> HIDE DEF file
  <2>4. QED
    BY <2>1, <2>2, <2>3, StoreKeeps DEF AtWork, Pending, Failures
<1>5. QED
  BY <1>1, <1>2, <1>3, <1>4 DEF Importing

LEMMA DispatchingClean ==
  ASSUME AuthInv, TellInv, CleanInv, ~Faults, NEW h \in Handles, Dispatching(h)
  PROVE  CleanInv'
<1>0. /\ File(h) \in FileRows
      /\ handles[h].pc \in AtWork => Holds(handles[h], File(h))
      /\ handles[h].pc \notin Failures
  BY Known DEF HandleTells, CleanInv, NoFailures
<1>1. ASSUME NEW k \in Keys, PrepareDispatch(h, k) PROVE CleanInv'
  <2> DEFINE file == [File(h) EXCEPT !.slots[k] = "prepared"]
  <2>1. file.state = File(h).state /\ file.cp = File(h).cp
    BY <1>0 DEF FileRows
  <2>2. /\ Leaves(h, file, "open") /\ UNCHANGED anchorVars
        /\ handles[h].pc = "open" /\ File(h).state = "active"
    BY <1>1, WriteLeaves DEF PrepareDispatch, Working, At
  <2> HIDE DEF file
  <2>3. QED
    BY <2>1, <2>2, WorkKeeps DEF AtWork, Active, Pending, Failures
<1>2. ASSUME NEW k \in Keys, Burn(h, k) PROVE CleanInv'
  <2>1. handles[h].pc = "open" /\ File(h).state = "active" /\ UNCHANGED files
    BY <1>2 DEF Burn, Working, At
  <2>2. CASE UNCHANGED anchorVars /\ GotoWith(h, "burn_failed", k)
    <3>1. Leaves(h, File(h), "burn_failed")
      BY <2>1, <2>2, WriteLeaves
    <3>2. QED
      BY <2>1, <2>2, <3>1, WorkKeeps DEF AtWork, Active, Pending, Failures
  <2>3. CASE ConsumeSlot(R(h), File(h).cp, k) /\
             handles' = [handles EXCEPT ![h].pc = "burnt", ![h].job = k, ![h].cp = anchor'[R(h)]]
    <3>1. Leaves(h, File(h), "burnt")
      <4> DEFINE row == [handles[h] EXCEPT !.pc = "burnt", !.job = k, !.cp = anchor'[R(h)]]
      <4>1. handles' = [handles EXCEPT ![h] = row] /\ row.pc = "burnt"
        BY <2>3, HandleFacts DEF HandleRows
      <4> HIDE DEF row
      <4>2. QED
        BY <2>1, <4>1, WriteLeaves
    <3>2. /\ anchor[R(h)] = File(h).cp
          /\ Append(R(h), File(h).cp.session, File(h).cp.token)
      BY <2>3 DEF ConsumeSlot, ConsumeAllowed, Matches
    <3>3. /\ File(h).cp.session \in Sessions \cup {NoSession} /\ File(h).cp.token \in Nat
          /\ File(h).cp.token >= anchor[R(h)].token
      BY <1>0, <3>2 DEF FileRows, Checkpoints
    <3>4. QED
      BY <2>1, <3>1, <3>2, <3>3, EventKeeps DEF AtWork, Active, Pending, Failures
  <2>4. QED
    BY <1>2, <2>2, <2>3 DEF Burn
<1>3. ASSUME NEW k \in Keys, CompleteDispatch(h, k) PROVE CleanInv'
  <2> DEFINE file == [File(h) EXCEPT !.slots[k] = "result"]
             row == [handles[h] EXCEPT !.awaiting = handles[h].awaiting \ {k}]
  <2>1. handles[h].pc = "open" /\ File(h).state = "active" /\ UNCHANGED anchorVars
    BY <1>3 DEF CompleteDispatch, Working, At
  <2>2. file.state = File(h).state /\ file.cp = File(h).cp /\ row.pc = "open"
    BY <1>0, <2>1, HandleFacts DEF FileRows, HandleRows
  <2>3. Write(h, file) /\ handles' = [handles EXCEPT ![h] = row]
    BY <1>3 DEF CompleteDispatch, CommitFails
  <2> HIDE DEF file, row
  <2>4. Leaves(h, file, "open")
    BY <2>2, <2>3, WriteLeaves
  <2>5. QED
    BY <2>1, <2>2, <2>4, WorkKeeps DEF AtWork, Active, Pending, Failures
<1>4. CASE BurnFails(h)
  <2> DEFINE file == [File(h) EXCEPT !.slots[handles[h].job] = "anchor_ambiguous",
                                     !.state = "quarantined"]
  <2>1. handles[h].pc = "burn_failed" /\ File(h).state = "active" /\ handles[h].job \in Keys
    BY <1>0, <1>4, Known DEF BurnFails, At, Holds, HoldsJob, HandleTells, Active, AtWork
  <2>2. file.state = "quarantined" /\ file.slots[handles[h].job] = "anchor_ambiguous"
    BY <1>0, <2>1 DEF FileRows
  <2>3. Leaves(h, file, "open") /\ UNCHANGED anchorVars
    BY <1>4, WriteLeaves DEF BurnFails
  <2> HIDE DEF file
  <2>4. RowInDoubt(file)
    BY <2>1, <2>2 DEF RowInDoubt
  <2>5. QED
    BY <2>1, <2>2, <2>3, <2>4, Current, DoubtKeeps DEF AtWork, Active
<1>5. CASE IssueCapability(h)
  <2> DEFINE file == [File(h) EXCEPT !.slots[handles[h].job] = "dispatching", !.cp = handles[h].cp]
  <2>1. handles[h].pc = "burnt" /\ File(h).state = "active"
    BY <1>0, <1>5 DEF IssueCapability, At, Holds, Active, AtWork
  <2>2. file.state = "active" /\ file.cp = handles[h].cp
    BY <1>0, <2>1 DEF FileRows
  <2>3. Leaves(h, file, "sending") /\ UNCHANGED anchorVars
    BY <1>5, WriteLeaves DEF IssueCapability, CommitFails
  <2> HIDE DEF file
  <2>4. QED
    BY <2>1, <2>2, <2>3, StoreKeeps DEF AtWork, Active, Pending, Failures
<1>6. CASE Send(h)
  <2> DEFINE row == [handles[h] EXCEPT !.pc = "open", !.awaiting = @ \cup {handles[h].job}]
  <2>1. handles[h].pc = "sending" /\ File(h).state = "active" /\ UNCHANGED <<anchorVars, files>>
    BY <1>0, <1>6 DEF Send, At, Holds, Active, AtWork
  <2>2. row.pc = "open" /\ handles' = [handles EXCEPT ![h] = row]
    BY <1>6, HandleFacts DEF HandleRows, Send
  <2> HIDE DEF row
  <2>3. Leaves(h, File(h), "open")
    BY <2>1, <2>2, WriteLeaves
  <2>4. QED
    BY <2>1, <2>3, WorkKeeps DEF AtWork, Active, Pending, Failures
<1>7. QED
  BY <1>1, <1>2, <1>3, <1>4, <1>5, <1>6 DEF Dispatching

LEMMA ClosingClean ==
  ASSUME AuthInv, TellInv, CleanInv, ~Faults, NEW h \in Handles, Closing(h)
  PROVE  CleanInv'
<1>0. /\ File(h) \in FileRows
      /\ handles[h].pc \in AtWork => Holds(handles[h], File(h))
      /\ handles[h].pc \notin Failures
      /\ Kept(File(h), anchor[R(h)], Hands(FileOf[h]))
  BY Known, HandleFacts DEF HandleTells, CleanInv, NoFailures, KeptFile, File
<1>1. CASE CloseIdle(h)
  <2>1. /\ handles[h].pc = "open" /\ File(h).state = "quarantined"
        /\ UNCHANGED <<anchorVars, files>> /\ Close(h)
    BY <1>0, <1>1 DEF CloseIdle, At, Failures, Holds, AtWork
  <2>2. RowInDoubt(File(h)) /\ anchor[R(h)].sequence > 0
    BY <1>0, <2>1 DEF Kept, Usable
  <2>3. Leaves(h, File(h), "closed")
    BY <2>1, WriteLeaves
  <2>4. QED
    BY <2>1, <2>2, <2>3, DoubtKeeps
<1>2. CASE CloseInFlight(h)
  <2> DEFINE file == [File(h) EXCEPT !.state = "quarantined",
                        !.slots = [k \in Keys |-> IF @[k] = "dispatching"
                                                  THEN "unknown_after_crash" ELSE @[k]]]
  <2>1. handles[h].pc = "open" /\ File(h).state = "active" /\ UNCHANGED anchorVars
    BY <1>2 DEF CloseInFlight, Working, At
  <2>2. PICK k \in Keys : File(h).slots[k] = "dispatching"
    BY <1>2 DEF CloseInFlight, InFlight
  <2>3. file.state = "quarantined" /\ file.slots[k] = "unknown_after_crash"
    BY <1>0, <2>2 DEF FileRows
  <2>4. Write(h, file) /\ Close(h)
    BY <1>2 DEF CloseInFlight
  <2> HIDE DEF file
  <2>5. Leaves(h, file, "closed") /\ RowInDoubt(file)
    BY <2>3, <2>4, WriteLeaves DEF RowInDoubt
  <2>6. QED
    BY <2>1, <2>3, <2>5, Current, DoubtKeeps DEF AtWork
<1>3. CASE Abandon(h)
  <2> DEFINE file == [File(h) EXCEPT
                        !.slots = [k \in Keys |-> IF @[k] = "prepared"
                                                  THEN "abandoned_before_anchor" ELSE @[k]]]
  <2>1. handles[h].pc = "open" /\ File(h).state = "active" /\ UNCHANGED anchorVars
    BY <1>3 DEF Abandon, Working, At
  <2>2. file.state = "active" /\ file.cp = File(h).cp
    BY <1>0, <2>1 DEF FileRows
  <2>3. Write(h, file) /\ GotoWith(h, "releasing", NoJob)
    BY <1>3 DEF Abandon
  <2> HIDE DEF file
  <2>4. Leaves(h, file, "releasing")
    BY <2>3, WriteLeaves
  <2>5. QED
    BY <2>1, <2>2, <2>4, WorkKeeps DEF AtWork, Active, Pending, Failures
<1>4. CASE Release(h)
  \* Nobody else moved the anchor: the release is not refused.
  <2>1. handles[h].pc = "releasing" /\ File(h).state = "active" /\ UNCHANGED files
    BY <1>0, <1>4 DEF Release, At, Holds, Active, AtWork
  <2>2. anchor[R(h)].sequence > 0 /\ File(h).cp = anchor[R(h)]
    BY <2>1, Current DEF AtWork, Active, Pending
  <2>3. handles[h].cp = anchor[R(h)]
    BY <2>1, <2>2, Known DEF HandleTells, HoldsSession
  <2>4. ReleaseAllowed(R(h), handles[h].cp)
    BY <2>2, <2>3 DEF ReleaseAllowed, Matches
  <2>5. ReleaseSession(R(h), handles[h].cp) /\ Received(h, "released")
    BY <1>4, <2>4 DEF Release, CallFails
  <2>6. Leaves(h, File(h), "released")
    BY <2>1, <2>5, WriteLeaves
  <2>7. /\ Append(R(h), NoSession, handles[h].cp.token) /\ handles[h].cp.token \in Nat
        /\ handles[h].cp.token >= anchor[R(h)].token
    BY <2>3, <2>5, HandleFacts DEF ReleaseSession, HandleRows, Checkpoints
  <2>8. QED
    BY <2>1, <2>6, <2>7, EventKeeps DEF AtWork, Active, Pending, Failures
<1>5. CASE StoreRelease(h)
  <2> DEFINE file == [File(h) EXCEPT !.state = "ready", !.cp = handles[h].cp]
  <2>1. /\ handles[h].pc = "released" /\ Write(h, file) /\ Close(h) /\ UNCHANGED anchorVars
    BY <1>0, <1>5 DEF StoreRelease, At, Failures
  <2>2. file.state = "ready" /\ file.cp = handles[h].cp
    BY <1>0 DEF FileRows
  <2> HIDE DEF file
  <2>3. Leaves(h, file, "closed")
    BY <2>1, WriteLeaves
  <2>4. QED
    BY <2>1, <2>2, <2>3, StoreKeeps DEF Pending, Failures
<1>6. QED
  BY <1>1, <1>2, <1>3, <1>4, <1>5 DEF Closing

LEMMA CleanInit == Init => CleanInv
<1> SUFFICES ASSUME Init PROVE CleanInv
  OBVIOUS
<1>1. \A h \in Handles : handles[h].pc = "unopened"
  BY DEF Init, Unopened
<1>2. \A f \in Files : files[f].state = "absent"
  BY DEF Init, NoFile
<1>3. QED
  BY <1>1, <1>2 DEF CleanInv, OwnersApart, NoFailures, KeptFile, Kept, Owns, Hands, Usable, Failures

LEMMA CleanStep ==
  ASSUME AuthInv, TellInv, CleanInv, [Next]_vars
  PROVE  CleanInv'
<1>1. CASE UNCHANGED vars
  BY <1>1 DEF vars, anchorVars, CleanInv, OwnersApart, NoFailures, KeptFile, Owns, Hands
<1>2. CASE Faults
  BY <1>2 DEF CleanInv
<1>3. ASSUME ~Faults, NEW h \in Handles, Crash(h) PROVE CleanInv'
  BY <1>3 DEF Crash
<1>4. ASSUME ~Faults, NEW f \in Files, NEW g \in Files, Copy(f, g) PROVE CleanInv'
  BY <1>4 DEF Copy
<1>5. QED
  BY <1>1, <1>2, <1>3, <1>4, OpeningClean, ImportingClean, DispatchingClean, ClosingClean DEF Next

\* Without crashes, lost answers and copies, whenever no process is at work a
\* registry's file can be opened again, unless a slot is in doubt (close and
\* openExisting), for any number of files and processes of a registry.
THEOREM CleanRunsStayOpen == Spec => []CleanRunsReopen
<1>1. ASSUME AuthInv, CleanInv PROVE CleanRunsReopen
  <2> SUFFICES ASSUME ~Faults, \A h \in Handles : handles[h].pc \in {"unopened", "closed"},
                      NEW f \in Files, files[f].state # "absent"
               PROVE  \/ anchor[FileRegistry[f]].sequence > 0 /\ files[f].state = "initializing"
                      \/ files[f].state = "ready" /\ Matches(FileRegistry[f], files[f].cp)
                      \/ files[f].state = "quarantined" /\ InDoubt(f)
    BY DEF CleanRunsReopen
  <2>1. Kept(files[f], anchor[FileRegistry[f]], Hands(f))
    BY <1>1 DEF CleanInv, KeptFile
  <2>2. Hands(f) \subseteq {"unopened", "closed"}
    BY DEF Hands
  <2>3. files[f].state \in FileStates
    BY <1>1 DEF AuthInv, TypeOK
  <2>4. QED
    BY <2>1, <2>2, <2>3 DEF Kept, FileStates, Usable, Matches, InDoubt, RowInDoubt, AtWork, Active
<1>2. AuthInv /\ TellInv /\ CleanInv /\ [Next]_vars => CleanInv'
  BY CleanStep
<1>3. QED
  BY <1>1, <1>2, CleanInit, TellInvariant, PTL DEF Spec
================================================================================

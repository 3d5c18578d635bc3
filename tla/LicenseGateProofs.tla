-------------------------- MODULE LicenseGateProofs --------------------------
(***************************************************************************)
(* Proofs about the license guards and gates, for any number of guards,    *)
(* gates and workers and any configurations.                               *)
(*                                                                         *)
(* The invariants are not inductive by themselves, because the verdict a   *)
(* gate reads was formed on a time that was read earlier, and the answer   *)
(* it acts on was read earlier still.  GuardInv relates a guard's verdict  *)
(* to its token and to the clock; GateInv says what the collector's start  *)
(* order and a gate's single resolution establish.                         *)
(***************************************************************************)
EXTENDS LicenseGate, TLAPS

(* There is a verdict: Start has returned, or its check has written one. *)
Judged(g) == started[g] \/ gpc[g] = "record"

InvOf(g) ==
    /\ gpc[g] \in {"check", "write", "record", "launched", "select", "done"} => ~PassThrough(g)
    /\ gpc[g] \in {"write", "record"} => VerifyJWT(g)
    /\ gpc[g] = "created" => ~started[g]
    /\ checkNow[g] <= now
    /\ PassThrough(g) => valid[g]
    /\ Judged(g) /\ ~valid[g] =>
         \/ Rejected(g)
         \/ Expired(g) /\ (gpc[g] = "write" => checkNow[g] >= GracePeriodEnd(g))
    /\ started[g] /\ Rejected(g) => ~valid[g]

GuardInv == \A g \in Guards : InvOf(g)

GateInv ==
    /\ phase # "extensions" => \A g \in Guards : started[g]
    /\ phase \in {"receiving", "stopping"} => hostSet = Gates
    /\ \A p \in resolved : checker[p] = NoChecker => Guards = {} \/ p \notin Linked
    /\ \A w \in Workers :
         wpc[w] # "idle" => phase = "receiving" /\ wgate[w] \in resolved

IInv == TypeOK /\ GuardInv /\ GateInv /\ DropJustified /\ AdmitJustified

-------------------------------------------------------------------------------
(* What the configurations give a guard. *)
LEMMA ConfigFacts ==
    ASSUME GuardTypeOK, NEW g \in Guards
    PROVE  /\ config[g].failOpen \in BOOLEAN
           /\ config[g].checkInterval \in Nat \ {0}
           /\ VerifyJWT(g) => ExpiresAt(g) \in Nat /\ GracePeriodEnd(g) \in Nat
PROOF
<1>1. config[g] \in Configs
    BY DEF GuardTypeOK
<1>2. /\ config[g].failOpen \in BOOLEAN
      /\ config[g].checkInterval \in Nat \ {0}
      /\ config[g].gracePeriod \in Nat
      /\ {config[g].licenseKey, config[g].licenseKeyEnv} \subseteq
           [signed : BOOLEAN, tenant : BOOLEAN, exp : Nat \cup {NoExp}]
    BY <1>1, GuardAssumption
<1>3. LicenseKey(config[g]).exp \in Nat \cup {NoExp}
    BY <1>2 DEF LicenseKey
<1>4. VerifyJWT(g) => ExpiresAt(g) \in Nat
    BY <1>3 DEF VerifyJWT, ExpiresAt
<1>5. VerifyJWT(g) => GracePeriodEnd(g) \in Nat
    BY <1>2, <1>4 DEF GracePeriodEnd
<1> QED BY <1>2, <1>4, <1>5

(* No step changes a configuration, or what depends on it alone. *)
LEMMA ConfigFrame ==
    ASSUME UNCHANGED config, NEW g \in Guards
    PROVE  /\ PassThrough(g)' <=> PassThrough(g)
           /\ VerifyJWT(g)' <=> VerifyJWT(g)
           /\ GracePeriodEnd(g)' = GracePeriodEnd(g)
           /\ Rejected(g)' <=> Rejected(g)
PROOF
<1>1. PassThrough(g)' <=> PassThrough(g)
    BY DEF PassThrough
<1>2. VerifyJWT(g)' <=> VerifyJWT(g)
    BY DEF VerifyJWT
<1>3. GracePeriodEnd(g)' = GracePeriodEnd(g)
    BY DEF GracePeriodEnd, ExpiresAt
<1>4. Rejected(g)' <=> Rejected(g)
    BY <1>1, <1>2 DEF Rejected
<1> QED BY <1>1, <1>2, <1>3, <1>4

(* What is expired stays so, as the clock does not go back. *)
LEMMA ExpiredStays ==
    ASSUME GuardTypeOK, UNCHANGED config, now' \in Nat, now' >= now,
           NEW g \in Guards, Expired(g)
    PROVE  Expired(g)'
PROOF
<1>1. now \in Nat
    BY GuardAssumption DEF GuardTypeOK
<1>2. VerifyJWT(g) /\ ~PassThrough(g) /\ now >= GracePeriodEnd(g)
    BY DEF Expired
<1>3. GracePeriodEnd(g) \in Nat
    BY <1>2, ConfigFacts
<1>4. now' >= GracePeriodEnd(g)
    BY <1>1, <1>2, <1>3
<1> QED BY <1>2, <1>4, ConfigFrame DEF Expired

(* The steps of the guards, and of the clock. *)
GuardNext ==
    \/ \E g \in Guards : Start(g) \/ GuardStep(g) \/ Shutdown(g)
    \/ Tick

(* Changing one guard's flag leaves a function to the Booleans. *)
LEMMA BooleanExcept ==
    ASSUME NEW S, NEW f \in [S -> BOOLEAN], NEW x \in S, NEW b \in BOOLEAN
    PROVE  [f EXCEPT ![x] = b] \in [S -> BOOLEAN]
PROOF OBVIOUS

(* Every step of a guard and of the clock keeps the guards' types. *)
LEMMA GuardTypeStep ==
    ASSUME GuardTypeOK, GuardInv, GuardNext
    PROVE  GuardTypeOK'
PROOF
<1>0. \A g \in Guards :
         /\ config[g].checkInterval \in Nat
         /\ gpc[g] = "write" => ExpiresAt(g) \in Nat /\ GracePeriodEnd(g) \in Nat
    BY ConfigFacts DEF GuardInv, InvOf
<1>n. \A g \in Guards : nextTick[g] \in Nat
    BY DEF GuardTypeOK
<1>s. \A g \in Guards : nextTick[g] + config[g].checkInterval \in Nat
  <2>1. \A m, n \in Nat : m + n \in Nat
      OBVIOUS
  <2> QED BY <1>0, <1>n, <2>1, Zenon
<1>a. MaxLag \in Nat /\ Horizon \in Nat
    BY GuardAssumption
<1> USE <1>a DEF GuardTypeOK, Unrecorded
<1>1. ASSUME NEW g \in Guards, Start(g) PROVE GuardTypeOK'
  <2>1. started' \in [Guards -> BOOLEAN]
      BY <1>1, Zenon DEF Start, PassThrough
  <2> QED BY <1>1, <2>1 DEF Start
<1>2. ASSUME NEW g \in Guards, EndCheck(g)
      PROVE  /\ started' \in [Guards -> BOOLEAN]
             /\ gpc' \in [Guards -> {"created", "passThrough", "check", "write", "record",
                                    "launched", "select", "done"}]
             /\ lag' \in [Guards -> 0 .. MaxLag]
    BY <1>2 DEF EndCheck
<1>3. ASSUME NEW g \in Guards, CheckLicenseReject(g) PROVE GuardTypeOK'
  <2>1. valid' \in [Guards -> BOOLEAN] /\ grace' \in [Guards -> BOOLEAN]
      BY <1>3, ConfigFacts DEF CheckLicenseReject
  <2> QED BY <1>2, <1>3, <2>1 DEF CheckLicenseReject
<1>4. ASSUME NEW g \in Guards, CheckLicenseRead(g) PROVE GuardTypeOK'
    BY <1>4 DEF CheckLicenseRead
<1>5. ASSUME NEW g \in Guards, CheckLicenseWrite(g) PROVE GuardTypeOK'
  <2> DEFINE ok == checkNow[g] < GracePeriodEnd(g)
             late == checkNow[g] >= ExpiresAt(g) /\ checkNow[g] < GracePeriodEnd(g)
  <2>1. /\ valid' = [valid EXCEPT ![g] = ok]
        /\ grace' = [grace EXCEPT ![g] = late]
      BY <1>5 DEF CheckLicenseWrite
  <2>2. ok \in BOOLEAN /\ late \in BOOLEAN
      BY <1>0, <1>5 DEF CheckLicenseWrite
  <2> HIDE DEF ok, late
  <2>3. valid' \in [Guards -> BOOLEAN] /\ grace' \in [Guards -> BOOLEAN]
      BY <2>1, <2>2, BooleanExcept
  <2> QED BY <1>5, <2>3 DEF CheckLicenseWrite
<1>6. ASSUME NEW g \in Guards, CheckLicenseRecord(g) PROVE GuardTypeOK'
  <2>1. gauge' \in [Guards -> {Unrecorded, 0, 1}]
      BY <1>6 DEF CheckLicenseRecord
  <2> QED BY <1>2, <1>6, <2>1 DEF CheckLicenseRecord
<1>7. ASSUME NEW g \in Guards, LoopStart(g) PROVE GuardTypeOK'
  <2>1. now + config[g].checkInterval \in Nat
      BY <1>0
  <2> QED BY <1>7, <2>1 DEF LoopStart
<1>8. ASSUME NEW g \in Guards, LoopTick(g) \/ LoopExit(g) \/ Shutdown(g) PROVE GuardTypeOK'
    BY <1>8 DEF LoopTick, LoopExit, Shutdown
<1>9. CASE Tick
  <2>1. now' \in 0 .. Horizon
      BY <1>9 DEF Tick
  <2>2. lag' \in [Guards -> 0 .. MaxLag]
      BY <1>9 DEF Tick
  <2>3. tick' \in [Guards -> BOOLEAN]
      BY <1>9, Zenon DEF Tick
  <2>4. nextTick' \in [Guards -> Nat]
      BY <1>9, <1>s DEF Tick
  <2> QED BY <1>9, <2>1, <2>2, <2>3, <2>4 DEF Tick
<1> QED
    BY <1>1, <1>3, <1>4, <1>5, <1>6, <1>7, <1>8, <1>9 DEF GuardNext, GuardStep, CheckStep

(* A guard whose own state does not change keeps its invariant as time     *)
(* goes on.                                                                *)
LEMMA InvOfFrame ==
    ASSUME GuardTypeOK, UNCHANGED config, now' \in Nat, now' >= now,
           NEW h \in Guards, InvOf(h),
           gpc'[h] = gpc[h], started'[h] = started[h], checkNow'[h] = checkNow[h],
           valid'[h] = valid[h]
    PROVE  InvOf(h)'
PROOF
<1>1. checkNow[h] \in Nat /\ now \in Nat
    BY GuardAssumption DEF GuardTypeOK
<1>2. checkNow'[h] <= now'
    BY <1>1 DEF InvOf
<1>3. Expired(h) => Expired(h)'
    BY ExpiredStays
<1> QED BY <1>2, <1>3, ConfigFrame DEF InvOf, Judged

(* Every step of a guard and of the clock keeps the verdicts explained. *)
LEMMA GuardInvStep ==
    ASSUME GuardTypeOK, GuardInv, GuardNext
    PROVE  GuardInv'
PROOF
<1>now. now \in Nat /\ (now' = now => now' \in Nat /\ now' >= now)
    BY GuardAssumption DEF GuardTypeOK
<1>1. CASE Tick
  <2>1. now' \in Nat /\ now' >= now
      BY <1>1, <1>now DEF Tick
  <2> QED BY <1>1, <2>1, InvOfFrame DEF Tick, GuardInv
<1>2. ASSUME NEW g \in Guards, Start(g) \/ GuardStep(g) \/ Shutdown(g)
      PROVE  GuardInv'
  <2> USE DEF GuardTypeOK
  <2>1. /\ UNCHANGED <<now, config>>
        /\ \A h \in Guards : h # g =>
             /\ gpc'[h] = gpc[h] /\ started'[h] = started[h] /\ checkNow'[h] = checkNow[h]
             /\ valid'[h] = valid[h]
      BY <1>2 DEF Start, GuardStep, CheckStep, CheckLicenseReject, CheckLicenseRead,
                  CheckLicenseWrite, CheckLicenseRecord, EndCheck, LoopStart, LoopTick,
                  LoopExit, Shutdown
  <2>2. InvOf(g)
      BY DEF GuardInv
  <2>3. /\ PassThrough(g)' <=> PassThrough(g)
        /\ VerifyJWT(g)' <=> VerifyJWT(g)
        /\ GracePeriodEnd(g)' = GracePeriodEnd(g)
        /\ Rejected(g)' <=> Rejected(g)
        /\ Expired(g)' <=> Expired(g)
      BY <2>1, ConfigFrame DEF Expired
  <2>4. InvOf(g)'
    <3>1. CASE Start(g)
      <4>1. /\ gpc[g] = "created" /\ valid'[g] = valid[g] /\ checkNow'[g] = checkNow[g]
            /\ gpc'[g] = IF PassThrough(g) THEN "passThrough" ELSE "check"
            /\ started'[g] <=> PassThrough(g)
          BY <3>1 DEF Start
      <4>2. Rejected(g) => ~PassThrough(g)
          BY DEF Rejected
      <4> QED BY <2>1, <2>2, <2>3, <4>1, <4>2 DEF InvOf, Judged
    <3>2. CASE CheckLicenseReject(g)
      <4>1. /\ gpc[g] = "check" /\ ~VerifyJWT(g) /\ valid'[g] = config[g].failOpen
            /\ gpc'[g] \in {"select", "launched"} /\ checkNow'[g] = checkNow[g]
          BY <3>2 DEF CheckLicenseReject, EndCheck
      <4>2. ~PassThrough(g)
          BY <2>2, <4>1 DEF InvOf
      <4>3. valid'[g] <=> ~Rejected(g)
          BY <4>1, <4>2 DEF Rejected
      <4> QED BY <2>1, <2>2, <2>3, <4>1, <4>2, <4>3 DEF InvOf, Judged
    <3>3. CASE CheckLicenseRead(g)
      <4>1. /\ gpc[g] = "check" /\ VerifyJWT(g) /\ gpc'[g] = "write"
            /\ checkNow'[g] = now /\ valid'[g] = valid[g] /\ started'[g] = started[g]
          BY <3>3 DEF CheckLicenseRead
      <4>2. Expired(g) => now >= GracePeriodEnd(g)
          BY DEF Expired
      <4>3. checkNow'[g] <= now'
          BY <1>now, <2>1, <4>1
      <4> QED BY <2>2, <2>3, <4>1, <4>2, <4>3 DEF InvOf, Judged
    <3>4. CASE CheckLicenseWrite(g)
      <4>1. /\ gpc[g] = "write" /\ gpc'[g] = "record"
            /\ valid'[g] <=> checkNow[g] < GracePeriodEnd(g)
            /\ checkNow'[g] = checkNow[g] /\ started'[g] = started[g]
          BY <3>4 DEF CheckLicenseWrite
      <4>2. VerifyJWT(g) /\ ~PassThrough(g) /\ checkNow[g] <= now
          BY <2>2, <4>1 DEF InvOf
      <4>3. GracePeriodEnd(g) \in Nat /\ checkNow[g] \in Nat
        <5>1. checkNow[g] \in Nat
            BY GuardAssumption
        <5> HIDE DEF GuardTypeOK
        <5> QED BY <4>2, <5>1, ConfigFacts
      <4>4. ~valid'[g] => Expired(g)
        <5>1. ~(checkNow[g] < GracePeriodEnd(g)) => now >= GracePeriodEnd(g)
            BY <1>now, <4>2, <4>3, SMT
        <5> QED BY <4>1, <4>2, <5>1, Zenon DEF Expired
      <4>5. ~Rejected(g)
          BY <4>2 DEF Rejected
      <4> QED BY <2>1, <2>3, <4>1, <4>2, <4>4, <4>5 DEF InvOf, Judged
    <3>5. CASE CheckLicenseRecord(g)
      <4>1. /\ gpc[g] = "record" /\ gpc'[g] \in {"select", "launched"}
            /\ valid'[g] = valid[g] /\ checkNow'[g] = checkNow[g]
          BY <3>5 DEF CheckLicenseRecord, EndCheck
      <4>2. ~Rejected(g)
          BY <2>2, <4>1 DEF InvOf, Rejected
      <4> QED BY <2>1, <2>2, <2>3, <4>1, <4>2 DEF InvOf, Judged
    <3>6. CASE LoopStart(g) \/ LoopTick(g) \/ LoopExit(g) \/ Shutdown(g)
      <4>1. /\ gpc'[g] = gpc[g]
               \/ (gpc[g] \in {"launched", "select"} /\ gpc'[g] \in {"select", "check", "done"})
            /\ valid'[g] = valid[g] /\ checkNow'[g] = checkNow[g] /\ started'[g] = started[g]
          BY <3>6 DEF LoopStart, LoopTick, LoopExit, Shutdown
      <4> QED BY <2>1, <2>2, <2>3, <4>1 DEF InvOf, Judged
    <3> QED BY <1>2, <3>1, <3>2, <3>3, <3>4, <3>5, <3>6 DEF GuardStep, CheckStep
  <2> HIDE DEF GuardTypeOK
  <2>5. ASSUME NEW h \in Guards, h # g PROVE InvOf(h)'
      BY <1>now, <2>1, <2>5, InvOfFrame DEF GuardInv
  <2> QED BY <2>4, <2>5 DEF GuardInv
<1> QED BY <1>1, <1>2 DEF GuardNext

-------------------------------------------------------------------------------
(* The steps of the gates, and of the collector's lifecycle. *)
GateNext ==
    \/ \E p \in Gates : StartProcessor(p)
    \/ StartReceivers
    \/ StopReceivers
    \/ \E w \in Workers, p \in Gates, b \in Batches : Consume(w, p, b)
    \/ \E w \in Workers : AskValid(w) \/ Forward(w) \/ Drop(w)

(* A step is one of the guards', which leaves the gates alone, or one of   *)
(* the gates', which leaves the guards alone.                              *)
LEMMA NextSplit ==
    ASSUME Next
    PROVE  \/ GuardNext /\ UNCHANGED gateVars
           \/ GateNext /\ UNCHANGED guardVars
PROOF
<1>1. ASSUME NEW g \in Guards, StartExtension(g) \/ StopExtension(g)
      PROVE  GuardNext /\ UNCHANGED gateVars
    BY <1>1 DEF StartExtension, StopExtension, GuardNext
<1>2. ASSUME NEW w \in Workers, NEW p \in Gates, NEW b \in Batches, Consume(w, p, b)
      PROVE  GateNext /\ UNCHANGED guardVars
    BY <1>2 DEF Consume, GateNext
<1>3. ASSUME NEW w \in Workers, AskValid(w) \/ Forward(w) \/ Drop(w)
      PROVE  GateNext /\ UNCHANGED guardVars
    BY <1>3 DEF AskValid, Forward, Drop, GateNext
<1>4. ASSUME NEW p \in Gates, StartProcessor(p) PROVE GateNext /\ UNCHANGED guardVars
    BY <1>4 DEF StartProcessor, GateNext
<1>5. CASE StartReceivers \/ StopReceivers
    BY <1>5 DEF StartReceivers, StopReceivers, GateNext
<1> QED BY <1>1, <1>2, <1>3, <1>4, <1>5 DEF Next, GuardNext

(* Every step of a gate and of the lifecycle keeps the gates' types. *)
LEMMA GateTypeStep ==
    ASSUME GateTypeOK, GateNext
    PROVE  GateTypeOK'
PROOF
<1> USE GateAssumption DEF GateTypeOK
<1>1. ASSUME NEW p \in Gates, StartProcessor(p) PROVE GateTypeOK'
    BY <1>1 DEF StartProcessor
<1>2. CASE StartReceivers \/ StopReceivers
    BY <1>2 DEF StartReceivers, StopReceivers
<1>3. ASSUME NEW w \in Workers, NEW p \in Gates, NEW b \in Batches, Consume(w, p, b)
      PROVE  GateTypeOK'
  <2>1. resolved' \subseteq Gates /\ checker' \in [Gates -> Guards \cup {NoChecker}]
    <3>1. PICK c \in Guards \cup {NoChecker} : ResolveChecker(p, c)
        BY <1>3 DEF Consume
    <3> QED BY <3>1 DEF ResolveChecker
  <2> QED BY <1>3, <2>1 DEF Consume
<1>4. ASSUME NEW w \in Workers, AskValid(w) PROVE GateTypeOK'
    BY <1>4 DEF AskValid
<1>5. ASSUME NEW w \in Workers, Forward(w) PROVE GateTypeOK'
    BY <1>5 DEF Forward
<1>6. ASSUME NEW w \in Workers, Drop(w) PROVE GateTypeOK'
  <2>1. dropped[wgate[w]] + wbatch[w] \in Nat
    <3>1. wgate[w] \in Gates
        OBVIOUS
    <3>2. dropped[wgate[w]] \in Nat
        BY <3>1
    <3>3. wbatch[w] \in Batches \cup {0}
        OBVIOUS
    <3>4. wbatch[w] \in Nat
      <4>1. Batches \cup {0} \subseteq Nat
        <5> HIDE DEF GateTypeOK
        <5> QED BY GateAssumption
      <4> QED BY <3>3, <4>1, Zenon
    <3>5. \A m, n \in Nat : m + n \in Nat
        OBVIOUS
    <3> QED BY <3>2, <3>4, <3>5, Zenon
  <2>2. wgate[w] \in Gates /\ 0 \in Batches \cup {0}
      OBVIOUS
  <2>3. dropped' \in [Gates -> Nat]
      BY <1>6, <2>1, <2>2 DEF Drop
  <2>4. wpc' \in [Workers -> {"idle", "valid", "grace", "drop"}]
      BY <1>6 DEF Drop
  <2>5. wbatch' \in [Workers -> Batches \cup {0}]
      BY <1>6, <2>2 DEF Drop
  <2>6. UNCHANGED <<phase, hostSet, resolved, checker, wgate, delivered, warned>>
      BY <1>6 DEF Drop
  <2> QED BY <2>3, <2>4, <2>5, <2>6
<1> QED BY <1>1, <1>2, <1>3, <1>4, <1>5, <1>6 DEF GateNext

(* Guards have started before anything asks them, and a gate's only        *)
(* resolution finds a guard if there is one of the configured name.        *)
LEMMA GateInvStep ==
    ASSUME TypeOK, GuardInv, GateInv, Next
    PROVE  GateInv'
PROOF
<1> USE DEF TypeOK, GateTypeOK, GateInv
<1>1. CASE GuardNext /\ UNCHANGED gateVars
  <2>1. \A g \in Guards : started[g] => started'[g]
    <3>1. ASSUME NEW g \in Guards, Start(g) PROVE \A h \in Guards : started[h] => started'[h]
        BY <3>1 DEF Start, GuardInv, InvOf, GuardTypeOK
    <3> QED BY <1>1, <3>1
               DEF GuardNext, GuardStep, CheckStep, CheckLicenseReject, CheckLicenseRead,
                   CheckLicenseWrite, CheckLicenseRecord, EndCheck, LoopStart, LoopTick,
                   LoopExit, Shutdown, Tick, GuardTypeOK
  <2> QED BY <1>1, <2>1 DEF gateVars
<1>2. CASE GateNext /\ UNCHANGED guardVars
  <2>0. started' = started
      BY <1>2 DEF guardVars
  <2>1. ASSUME NEW p \in Gates, StartProcessor(p) PROVE GateInv'
      BY <2>0, <2>1 DEF StartProcessor
  <2>2. CASE StartReceivers
      BY <2>0, <2>2 DEF StartReceivers
  <2>3. CASE StopReceivers
      BY <2>0, <2>3 DEF StopReceivers
  <2>4. ASSUME NEW w \in Workers, NEW p \in Gates, NEW b \in Batches, Consume(w, p, b)
        PROVE  GateInv'
    <3>1. PICK c \in Guards \cup {NoChecker} : ResolveChecker(p, c)
        BY <2>4 DEF Consume
    <3>2. hostSet = Gates
        BY <2>4 DEF Consume
    <3>3. p \in resolved' /\ resolved \subseteq resolved'
        BY <3>1 DEF ResolveChecker
    <3>4. \A q \in resolved' : checker'[q] = NoChecker => Guards = {} \/ q \notin Linked
        BY <3>1, <3>2, GateAssumption DEF ResolveChecker, Candidates
    <3>5. \A v \in Workers :
             wpc'[v] # "idle" => phase' = "receiving" /\ wgate'[v] \in resolved'
        BY <2>4, <3>3 DEF Consume
    <3> QED BY <2>0, <2>4, <3>4, <3>5 DEF Consume
  <2>5. ASSUME NEW w \in Workers, AskValid(w) PROVE GateInv'
      BY <2>0, <2>5 DEF AskValid
  <2>6. ASSUME NEW w \in Workers, Forward(w) PROVE GateInv'
      BY <2>0, <2>6 DEF Forward
  <2>7. ASSUME NEW w \in Workers, Drop(w) PROVE GateInv'
      BY <2>0, <2>7 DEF Drop
  <2> QED BY <1>2, <2>1, <2>2, <2>3, <2>4, <2>5, <2>6, <2>7 DEF GateNext
<1> QED BY <1>1, <1>2, NextSplit

(* A worker that has its answer acts on a verdict that still stands. *)
LEMMA JustifiedStep ==
    ASSUME TypeOK, GuardInv, GateInv, DropJustified, AdmitJustified, Next
    PROVE  DropJustified' /\ AdmitJustified'
PROOF
<1> USE DEF TypeOK, GateTypeOK, DropJustified, AdmitJustified
<1>1. CASE GuardNext /\ UNCHANGED gateVars
  <2>1. UNCHANGED config /\ now' \in Nat /\ now' >= now
      BY <1>1, GuardAssumption
         DEF GuardNext, Start, GuardStep, CheckStep, CheckLicenseReject, CheckLicenseRead,
             CheckLicenseWrite, CheckLicenseRecord, EndCheck, LoopStart, LoopTick,
             LoopExit, Shutdown, Tick, GuardTypeOK
  <2>2. \A g \in Guards : (Rejected(g)' <=> Rejected(g)) /\ (Expired(g) => Expired(g)')
      BY <2>1, ConfigFrame, ExpiredStays
  <2>3. \A w \in Workers : checker[wgate[w]] \in Guards \cup {NoChecker}
      OBVIOUS
  <2> QED BY <1>1, <2>2, <2>3 DEF gateVars
<1>2. CASE GateNext /\ UNCHANGED guardVars
  <2>0. \A g \in Guards : (Rejected(g)' <=> Rejected(g)) /\ (Expired(g)' <=> Expired(g))
      BY <1>2, ConfigFrame DEF guardVars, Expired
  <2>a. \A w \in Workers : checker[wgate[w]] \in Guards \cup {NoChecker}
      OBVIOUS
  <2>1. ASSUME UNCHANGED <<checker, wgate>>,
               \A w \in Workers : wpc'[w] \in {"drop", "grace"} => wpc'[w] = wpc[w]
        PROVE  DropJustified' /\ AdmitJustified'
      BY <2>0, <2>a, <2>1
  <2>2. ASSUME NEW p \in Gates, StartProcessor(p) PROVE DropJustified' /\ AdmitJustified'
      BY <2>1, <2>2 DEF StartProcessor
  <2>3. CASE StartReceivers \/ StopReceivers
      BY <2>1, <2>3 DEF StartReceivers, StopReceivers
  <2>4. ASSUME NEW w \in Workers, NEW p \in Gates, NEW b \in Batches, Consume(w, p, b)
        PROVE  DropJustified' /\ AdmitJustified'
    <3>1. \A q \in resolved : checker'[q] = checker[q]
        BY <2>4 DEF Consume, ResolveChecker
    <3>2. \A v \in Workers : wpc'[v] \in {"drop", "grace"} =>
             /\ wpc'[v] = wpc[v] /\ wgate'[v] = wgate[v]
             /\ checker'[wgate[v]] = checker[wgate[v]]
        BY <2>4, <3>1 DEF Consume, GateInv
    <3> QED BY <2>0, <2>a, <3>2
  <2>5. ASSUME NEW w \in Workers, AskValid(w) PROVE DropJustified' /\ AdmitJustified'
    <3> DEFINE g == checker[wgate[w]]
    <3>1. /\ UNCHANGED <<checker, wgate>>
          /\ wpc[w] = "valid" /\ \A v \in Workers : v # w => wpc'[v] = wpc[v]
          /\ wpc'[w] = IF Admits(wgate[w]) THEN "grace" ELSE "drop"
        BY <2>5 DEF AskValid
    <3>2. \A h \in Guards : started[h] /\ wgate[w] \in resolved
        BY <3>1 DEF GateInv
    <3>3. CASE Admits(wgate[w])
      <4>1. CASE g = NoChecker
        <5>1. Guards = {} \/ wgate[w] \notin Linked
            BY <3>1, <4>1 DEF GateInv
        <5> QED BY <2>0, <2>a, <3>1, <3>3, <4>1, <5>1
      <4>2. CASE g # NoChecker
        <5>1. PassThrough(g) \/ valid[g]
            BY <3>3, <4>2 DEF Admits, IsValid
        <5>2. ~Rejected(g)
            BY <2>a, <3>2, <4>2, <5>1 DEF GuardInv, InvOf, Rejected
        <5> QED BY <2>0, <2>a, <3>1, <3>3, <4>2, <5>2
      <4> QED BY <4>1, <4>2
    <3>4. CASE ~Admits(wgate[w])
      <4>1. g # NoChecker /\ ~valid[g]
          BY <3>4 DEF Admits, IsValid
      <4>2. Rejected(g) \/ Expired(g)
          BY <2>a, <3>2, <4>1 DEF GuardInv, InvOf, Judged
      <4> QED BY <2>0, <2>a, <3>1, <3>4, <4>1, <4>2
    <3> QED BY <3>3, <3>4
  <2>6. ASSUME NEW w \in Workers, Forward(w) \/ Drop(w)
        PROVE  DropJustified' /\ AdmitJustified'
      BY <2>1, <2>6 DEF Forward, Drop
  <2> QED BY <1>2, <2>2, <2>3, <2>4, <2>5, <2>6 DEF GateNext
<1> QED BY <1>1, <1>2, NextSplit

-------------------------------------------------------------------------------
(* The initial states satisfy the inductive invariant. *)
LEMMA InitInv == Init => IInv
PROOF
<1> SUFFICES ASSUME Init PROVE IInv
    OBVIOUS
<1> USE DEF Init, GuardInit
<1>1. GuardTypeOK
  <2>1. valid \in [Guards -> BOOLEAN]
      BY Zenon DEF PassThrough
  <2> QED BY <2>1, GuardAssumption DEF GuardTypeOK, Unrecorded
<1>2. GateTypeOK
  <2>1. (CHOOSE p \in Gates : TRUE) \in Gates
      BY GateAssumption
  <2>2. wgate \in [Workers -> Gates]
      BY <2>1
  <2>3. delivered \in 0 .. MaxBatches /\ warned \in Nat
      BY GateAssumption
  <2> QED BY <2>2, <2>3 DEF GateTypeOK
<1>3. GuardInv
  <2> SUFFICES ASSUME NEW g \in Guards PROVE InvOf(g)
      BY DEF GuardInv
  <2>1. gpc[g] = "created" /\ ~started[g]
      OBVIOUS
  <2>2. PassThrough(g) => valid[g]
    <3>1. valid = [h \in Guards |-> PassThrough(h)]
        OBVIOUS
    <3> HIDE DEF Init
    <3> QED BY <3>1, Zenon
  <2>3. checkNow[g] = 0 /\ now = 0
      OBVIOUS
  <2>4. checkNow[g] <= now
    <3> HIDE DEF Init
    <3> QED BY <2>3
  <2> HIDE DEF Init
  <2> QED BY <2>1, <2>2, <2>4 DEF InvOf, Judged
<1>4. GateInv /\ DropJustified /\ AdmitJustified
    BY DEF GateInv, DropJustified, AdmitJustified
<1> QED BY <1>1, <1>2, <1>3, <1>4 DEF IInv, TypeOK

(* Every step, and every stutter, keeps the inductive invariant. *)
LEMMA StepInv == IInv /\ [Next]_vars => IInv'
PROOF
<1> SUFFICES ASSUME IInv, [Next]_vars PROVE IInv'
    OBVIOUS
<1>1. CASE Next
  <2>1. GateInv' /\ DropJustified' /\ AdmitJustified'
      BY <1>1, GateInvStep, JustifiedStep DEF IInv
  <2>2. CASE GuardNext /\ UNCHANGED gateVars
    <3>1. GuardTypeOK' /\ GuardInv'
        BY <2>2, GuardTypeStep, GuardInvStep DEF IInv, TypeOK
    <3>2. GateTypeOK'
        BY <2>2 DEF IInv, TypeOK, GateTypeOK, gateVars
    <3> QED BY <2>1, <3>1, <3>2 DEF IInv, TypeOK
  <2>3. CASE GateNext /\ UNCHANGED guardVars
    <3>1. GateTypeOK'
        BY <2>3, GateTypeStep DEF IInv, TypeOK
    <3>2. GuardTypeOK'
        BY <2>3 DEF IInv, TypeOK, GuardTypeOK, guardVars
    <3>3. GuardInv'
        BY <2>3 DEF IInv, GuardInv, InvOf, Judged, Rejected, Expired, PassThrough, VerifyJWT,
                    GracePeriodEnd, ExpiresAt, guardVars
    <3> QED BY <2>1, <3>1, <3>2, <3>3 DEF IInv, TypeOK
  <2> QED BY <1>1, <2>2, <2>3, NextSplit
<1>2. CASE UNCHANGED vars
  <2>1. TypeOK'
      BY <1>2 DEF IInv, TypeOK, GuardTypeOK, GateTypeOK, vars, guardVars, gateVars
  <2>2. GuardInv'
      BY <1>2 DEF IInv, GuardInv, InvOf, Judged, Rejected, Expired, PassThrough, VerifyJWT,
                  GracePeriodEnd, ExpiresAt, vars, guardVars
  <2>3. GateInv' /\ DropJustified' /\ AdmitJustified'
      BY <1>2 DEF IInv, GateInv, DropJustified, AdmitJustified, Rejected, Expired,
                  PassThrough, VerifyJWT, GracePeriodEnd, ExpiresAt, vars, guardVars, gateVars
  <2> QED BY <2>1, <2>2, <2>3 DEF IInv
<1> QED BY <1>1, <1>2

(* The types of the guards' and of the gates' variables, for any number of *)
(* guards, gates and workers.                                              *)
THEOREM TypeCorrect == Spec => []TypeOK
PROOF
<1>1. IInv => TypeOK
    BY DEF IInv
<1> QED BY <1>1, InitInv, StepInv, PTL DEF Spec

(* No gate drops a batch unless its guard's token does not verify (fail    *)
(* mode closed) or its license's grace period is over.                     *)
THEOREM DropsAreJustified == Spec => []DropJustified
PROOF
<1>1. IInv => DropJustified
    BY DEF IInv
<1> QED BY <1>1, InitInv, StepInv, PTL DEF Spec

(* No gate lets a batch through whose guard rejects its token, or without  *)
(* having found the guard that is configured.                              *)
THEOREM AdmissionsAreJustified == Spec => []AdmitJustified
PROOF
<1>1. IInv => AdmitJustified
    BY DEF IInv
<1> QED BY <1>1, InitInv, StepInv, PTL DEF Spec

-------------------------------------------------------------------------------
(* How late a verdict can be.  A running guard with a license that verifies *)
(* reads the clock at least every check interval, give or take the work it  *)
(* has not got to (lag): before the ticker exists, while a tick waits in    *)
(* the channel, and between reading the clock and writing the verdict.      *)
Running(g) == ~PassThrough(g) /\ VerifyJWT(g) /\ ~canceled[g]

(* The last moment to see the tick that follows the check at hand. *)
NextLook(g) == checkNow[g] + config[g].checkInterval + MaxLag

Timely(g) ==
    /\ gpc[g] \in {"launched", "select"} => started[g]
    /\ gpc[g] \in {"write", "record", "launched"} => now <= checkNow[g] + lag[g]
    /\ Ticking(g) => now < nextTick[g] /\ nextTick[g] <= now + config[g].checkInterval
    /\ Ticking(g) /\ gpc[g] # "check" /\ ~tick[g] => nextTick[g] <= NextLook(g)
    /\ gpc[g] = "select" /\ tick[g] => now <= NextLook(g) + lag[g]
    /\ valid[g] /\ gpc[g] \in {"record", "launched", "select"} =>
         checkNow[g] < GracePeriodEnd(g)
    /\ valid[g] /\ started[g] /\ gpc[g] \in {"check", "write"} =>
         now < GracePeriodEnd(g) + config[g].checkInterval + MaxLag + lag[g]

TimeOf(g) ==
    /\ gpc[g] = "passThrough" => PassThrough(g)
    /\ gpc[g] = "done" => canceled[g]
    /\ Running(g) => Timely(g)

TimeInv == \A g \in Guards : TimeOf(g)

(* The numbers of a guard with a license that verifies. *)
LEMMA TimeNumbers ==
    ASSUME GuardTypeOK, NEW g \in Guards, Running(g)
    PROVE  /\ now \in Nat /\ checkNow[g] \in Nat /\ lag[g] \in Nat /\ lag[g] <= MaxLag
           /\ nextTick[g] \in Nat /\ MaxLag \in Nat
           /\ config[g].checkInterval \in Nat \ {0} /\ GracePeriodEnd(g) \in Nat
PROOF
<1>1. MaxLag \in Nat /\ Horizon \in Nat
    BY GuardAssumption
<1>2. config[g].checkInterval \in Nat \ {0} /\ GracePeriodEnd(g) \in Nat
    BY ConfigFacts DEF Running
<1>3. now \in 0 .. Horizon /\ checkNow[g] \in 0 .. Horizon /\ lag[g] \in 0 .. MaxLag
      /\ nextTick[g] \in Nat
    BY DEF GuardTypeOK
<1> QED BY <1>1, <1>2, <1>3

(* A guard whose own state does not change stays timely while time does not *)
(* pass.                                                                    *)
LEMMA TimeOfFrame ==
    ASSUME NEW g \in Guards, TimeOf(g), UNCHANGED <<config, now>>,
           gpc'[g] = gpc[g], started'[g] = started[g], canceled'[g] = canceled[g],
           tick'[g] = tick[g], nextTick'[g] = nextTick[g], lag'[g] = lag[g],
           checkNow'[g] = checkNow[g], valid'[g] = valid[g]
    PROVE  TimeOf(g)'
PROOF
  BY ConfigFrame DEF TimeOf, Running, Timely, Ticking, NextLook

(* Time passes for a guard. *)
LEMMA TimeOfTick ==
    ASSUME GuardTypeOK, NEW g \in Guards, TimeOf(g), Tick
    PROVE  TimeOf(g)'
PROOF
<1> DEFINE fires == Ticking(g) /\ nextTick[g] <= now + 1
           I == config[g].checkInterval
<1>1. /\ UNCHANGED config /\ gpc'[g] = gpc[g] /\ started'[g] = started[g]
      /\ canceled'[g] = canceled[g] /\ checkNow'[g] = checkNow[g] /\ valid'[g] = valid[g]
      /\ now' = now + 1
    BY DEF Tick
<1>2. /\ lag'[g] = IF Busy(g) THEN lag[g] + 1 ELSE lag[g]
      /\ tick'[g] <=> tick[g] \/ fires
      /\ nextTick'[g] = IF fires THEN nextTick[g] + I ELSE nextTick[g]
    BY DEF Tick
<1>3. /\ gpc[g] = "passThrough" => PassThrough(g)
      /\ gpc[g] = "done" => canceled[g]
      /\ Running(g) => Timely(g)
    BY DEF TimeOf
<1>4. /\ PassThrough(g)' <=> PassThrough(g)
      /\ Running(g)' <=> Running(g)
      /\ GracePeriodEnd(g)' = GracePeriodEnd(g)
    BY <1>1, ConfigFrame DEF Running
<1>5. ASSUME Running(g) PROVE Timely(g)'
  <2>1. /\ now \in Nat /\ checkNow[g] \in Nat /\ lag[g] \in Nat /\ nextTick[g] \in Nat
        /\ MaxLag \in Nat /\ I \in Nat \ {0} /\ GracePeriodEnd(g) \in Nat
      BY <1>5, TimeNumbers
  <2>2. Timely(g) /\ (Ticking(g)' <=> Ticking(g)) /\ NextLook(g)' = NextLook(g)
      BY <1>1, <1>3, <1>5 DEF Ticking, NextLook
  <2>3. NextLook(g) = checkNow[g] + I + MaxLag
      BY DEF NextLook
  <2>4. /\ gpc[g] \in {"check", "write", "record", "launched"} => Busy(g)
        /\ gpc[g] = "select" /\ tick[g] => Busy(g)
        /\ gpc[g] = "select" /\ started[g] => Ticking(g)
      BY DEF Busy, Ticking
  <2>5. lag'[g] >= lag[g] /\ lag'[g] \in Nat /\ (Busy(g) => lag'[g] = lag[g] + 1)
      BY <1>2, <2>1
  <2> HIDE DEF I
  <2>6. Ticking(g)' => now' < nextTick'[g] /\ nextTick'[g] <= now' + I
      BY <1>1, <1>2, <2>1, <2>2 DEF Timely, I
  <2>7. Ticking(g)' /\ gpc'[g] # "check" /\ ~tick'[g] => nextTick'[g] <= NextLook(g)'
      BY <1>1, <1>2, <2>2 DEF Timely
  <2>8. gpc'[g] = "select" /\ tick'[g] => now' <= NextLook(g)' + lag'[g]
    <3>1. CASE tick[g]
        BY <1>1, <2>1, <2>2, <2>3, <2>4, <2>5, <3>1 DEF Timely
    <3>2. CASE ~tick[g] /\ fires /\ gpc[g] = "select"
      <4>1. nextTick[g] = now + 1 /\ nextTick[g] <= NextLook(g)
          BY <2>1, <2>2, <3>2 DEF Timely
      <4> QED BY <1>1, <2>1, <2>2, <2>3, <2>5, <4>1
    <3> QED BY <1>1, <1>2, <3>1, <3>2
  <2>9. gpc'[g] \in {"write", "record", "launched"} => now' <= checkNow'[g] + lag'[g]
      BY <1>1, <2>1, <2>2, <2>4, <2>5 DEF Timely
  <2>10. valid'[g] /\ started'[g] /\ gpc'[g] \in {"check", "write"} =>
           now' < GracePeriodEnd(g)' + I + MaxLag + lag'[g]
      BY <1>1, <1>4, <2>1, <2>2, <2>4, <2>5 DEF Timely, I
  <2> QED BY <1>1, <1>4, <2>2, <2>6, <2>7, <2>8, <2>9, <2>10 DEF Timely, I
<1> QED BY <1>1, <1>3, <1>4, <1>5 DEF TimeOf

(* A step of the guard itself. *)
LEMMA TimeOfStep ==
    ASSUME GuardTypeOK, NEW g \in Guards, InvOf(g), TimeOf(g),
           Start(g) \/ GuardStep(g) \/ Shutdown(g)
    PROVE  TimeOf(g)'
PROOF
<1> DEFINE I == config[g].checkInterval
<1>1. UNCHANGED <<config, now>>
    BY DEF Start, GuardStep, CheckStep, CheckLicenseReject, CheckLicenseRead,
           CheckLicenseWrite, CheckLicenseRecord, LoopStart, LoopTick, LoopExit, Shutdown
<1>2. /\ PassThrough(g)' <=> PassThrough(g)
      /\ VerifyJWT(g)' <=> VerifyJWT(g)
      /\ GracePeriodEnd(g)' = GracePeriodEnd(g)
    BY <1>1, ConfigFrame
<1>3. /\ gpc[g] = "passThrough" => PassThrough(g)
      /\ gpc[g] = "done" => canceled[g]
      /\ Running(g) => Timely(g)
    BY DEF TimeOf
<1>4. ASSUME Running(g)
      PROVE  /\ now \in Nat /\ checkNow[g] \in Nat /\ lag[g] \in Nat /\ lag[g] <= MaxLag
             /\ nextTick[g] \in Nat /\ MaxLag \in Nat
             /\ I \in Nat \ {0} /\ GracePeriodEnd(g) \in Nat /\ VerifyJWT(g)
             /\ NextLook(g) = checkNow[g] + I + MaxLag /\ ~canceled[g]
    BY <1>4, TimeNumbers DEF Running, NextLook
<1>5. NextLook(g)' = checkNow'[g] + I + MaxLag
    BY <1>1 DEF NextLook
<1> HIDE DEF I
<1>6. ASSUME gpc'[g] \notin {"passThrough", "done"}, Running(g)' => Timely(g)'
      PROVE  TimeOf(g)'
    BY <1>6 DEF TimeOf
<1>7. CASE Start(g)
  <2>1. /\ gpc'[g] = (IF PassThrough(g) THEN "passThrough" ELSE "check")
        /\ started'[g] <=> PassThrough(g)
      BY <1>7 DEF Start, GuardTypeOK
  <2>2. CASE PassThrough(g)
      BY <1>2, <2>1, <2>2 DEF TimeOf, Running
  <2>3. CASE ~PassThrough(g)
    <3>1. Timely(g)'
        BY <2>1, <2>3 DEF Timely, Ticking
    <3> QED BY <1>6, <2>1, <2>3, <3>1
  <2> QED BY <2>2, <2>3
<1>8. CASE CheckLicenseReject(g)
  <2>1. ~VerifyJWT(g) /\ gpc'[g] \in {"select", "launched"}
      BY <1>8 DEF CheckLicenseReject, EndCheck, GuardTypeOK
  <2> QED BY <1>2, <1>6, <2>1 DEF Running
<1>9. CASE CheckLicenseRead(g)
  <2>1. /\ gpc[g] = "check" /\ gpc'[g] = "write" /\ checkNow'[g] = now
        /\ started'[g] = started[g] /\ canceled'[g] = canceled[g] /\ tick'[g] = tick[g]
        /\ nextTick'[g] = nextTick[g] /\ lag'[g] = lag[g] /\ valid'[g] = valid[g]
      BY <1>9 DEF CheckLicenseRead, GuardTypeOK
  <2>2. ASSUME Running(g) PROVE Timely(g)'
    <3>1. Timely(g) /\ (Ticking(g)' <=> Ticking(g))
        BY <1>3, <2>1, <2>2 DEF Ticking
    <3>2. Ticking(g) => now < nextTick[g] /\ nextTick[g] <= now + I
        BY <3>1 DEF Timely, I
    <3>3. Ticking(g)' /\ ~tick'[g] => nextTick'[g] <= NextLook(g)'
        BY <1>4, <1>5, <2>1, <2>2, <3>1, <3>2
    <3>4. now' <= checkNow'[g] + lag'[g]
        BY <1>1, <1>4, <2>1, <2>2
    <3> QED BY <1>1, <1>2, <2>1, <3>1, <3>3, <3>4 DEF Timely
  <2> QED BY <1>2, <1>6, <2>1, <2>2 DEF Running
<1>10. CASE CheckLicenseWrite(g)
  <2>1. /\ gpc[g] = "write" /\ gpc'[g] = "record" /\ checkNow'[g] = checkNow[g]
        /\ started'[g] = started[g] /\ canceled'[g] = canceled[g] /\ tick'[g] = tick[g]
        /\ nextTick'[g] = nextTick[g] /\ lag'[g] = lag[g]
        /\ valid'[g] <=> checkNow[g] < GracePeriodEnd(g)
      BY <1>10 DEF CheckLicenseWrite, GuardTypeOK
  <2>2. ASSUME Running(g) PROVE Timely(g)'
    <3>1. Timely(g) /\ (Ticking(g)' <=> Ticking(g)) /\ NextLook(g)' = NextLook(g)
        BY <1>1, <1>3, <2>1, <2>2 DEF Ticking, NextLook
    <3> QED BY <1>1, <1>2, <2>1, <3>1 DEF Timely
  <2> QED BY <1>2, <1>6, <2>1, <2>2 DEF Running
<1>11. CASE CheckLicenseRecord(g)
  <2>1. /\ gpc[g] = "record" /\ gpc'[g] = (IF started[g] THEN "select" ELSE "launched")
        /\ lag'[g] = (IF started[g] THEN 0 ELSE lag[g]) /\ checkNow'[g] = checkNow[g]
        /\ canceled'[g] = canceled[g] /\ tick'[g] = tick[g] /\ nextTick'[g] = nextTick[g]
        /\ valid'[g] = valid[g] /\ started'[g]
      BY <1>11 DEF CheckLicenseRecord, EndCheck, GuardTypeOK
  <2>2. ASSUME Running(g) PROVE Timely(g)'
    <3>1. /\ now <= checkNow[g] + lag[g] /\ NextLook(g)' = NextLook(g)
          /\ valid[g] => checkNow[g] < GracePeriodEnd(g)
          /\ started[g] => /\ now < nextTick[g] /\ nextTick[g] <= now + I
                           /\ ~tick[g] => nextTick[g] <= NextLook(g)
        BY <1>1, <1>3, <2>1, <2>2 DEF Ticking, NextLook, Timely, I
    <3>2. CASE started[g]
      <4>1. now <= NextLook(g) + 0
          BY <1>4, <2>2, <3>1
      <4> QED BY <1>1, <1>2, <2>1, <3>1, <3>2, <4>1 DEF Timely, Ticking, I
    <3>3. CASE ~started[g]
        BY <1>1, <1>2, <2>1, <3>1, <3>3 DEF Timely, Ticking
    <3> QED BY <3>2, <3>3
  <2> QED BY <1>2, <1>6, <2>1, <2>2 DEF Running
<1>12. CASE LoopStart(g)
  <2>1. /\ gpc[g] = "launched" /\ gpc'[g] = "select" /\ lag'[g] = 0
        /\ nextTick'[g] = now + I /\ checkNow'[g] = checkNow[g] /\ started'[g] = started[g]
        /\ canceled'[g] = canceled[g] /\ tick'[g] = tick[g] /\ valid'[g] = valid[g]
      BY <1>12 DEF LoopStart, GuardTypeOK, I
  <2>2. ASSUME Running(g) PROVE Timely(g)'
    <3>1. /\ now <= checkNow[g] + lag[g] /\ started[g] /\ NextLook(g)' = NextLook(g)
          /\ valid[g] => checkNow[g] < GracePeriodEnd(g)
        BY <1>1, <1>3, <2>1, <2>2 DEF NextLook, Timely
    <3>2. now < now + I /\ now + I <= NextLook(g) /\ now <= NextLook(g) + 0
        BY <1>4, <2>2, <3>1
    <3>3. config' = config /\ now' = now /\ GracePeriodEnd(g)' = GracePeriodEnd(g)
        BY <1>1, <1>2
    <3>4. now' < nextTick'[g] /\ nextTick'[g] <= now' + config'[g].checkInterval
        BY <1>4, <2>1, <2>2, <3>2, <3>3 DEF I
    <3>5. nextTick'[g] <= NextLook(g)' /\ now' <= NextLook(g)' + lag'[g]
        BY <2>1, <3>1, <3>2, <3>3
    <3>6. /\ started'[g] /\ gpc'[g] = "select"
          /\ valid'[g] => checkNow'[g] < GracePeriodEnd(g)'
        BY <2>1, <3>1, <3>3
    <3> QED BY <3>4, <3>5, <3>6 DEF Timely
  <2> QED BY <1>2, <1>6, <2>1, <2>2 DEF Running
<1>13. CASE LoopTick(g)
  <2>1. /\ gpc[g] = "select" /\ tick[g] /\ gpc'[g] = "check" /\ lag'[g] = lag[g]
        /\ nextTick'[g] = nextTick[g] /\ checkNow'[g] = checkNow[g]
        /\ started'[g] = started[g] /\ canceled'[g] = canceled[g] /\ valid'[g] = valid[g]
      BY <1>13 DEF LoopTick, GuardTypeOK
  <2>2. ASSUME Running(g) PROVE Timely(g)'
    <3>1. /\ started[g] /\ now <= NextLook(g) + lag[g]
          /\ now < nextTick[g] /\ nextTick[g] <= now + I
          /\ valid[g] => checkNow[g] < GracePeriodEnd(g)
        BY <1>3, <2>1, <2>2 DEF Timely, Ticking, I
    <3>2. valid[g] => now < GracePeriodEnd(g) + I + MaxLag + lag[g]
        BY <1>4, <2>2, <3>1
    <3> QED BY <1>1, <1>2, <2>1, <3>1, <3>2 DEF Timely, I
  <2> QED BY <1>2, <1>6, <2>1, <2>2 DEF Running
<1>14. CASE LoopExit(g) \/ Shutdown(g)
  <2>1. canceled'[g] /\ gpc'[g] \in {gpc[g], "done"}
      BY <1>14 DEF LoopExit, Shutdown, GuardTypeOK
  <2> QED BY <1>2, <1>3, <2>1 DEF TimeOf, Running
<1> QED BY <1>7, <1>8, <1>9, <1>10, <1>11, <1>12, <1>13, <1>14 DEF GuardStep, CheckStep

(* Every step of a guard and of the clock keeps every guard timely. *)
LEMMA TimeInvStep ==
    ASSUME GuardTypeOK, GuardInv, TimeInv, GuardNext
    PROVE  TimeInv'
PROOF
<1> SUFFICES ASSUME NEW g \in Guards PROVE TimeOf(g)'
    BY DEF TimeInv
<1>1. TimeOf(g) /\ InvOf(g)
    BY DEF TimeInv, GuardInv
<1>2. ASSUME NEW h \in Guards, h # g, Start(h) \/ GuardStep(h) \/ Shutdown(h)
      PROVE  TimeOf(g)'
  <2>1. /\ UNCHANGED <<config, now>>
        /\ gpc'[g] = gpc[g] /\ started'[g] = started[g] /\ canceled'[g] = canceled[g]
        /\ tick'[g] = tick[g] /\ nextTick'[g] = nextTick[g] /\ lag'[g] = lag[g]
        /\ checkNow'[g] = checkNow[g] /\ valid'[g] = valid[g]
      BY <1>2 DEF Start, GuardStep, CheckStep, CheckLicenseReject, CheckLicenseRead,
                  CheckLicenseWrite, CheckLicenseRecord, EndCheck, LoopStart, LoopTick,
                  LoopExit, Shutdown, GuardTypeOK
  <2> QED BY <1>1, <2>1, TimeOfFrame
<1> QED BY <1>1, <1>2, TimeOfTick, TimeOfStep DEF GuardNext

(* Verdicts are timely from the start on. *)
LEMMA TimeInvariant == Spec => []TimeInv
PROOF
<1>1. Init => TimeInv
  <2> SUFFICES ASSUME Init, NEW g \in Guards PROVE TimeOf(g)
      BY DEF TimeInv
  <2>1. gpc[g] = "created"
      BY DEF Init, GuardInit
  <2> QED BY <2>1 DEF TimeOf, Timely, Ticking
<1>2. IInv /\ TimeInv /\ [Next]_vars => TimeInv'
  <2> SUFFICES ASSUME IInv, TimeInv, [Next]_vars PROVE TimeInv'
      OBVIOUS
  <2>1. CASE GuardNext
      BY <2>1, TimeInvStep DEF IInv, TypeOK
  <2>2. CASE UNCHANGED guardVars
    <3> SUFFICES ASSUME NEW g \in Guards PROVE TimeOf(g)'
        BY DEF TimeInv
    <3> QED BY <2>2, TimeOfFrame DEF TimeInv, guardVars
  <2> QED BY <2>1, <2>2, NextSplit DEF vars
<1> QED BY <1>1, <1>2, InitInv, StepInv, PTL DEF Spec

(* A running guard whose license has expired admits data no longer than one *)
(* check interval and two lags after the grace period.                      *)
THEOREM ExpiredIsNoticed == Spec => []NoLateAdmission
PROOF
<1>1. IInv /\ TimeInv => NoLateAdmission
  <2> SUFFICES ASSUME IInv, TimeInv, NEW g \in Guards, started[g], ~canceled[g],
                      ~PassThrough(g), VerifyJWT(g), valid[g]
               PROVE  now < GracePeriodEnd(g) + config[g].checkInterval + 2 * MaxLag
      BY DEF NoLateAdmission
  <2> DEFINE I == config[g].checkInterval
  <2>1. Running(g) /\ Timely(g)
      BY DEF TimeInv, TimeOf, Running
  <2>2. /\ now \in Nat /\ checkNow[g] \in Nat /\ lag[g] \in Nat /\ lag[g] <= MaxLag
        /\ nextTick[g] \in Nat /\ MaxLag \in Nat
        /\ I \in Nat \ {0} /\ GracePeriodEnd(g) \in Nat
      BY <2>1, TimeNumbers DEF IInv, TypeOK
  <2>3. gpc[g] \in {"check", "write", "record", "launched", "select"}
      BY DEF IInv, TypeOK, GuardTypeOK, GuardInv, InvOf, TimeInv, TimeOf
  <2>4. NextLook(g) = checkNow[g] + I + MaxLag
      BY DEF NextLook
  <2> HIDE DEF I
  <2>5. CASE gpc[g] \in {"check", "write"}
    <3>1. now < GracePeriodEnd(g) + I + MaxLag + lag[g]
        BY <2>1, <2>5 DEF Timely, I
    <3> QED BY <2>2, <3>1 DEF I
  <2>6. CASE gpc[g] \in {"record", "launched"}
    <3>1. now <= checkNow[g] + lag[g] /\ checkNow[g] < GracePeriodEnd(g)
        BY <2>1, <2>6 DEF Timely
    <3> QED BY <2>2, <3>1 DEF I
  <2>7. CASE gpc[g] = "select"
    <3>1. /\ checkNow[g] < GracePeriodEnd(g)
          /\ \/ now < nextTick[g] /\ nextTick[g] <= NextLook(g)
             \/ now <= NextLook(g) + lag[g]
        BY <2>1, <2>7 DEF Timely, Ticking
    <3> QED BY <2>2, <2>4, <3>1 DEF I
  <2> QED BY <2>3, <2>5, <2>6, <2>7
<1> QED BY <1>1, TimeInvariant, InitInv, StepInv, PTL DEF Spec

===============================================================================

----------------------------- MODULE LicenseGuard -----------------------------
(***************************************************************************)
(* The license guard extension (src/extension/licenseguardextension): each *)
(* configured instance verifies a signed license token when it starts and  *)
(* again on every tick of a periodic timer, and publishes the verdict in   *)
(* two fields, valid and gracePeriod, that the license gate processors     *)
(* read under a lock.                                                      *)
(*                                                                         *)
(* checkLicense is not atomic: it reads the clock, then takes the lock and *)
(* writes the verdict, then releases it and records the gauge.  Each of    *)
(* these is a step here.  Time is a counter; a time unit is whatever makes *)
(* the configured periods whole numbers.                                   *)
(***************************************************************************)
EXTENDS Integers

CONSTANTS
    Guards,    \* the instances of the extension configured in the collector
    Configs,   \* the configurations an instance may have
    MaxLag,    \* units of time within which a guard finishes work it can do
    Horizon    \* bound: the clock stops here

NoExp == -1    \* a token without an exp claim

NoToken == [signed |-> FALSE, tenant |-> FALSE, exp |-> NoExp]

ASSUME GuardAssumption ==
    /\ MaxLag \in Nat
    /\ Horizon \in Nat
    /\ \A c \in Configs :
         /\ {c.licenseKey, c.licenseKeyEnv} \subseteq
              [signed : BOOLEAN, tenant : BOOLEAN, exp : Nat \cup {NoExp}]
         /\ {c.pemOk, c.failOpen} \subseteq BOOLEAN
         /\ c.gracePeriod \in Nat
         /\ c.checkInterval \in Nat \ {0}

VARIABLES
    now,       \* the wall clock
    config,    \* the configuration of each guard, fixed at creation
    gpc,       \* where each guard's code is
    started,   \* Start has returned
    canceled,  \* Shutdown has canceled the loop's context
    tick,      \* a tick is waiting in the ticker's channel, which holds one
    nextTick,  \* when the ticker next fires
    lag,       \* how long the guard has had work to do without finishing it
    checkNow,  \* the time checkLicense read, before it takes the lock
    valid,     \* the field valid
    grace,     \* the field gracePeriod
    gauge      \* the last value recorded for otel_license_valid

guardVars == <<now, config, gpc, started, canceled, tick, nextTick, lag,
               checkNow, valid, grace, gauge>>

Unrecorded == -1

-------------------------------------------------------------------------------
(* The direct value of the key has precedence over the environment's. *)
LicenseKey(c) ==
    IF c.licenseKey # NoToken THEN c.licenseKey ELSE c.licenseKeyEnv

PassThrough(g) == LicenseKey(config[g]) = NoToken

(* A guard that has a key and no usable public key cannot be created. *)
Creatable(c) == LicenseKey(c) = NoToken \/ c.pemOk

(* What verifyJWT accepts: expired tokens too, the grace period needs them. *)
VerifyJWT(g) ==
    LET t == LicenseKey(config[g]) IN t.signed /\ t.tenant /\ t.exp # NoExp

ExpiresAt(g) == LicenseKey(config[g]).exp

GracePeriodEnd(g) == ExpiresAt(g) + config[g].gracePeriod

(* The state newLicenseGuardExtension leaves, for every guard. *)
GuardInit ==
    /\ now = 0
    /\ config \in [Guards -> {c \in Configs : Creatable(c)}]
    /\ gpc = [g \in Guards |-> "created"]
    /\ started = [g \in Guards |-> FALSE]
    /\ canceled = [g \in Guards |-> FALSE]
    /\ tick = [g \in Guards |-> FALSE]
    /\ nextTick = [g \in Guards |-> 0]
    /\ lag = [g \in Guards |-> 0]
    /\ checkNow = [g \in Guards |-> 0]
    /\ valid = [g \in Guards |-> PassThrough(g)]
    /\ grace = [g \in Guards |-> FALSE]
    /\ gauge = [g \in Guards |-> Unrecorded]

-------------------------------------------------------------------------------
(* Faulty Start: it returns without waiting for the first check. *)
StartEarly(g) ==
    /\ gpc[g] = "created"
    /\ gpc' = [gpc EXCEPT ![g] = IF PassThrough(g) THEN "passThrough" ELSE "check"]
    /\ started' = [started EXCEPT ![g] = TRUE]
    /\ UNCHANGED <<now, config, canceled, tick, nextTick, lag, checkNow, valid,
                   grace, gauge>>

(* Start: nothing to run in pass-through mode; otherwise the first check, *)
(* on the goroutine that called Start.                                    *)
Start(g) ==
    /\ gpc[g] = "created"
    /\ gpc' = [gpc EXCEPT ![g] = IF PassThrough(g) THEN "passThrough" ELSE "check"]
    /\ started' = [started EXCEPT ![g] = PassThrough(g)]
    /\ UNCHANGED <<now, config, canceled, tick, nextTick, lag, checkNow, valid,
                   grace, gauge>>

(* A check ends: the first one lets Start launch the loop and return, the *)
(* others go back to the loop's select.                                   *)
EndCheck(g) ==
    /\ started' = [started EXCEPT ![g] = TRUE]
    /\ gpc' = [gpc EXCEPT ![g] = IF started[g] THEN "select" ELSE "launched"]
    /\ lag' = [lag EXCEPT ![g] = IF started[g] THEN 0 ELSE @]

(* Faulty rejection: the fail mode is ignored. *)
CheckLicenseRejectOpen(g) ==
    /\ gpc[g] = "check"
    /\ ~VerifyJWT(g)
    /\ valid' = [valid EXCEPT ![g] = TRUE]
    /\ grace' = [grace EXCEPT ![g] = FALSE]
    /\ EndCheck(g)
    /\ UNCHANGED <<now, config, canceled, tick, nextTick, checkNow, gauge>>

(* The token does not verify: the verdict is the fail mode's, and the     *)
(* gauge is not recorded.                                                 *)
CheckLicenseReject(g) ==
    /\ gpc[g] = "check"
    /\ ~VerifyJWT(g)
    /\ valid' = [valid EXCEPT ![g] = config[g].failOpen]
    /\ grace' = [grace EXCEPT ![g] = FALSE]
    /\ EndCheck(g)
    /\ UNCHANGED <<now, config, canceled, tick, nextTick, checkNow, gauge>>

(* The token verifies: read the clock, before the lock. *)
CheckLicenseRead(g) ==
    /\ gpc[g] = "check"
    /\ VerifyJWT(g)
    /\ checkNow' = [checkNow EXCEPT ![g] = now]
    /\ gpc' = [gpc EXCEPT ![g] = "write"]
    /\ UNCHANGED <<now, config, started, canceled, tick, nextTick, lag, valid,
                   grace, gauge>>

(* Faulty verdicts: the end of the grace period belongs to it, or is compared *)
(* the wrong way round.                                                       *)
Verdict(g, ok) ==
    /\ gpc[g] = "write"
    /\ valid' = [valid EXCEPT ![g] = ok]
    /\ grace' = [grace EXCEPT ![g] = ok /\ checkNow[g] >= ExpiresAt(g)]
    /\ gpc' = [gpc EXCEPT ![g] = "record"]
    /\ UNCHANGED <<now, config, started, canceled, tick, nextTick, lag,
                   checkNow, gauge>>

CheckLicenseWriteLate(g) == Verdict(g, checkNow[g] <= GracePeriodEnd(g))

(* Under the lock: the verdict on the time that was read. *)
CheckLicenseWrite(g) ==
    /\ gpc[g] = "write"
    /\ valid' = [valid EXCEPT ![g] = checkNow[g] < GracePeriodEnd(g)]
    /\ grace' = [grace EXCEPT ![g] = /\ checkNow[g] >= ExpiresAt(g)
                                     /\ checkNow[g] < GracePeriodEnd(g)]
    /\ gpc' = [gpc EXCEPT ![g] = "record"]
    /\ UNCHANGED <<now, config, started, canceled, tick, nextTick, lag,
                   checkNow, gauge>>

(* After the lock: the gauge takes the field's value. *)
CheckLicenseRecord(g) ==
    /\ gpc[g] = "record"
    /\ gauge' = [gauge EXCEPT ![g] = IF valid[g] THEN 1 ELSE 0]
    /\ EndCheck(g)
    /\ UNCHANGED <<now, config, canceled, tick, nextTick, checkNow, valid, grace>>

(* Faulty ticker: its period is in the wrong unit. *)
LoopStartSlow(g) ==
    /\ gpc[g] = "launched"
    /\ nextTick' = [nextTick EXCEPT ![g] = now + 60 * config[g].checkInterval]
    /\ gpc' = [gpc EXCEPT ![g] = "select"]
    /\ lag' = [lag EXCEPT ![g] = 0]
    /\ UNCHANGED <<now, config, started, canceled, tick, checkNow, valid, grace,
                   gauge>>

(* The loop's goroutine is scheduled and creates the ticker. *)
LoopStart(g) ==
    /\ gpc[g] = "launched"
    /\ nextTick' = [nextTick EXCEPT ![g] = now + config[g].checkInterval]
    /\ gpc' = [gpc EXCEPT ![g] = "select"]
    /\ lag' = [lag EXCEPT ![g] = 0]
    /\ UNCHANGED <<now, config, started, canceled, tick, checkNow, valid, grace,
                   gauge>>

(* The select takes the tick, or the end of the context; when both are *)
(* ready, either.                                                      *)
LoopTick(g) ==
    /\ gpc[g] = "select"
    /\ tick[g]
    /\ tick' = [tick EXCEPT ![g] = FALSE]
    /\ gpc' = [gpc EXCEPT ![g] = "check"]
    /\ UNCHANGED <<now, config, started, canceled, nextTick, lag, checkNow,
                   valid, grace, gauge>>

LoopExit(g) ==
    /\ gpc[g] = "select"
    /\ canceled[g]
    /\ gpc' = [gpc EXCEPT ![g] = "done"]
    /\ tick' = [tick EXCEPT ![g] = FALSE]
    /\ UNCHANGED <<now, config, started, canceled, nextTick, lag, checkNow,
                   valid, grace, gauge>>

(* Shutdown does not wait for the loop; it has nothing to cancel in *)
(* pass-through mode.                                               *)
Shutdown(g) ==
    /\ started[g]
    /\ ~PassThrough(g)
    /\ canceled' = [canceled EXCEPT ![g] = TRUE]
    /\ UNCHANGED <<now, config, gpc, started, tick, nextTick, lag, checkNow,
                   valid, grace, gauge>>

-------------------------------------------------------------------------------
(* A guard has something to do: a step of a check or of Start, or a tick or *)
(* the end of its context to react to.                                      *)
Busy(g) ==
    \/ gpc[g] \in {"check", "write", "record", "launched"}
    \/ gpc[g] = "select" /\ (tick[g] \/ canceled[g])

Ticking(g) == gpc[g] \in {"select", "check", "write", "record"} /\ started[g]

(* Time passes, and the tickers that are due fire: a tick that finds the   *)
(* previous one still in the channel is lost.  The scheduler runs a guard  *)
(* that has work to do, so no guard is kept from it for more than MaxLag.  *)
Tick ==
    /\ now < Horizon
    /\ \A g \in Guards : Busy(g) => lag[g] < MaxLag
    /\ now' = now + 1
    /\ lag' = [g \in Guards |-> IF Busy(g) THEN lag[g] + 1 ELSE lag[g]]
    /\ tick' = [g \in Guards |->
                  tick[g] \/ (Ticking(g) /\ nextTick[g] <= now + 1)]
    /\ nextTick' = [g \in Guards |->
                      IF Ticking(g) /\ nextTick[g] <= now + 1
                      THEN nextTick[g] + config[g].checkInterval
                      ELSE nextTick[g]]
    /\ UNCHANGED <<config, gpc, started, canceled, checkNow, valid, grace, gauge>>

CheckStep(g) ==
    \/ CheckLicenseReject(g)
    \/ CheckLicenseRead(g)
    \/ CheckLicenseWrite(g)
    \/ CheckLicenseRecord(g)

GuardStep(g) == CheckStep(g) \/ LoopStart(g) \/ LoopTick(g) \/ LoopExit(g)

(***************************************************************************)
(* The LicenseChecker interface the processors use.                        *)
(***************************************************************************)
IsValid(g) == PassThrough(g) \/ valid[g]

IsGracePeriod(g) == ~PassThrough(g) /\ grace[g]

-------------------------------------------------------------------------------
GuardTypeOK ==
    /\ now \in 0 .. Horizon
    /\ config \in [Guards -> {c \in Configs : Creatable(c)}]
    /\ gpc \in [Guards -> {"created", "passThrough", "check", "write", "record",
                          "launched", "select", "done"}]
    /\ started \in [Guards -> BOOLEAN]
    /\ canceled \in [Guards -> BOOLEAN]
    /\ tick \in [Guards -> BOOLEAN]
    /\ nextTick \in [Guards -> Nat]
    /\ lag \in [Guards -> 0 .. MaxLag]
    /\ checkNow \in [Guards -> 0 .. Horizon]
    /\ valid \in [Guards -> BOOLEAN]
    /\ grace \in [Guards -> BOOLEAN]
    /\ gauge \in [Guards -> {Unrecorded, 0, 1}]

===============================================================================

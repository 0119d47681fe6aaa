----------------------------- MODULE ModbusClient -----------------------------
(***************************************************************************)
(* The modbus connection of one controller (core/src/io/modbus_client.rs)  *)
(* and the moments at which the PLC switches its relays.  The client spaces*)
(* the writes to one coil by what it remembers of its own responses; what  *)
(* wears a relay is when the PLC carries the writes out.  A clock reading  *)
(* is an age: the time since the event, which is not counted beyond        *)
(* MinDuration, where it no longer matters.                                *)
(***************************************************************************)
EXTENDS Integers

CONSTANTS
  Coil,         \* coil addresses
  MinDuration,  \* MIN_DURATION_BETWEEN_WRITE, in ticks
  Transit,      \* how long a request may still be on its way when its client is gone
  Grace         \* the least time from the end of a server to the next one

ASSUME MinDurationAssumption == MinDuration \in Nat
\* What the code gives: SHUTDOWN_GRACE_MS is 1000 by default (server/src/main.rs),
\* against 15 ms.  It may be set to 0, and a server that panics or is killed does
\* not wait: then it is for its service manager to wait as long.
ASSUME GraceAssumption ==
  Transit \in Nat /\ Grace \in Nat /\ Grace >= Transit + MinDuration

VARIABLES
  coil,         \* the relays
  sinceEffect,  \* age of the last write the PLC carried out
  sinceLast,    \* age of last_coil_update_instant; MinDuration when None
  pc,           \* where write_single_coil stands
  addr, val,    \* its arguments
  delay,        \* what is left of its sleep
  downFor,      \* how long there has been no client
  stray         \* its last request is still on its way

request == <<addr, val>>
vars == <<coil, sinceEffect, sinceLast, pc, request, delay, downFor, stray>>

Init ==
  /\ coil = [a \in Coil |-> FALSE]
  /\ sinceEffect = [a \in Coil |-> MinDuration]
  /\ sinceLast   = [a \in Coil |-> MinDuration]
  /\ pc = "idle" /\ addr \in Coil /\ val = FALSE
  /\ delay = 0 /\ downFor = 0 /\ stray = FALSE

\* Mutant: it sleeps for the time that has passed, not for what is left.
BeginShort(a, v) ==
  /\ pc = "idle"
  /\ addr' = a /\ val' = v
  /\ IF sinceLast[a] < MinDuration
     THEN pc' = "sleep" /\ delay' = sinceLast[a]
     ELSE pc' = "sent"  /\ UNCHANGED delay
  /\ UNCHANGED <<coil, sinceEffect, sinceLast, downFor, stray>>

\* write_single_coil: &mut self admits one call at a time.
Begin(a, v) ==
  /\ pc = "idle"
  /\ addr' = a /\ val' = v
  /\ IF sinceLast[a] < MinDuration
     THEN pc' = "sleep" /\ delay' = MinDuration - sinceLast[a]
     ELSE pc' = "sent"  /\ UNCHANGED delay
  /\ UNCHANGED <<coil, sinceEffect, sinceLast, downFor, stray>>

Wake ==
  /\ pc = "sleep" /\ delay = 0
  /\ pc' = "sent"
  /\ UNCHANGED <<coil, sinceEffect, sinceLast, request, delay, downFor, stray>>

\* The PLC receives the request and carries it out.
Effect ==
  /\ coil' = [coil EXCEPT ![addr] = val]
  /\ sinceEffect' = [sinceEffect EXCEPT ![addr] = 0]
  /\ UNCHANGED <<sinceLast, request, delay, downFor>>

Apply == pc = "sent" /\ Effect /\ pc' = "applied" /\ UNCHANGED stray

\* Mutant: the instant of the first write is kept.
RespondFirstOnly ==
  /\ pc = "applied"
  /\ sinceLast' = IF sinceLast[addr] = MinDuration THEN sinceLast
                  ELSE [sinceLast EXCEPT ![addr] = 0]
  /\ pc' = "idle"
  /\ UNCHANGED <<coil, sinceEffect, request, delay, downFor, stray>>

\* Its response arrives, and the instant is recorded.
Respond ==
  /\ pc = "applied"
  /\ sinceLast' = [sinceLast EXCEPT ![addr] = 0]
  /\ pc' = "idle"
  /\ UNCHANGED <<coil, sinceEffect, request, delay, downFor, stray>>

\* A modbus error, or the end of the server for any other reason: a request may
\* have been carried out (Apply), still be on its way, or be lost.
Fail ==
  /\ pc # "down"
  /\ pc' = "down" /\ delay' = 0 /\ downFor' = 0 /\ stray' = (pc = "sent")
  /\ UNCHANGED <<coil, sinceEffect, sinceLast, request>>

\* It reaches the PLC when there is no client any more.
Land == pc = "down" /\ stray /\ downFor <= Transit /\ Effect /\ stray' = FALSE /\ UNCHANGED pc

\* The next server connects, and remembers no write.
connect ==
  /\ pc = "down" /\ downFor >= Grace
  /\ pc' = "idle" /\ stray' = FALSE
  /\ sinceLast' = [a \in Coil |-> MinDuration]
  /\ UNCHANGED <<coil, sinceEffect, request, delay, downFor>>

Older(n) == IF n < MinDuration THEN n + 1 ELSE n

Tick ==
  /\ sinceEffect' = [a \in Coil |-> Older(sinceEffect[a])]
  /\ sinceLast'   = [a \in Coil |-> Older(sinceLast[a])]
  /\ delay' = IF delay > 0 THEN delay - 1 ELSE delay
  /\ downFor' = IF pc = "down" /\ downFor < Grace THEN downFor + 1 ELSE downFor
  /\ UNCHANGED <<coil, pc, request, stray>>

Next ==
  \/ \E a \in Coil, v \in BOOLEAN: Begin(a, v)
  \/ Wake
  \/ Apply
  \/ Respond
  \/ Fail
  \/ Land
  \/ connect
  \/ Tick

Spec == Init /\ [][Next]_vars

-----------------------------------------------------------------------------
\* Ages and delays stay within the window, one write at a time is under way.
TypeOK ==
  /\ coil \in [Coil -> BOOLEAN]
  /\ sinceEffect \in [Coil -> 0..MinDuration]
  /\ sinceLast \in [Coil -> 0..MinDuration]
  /\ pc \in {"idle", "sleep", "sent", "applied", "down"}
  /\ addr \in Coil /\ val \in BOOLEAN
  /\ delay \in 0..MinDuration
  /\ downFor \in 0..Grace /\ stray \in BOOLEAN

\* What the client remembers of a coil is never older than what the PLC did,
\* except while the response is on its way or there is no client; then the age
\* of the gap, less the transit of a request the client left behind, is enough.
SpacingInv ==
  /\ pc # "down" =>
       \A a \in Coil: (pc = "applied" => a # addr) => sinceEffect[a] >= sinceLast[a]
  /\ pc = "sleep" => sinceLast[addr] + delay >= MinDuration
  /\ pc = "sent"  => sinceLast[addr] = MinDuration
  /\ pc = "down" =>
       \A a \in Coil: sinceEffect[a] >= MinDuration \/ sinceEffect[a] + Transit >= downFor
  /\ stray => pc = "down" /\ sinceEffect[addr] = MinDuration

IInv == TypeOK /\ SpacingInv

\* "Avoid switching relay too fast.  Otherwise it could damage the relay": the
\* PLC switches no relay within MinDuration of its last write, although the
\* client only knows when the responses came, forgets everything when it is
\* restarted, and records nothing of a write that failed, even one that reaches
\* the PLC after the failure.
RelaySpared ==
  [][\A a \in Coil: coil'[a] # coil[a] => sinceEffect[a] = MinDuration]_vars
=============================================================================

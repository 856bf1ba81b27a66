------------------------------ MODULE LiveFeed ------------------------------
(***************************************************************************)
(* The live readings (api/mqtt_bridge.py, api/routers/ws.py): one task     *)
(* that takes messages from the broker and sends each to whoever watches   *)
(* its plant, and one handler per socket that registers and unregisters.   *)
(* The registry's lock is never held across a pause, so that each of its   *)
(* operations is one step; every send is a pause.                          *)
(***************************************************************************)
EXTENDS Naturals, Sequences, FiniteSets, SequencesExt

CONSTANTS
  Sockets, Plants,
  MaxMessages,    \* bound: messages the broker passes on
  BACKOFF_MAX     \* 30 s

FeedAssumption == MaxMessages \in Nat /\ BACKOFF_MAX \in Nat \ {0}

VARIABLES
  watched,    \* the plant each socket asks for
  handler,    \* how far the handler of each socket is
  registry,   \* _by_plant, no key being no socket
  bridge,     \* what run_forever does
  backoff,
  inbox,      \* messages of the client's queue: their plants
  taken,      \* the messages taken, in order (for the properties)
  targets,    \* the sockets the last message is still to be sent to
  received,   \* numbers of the messages each socket got (for the properties)
  since       \* how many were taken before each registered (for the properties)

vars == <<watched, handler, registry, bridge, backoff, inbox, taken, targets, received, since>>

Number == 0..MaxMessages

TypeOK ==
  /\ watched \in [Sockets -> Plants]
  /\ handler \in [Sockets -> {"asking", "accepted", "denied", "open", "left", "ended"}]
  /\ registry \in [Plants -> SUBSET Sockets]
  /\ bridge \in {"connecting", "listening", "waiting", "stopped"}
  /\ backoff \in 1..BACKOFF_MAX
  /\ inbox \in Seq(Plants) /\ taken \in Seq(Plants)
  /\ targets \subseteq Sockets
  /\ received \in [Sockets -> Seq(Number)]
  /\ since \in [Sockets -> Number]

Init ==
  /\ watched \in [Sockets -> Plants]
  /\ handler = [s \in Sockets |-> "asking"]
  /\ registry = [p \in Plants |-> {}]
  /\ bridge = "connecting" /\ backoff = 1
  /\ inbox = <<>> /\ taken = <<>> /\ targets = {}
  /\ received = [s \in Sockets |-> <<>>]
  /\ since = [s \in Sockets |-> 0]

(* ws_readings: without a token for the plant the socket is denied.        *)
Admit(s) ==
  /\ handler[s] = "asking"
  /\ \E to \in {"accepted", "denied"} : handler' = [handler EXCEPT ![s] = to]
  /\ UNCHANGED <<watched, registry, bridge, backoff, inbox, taken, targets, received, since>>

Register(s) ==
  /\ handler[s] = "accepted"
  /\ handler' = [handler EXCEPT ![s] = "open"]
  /\ registry' = [registry EXCEPT ![watched[s]] = @ \cup {s}]
  /\ since' = [since EXCEPT ![s] = Len(taken)]
  /\ UNCHANGED <<watched, bridge, backoff, inbox, taken, targets, received>>

(* The client is gone; the handler has not noticed. *)
Leave(s) ==
  /\ handler[s] = "open"
  /\ handler' = [handler EXCEPT ![s] = "left"]
  /\ UNCHANGED <<watched, registry, bridge, backoff, inbox, taken, targets, received, since>>

(* A plausible bug: the plant's entry goes with the first who leaves.      *)
DropsThePlant(conns, s) == {}

Without(conns, s) == conns \ {s}

Unregister(s) ==
  /\ handler[s] = "left"
  /\ handler' = [handler EXCEPT ![s] = "ended"]
  /\ registry' = [registry EXCEPT ![watched[s]] = Without(@, s)]
  /\ UNCHANGED <<watched, bridge, backoff, inbox, taken, targets, received, since>>

(* run_forever: connected and subscribed, or not. *)
Connect ==
  /\ bridge = "connecting"
  /\ bridge' = "listening" /\ backoff' = 1
  /\ UNCHANGED <<watched, handler, registry, inbox, taken, targets, received, since>>

(* The broker cannot be reached, or goes away: what the client had queued, *)
(* and what it was sending, are gone.                                      *)
Lose ==
  /\ bridge \in {"connecting", "listening"} /\ targets = {}
  /\ bridge' = "waiting" /\ inbox' = <<>>
  /\ UNCHANGED <<watched, handler, registry, backoff, taken, targets, received, since>>

Retry ==
  /\ bridge = "waiting"
  /\ bridge' = "connecting"
  /\ backoff' = IF 2 * backoff > BACKOFF_MAX THEN BACKOFF_MAX ELSE 2 * backoff
  /\ UNCHANGED <<watched, handler, registry, inbox, taken, targets, received, since>>

(* The broker passes on a reading of a plant, if anybody listens. *)
Publish(p) ==
  /\ bridge = "listening" /\ Len(inbox) + Len(taken) < MaxMessages
  /\ inbox' = Append(inbox, p)
  /\ UNCHANGED <<watched, handler, registry, bridge, backoff, taken, targets, received, since>>

(* The next message is for whoever is registered now. *)
Take ==
  /\ bridge = "listening" /\ targets = {} /\ inbox # <<>>
  /\ inbox' = Tail(inbox)
  /\ taken' = Append(taken, Head(inbox))
  /\ targets' = registry[Head(inbox)]
  /\ UNCHANGED <<watched, handler, registry, bridge, backoff, received, since>>

(* One send; to a client that is gone it fails, and that is passed over.   *)
Send(s) ==
  /\ bridge = "listening" /\ s \in targets
  /\ targets' = targets \ {s}
  /\ received' = IF handler[s] = "open"
                 THEN [received EXCEPT ![s] = Append(@, Len(taken))] ELSE received
  /\ UNCHANGED <<watched, handler, registry, bridge, backoff, inbox, taken, since>>

(* The application stops and cancels the task wherever it is. *)
Stop ==
  /\ bridge # "stopped"
  /\ bridge' = "stopped"
  /\ UNCHANGED <<watched, handler, registry, backoff, inbox, taken, targets, received, since>>

Next ==
  \/ Connect \/ Lose \/ Retry \/ Take \/ Stop
  \/ \E p \in Plants : Publish(p)
  \/ \E s \in Sockets : Admit(s) \/ Register(s) \/ Leave(s) \/ Unregister(s) \/ Send(s)

Spec == Init /\ [][Next]_vars

-----------------------------------------------------------------------------

(* The messages a socket should have by now. *)
Due(s) ==
  {n \in 1..Len(taken) : /\ n > since[s] /\ taken[n] = watched[s]
                         /\ (n = Len(taken) => s \notin targets)}

InOrder(numbers) == \A i, j \in DOMAIN numbers : i < j => numbers[i] < numbers[j]

(* Whoever comes, goes or is slow, and however often the broker is lost:   *)
(* a client that stays gets what the bridge took of its plant since it     *)
(* registered, all of it, once and in order, and nothing of another plant; *)
(* and a socket is registered just while its handler runs.                 *)
FeedIsWhole ==
  /\ \A s \in Sockets : handler[s] = "open" =>
       ToSet(received[s]) = Due(s) /\ InOrder(received[s])
  /\ \A p \in Plants :
       registry[p] = {s \in Sockets : watched[s] = p /\ handler[s] \in {"open", "left"}}
==============================================================================

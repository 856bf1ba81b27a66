---------------------------- MODULE LoginLimiter ----------------------------
(***************************************************************************)
(* The two limits on logins (api/ratelimit.py) and the login that keeps    *)
(* them (api/routers/auth.py): attempts per address, failures per email.   *)
(* The check and the record of the attempt run without a pause; the        *)
(* outcome is known only after the database and the password hash, when    *)
(* other attempts have passed the check in between.                        *)
(***************************************************************************)
EXTENDS Naturals, Sequences, FiniteSets, SequencesExt

CONSTANTS
  Sessions,                          \* logins that may be going on at once
  Ips, Emails,
  IP_MAX_ATTEMPTS, IP_WINDOW_S,
  FAIL_MAX_ATTEMPTS, FAIL_WINDOW_S,
  MaxTime                            \* bound: the clock

LimiterAssumption ==
  /\ {IP_MAX_ATTEMPTS, FAIL_MAX_ATTEMPTS} \subseteq Nat \ {0}
  /\ {IP_WINDOW_S, FAIL_WINDOW_S, MaxTime} \subseteq Nat
  /\ IsFiniteSet(Sessions)

VARIABLES
  now,       \* time.monotonic()
  attempts,  \* _ip_attempts, no key being no attempts
  failures,  \* _email_failures
  pruned,    \* _last_prune
  session,   \* the address and email of a login that has passed the check
  passed     \* when logins of each address have passed (for the properties)

vars == <<now, attempts, failures, pruned, session, passed>>

Time == 0..MaxTime
None == [waiting |-> FALSE]

TypeOK ==
  /\ now \in Time /\ pruned \in Time
  /\ attempts \in [Ips -> Seq(Time)]
  /\ failures \in [Emails -> Seq(Time)]
  /\ session \in [Sessions -> {None} \cup [waiting : {TRUE}, ip : Ips, email : Emails]]
  /\ passed \in [Ips -> Seq(Time)]

Init ==
  /\ now = 0 /\ pruned = 0
  /\ attempts = [i \in Ips |-> <<>>]
  /\ failures = [e \in Emails |-> <<>>]
  /\ session = [s \in Sessions |-> None]
  /\ passed = [i \in Ips |-> <<>>]

Tick ==
  /\ now < MaxTime
  /\ now' = now + 1
  /\ UNCHANGED <<attempts, failures, pruned, session, passed>>

From(bucket, kept) ==
  IF kept = {} THEN <<>> ELSE SubSeq(bucket, Min(kept), Len(bucket))

(* A plausible bug: what is exactly as old as the window is dropped, too.  *)
TrimmedAtTheEdge(bucket, window) ==
  From(bucket, {n \in DOMAIN bucket : bucket[n] + window > now})

(* _trim: times are dropped from the front until one is recent.            *)
Trimmed(bucket, window) ==
  From(bucket, {n \in DOMAIN bucket : bucket[n] + window >= now})

Max2(a, b) == IF a > b THEN a ELSE b

(* _prune: now and then, the buckets are dropped whose last entry is too   *)
(* old.                                                                    *)
PruneDue == now - pruned >= 2 * Max2(IP_WINDOW_S, FAIL_WINDOW_S)

Pruned(store, window) ==
  IF PruneDue
  THEN [k \in DOMAIN store |->
          IF store[k] # <<>> /\ Last(store[k]) + window >= now THEN store[k] ELSE <<>>]
  ELSE store

(* check and record_attempt: the buckets are trimmed as they are looked    *)
(* at, that of the email only if the address is not limited.               *)
Attempt(s, ip, email) ==
  LET ips    == Pruned(attempts, IP_WINDOW_S)
      emails == Pruned(failures, FAIL_WINDOW_S)
      recent == Trimmed(ips[ip], IP_WINDOW_S)
      failed == Trimmed(emails[email], FAIL_WINDOW_S)
      limited == Len(recent) >= IP_MAX_ATTEMPTS
      locked  == Len(failed) >= FAIL_MAX_ATTEMPTS
  IN
  /\ session[s] = None
  /\ pruned' = IF PruneDue THEN now ELSE pruned
  /\ attempts' = [ips EXCEPT ![ip] = IF limited \/ locked THEN recent ELSE Append(recent, now)]
  /\ failures' = IF limited THEN emails ELSE [emails EXCEPT ![email] = failed]
  /\ IF limited \/ locked
     THEN UNCHANGED <<session, passed>>
     ELSE /\ session' = [session EXCEPT ![s] = [waiting |-> TRUE, ip |-> ip, email |-> email]]
          /\ passed' = [passed EXCEPT ![ip] = Append(@, now)]
  /\ UNCHANGED now

Ends(s) == session' = [session EXCEPT ![s] = None]

(* Wrong password, no such user, or not an active one. *)
Fail(s) ==
  LET email == session[s].email IN
  /\ session[s].waiting
  /\ failures' = [failures EXCEPT ![email] = Append(Trimmed(@, FAIL_WINDOW_S), now)]
  /\ Ends(s)
  /\ UNCHANGED <<now, attempts, pruned, passed>>

Succeed(s) ==
  /\ session[s].waiting
  /\ failures' = [failures EXCEPT ![session[s].email] = <<>>]
  /\ Ends(s)
  /\ UNCHANGED <<now, attempts, pruned, passed>>

(* The database is down: neither. *)
Break(s) ==
  /\ session[s].waiting
  /\ Ends(s)
  /\ UNCHANGED <<now, attempts, failures, pruned, passed>>

Next ==
  \/ Tick
  \/ \E s \in Sessions :
       \/ \E ip \in Ips, email \in Emails : Attempt(s, ip, email)
       \/ Fail(s) \/ Succeed(s) \/ Break(s)

Spec == Init /\ [][Next]_vars

-----------------------------------------------------------------------------

(* The logins of an address that came through in a window.                 *)
Through(ip, from) == {n \in DOMAIN passed[ip] : passed[ip][n] \in from..from + IP_WINDOW_S}

Waiting(email) == {s \in Sessions : session[s].waiting /\ session[s].email = email}

(* However logins overlap and windows slide, no address gets more logins   *)
(* through in any span of the window than allowed (ratelimit.py:6-8), and  *)
(* the failures of an email, with those that may still come of logins      *)
(* under way, exceed their limit by no more than the logins at once.       *)
AttemptsAreLimited ==
  /\ \A ip \in Ips, from \in Time : Cardinality(Through(ip, from)) <= IP_MAX_ATTEMPTS
  /\ \A email \in Emails :
       Len(Trimmed(failures[email], FAIL_WINDOW_S)) + Cardinality(Waiting(email))
         < FAIL_MAX_ATTEMPTS + Cardinality(Sessions)
==============================================================================

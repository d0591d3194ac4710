---------------------------- MODULE AttackClient ----------------------------
(***************************************************************************)
(* The paced attack clients of src/source/attacker/.  main sleeps, then    *)
(* hands each attacker object to run_attack, which sends one request per   *)
(* interval = 60 / frequency seconds for `duration` seconds: it notes the  *)
(* send time, calls request_http (a GET with a 0.1 s timeout whose reply,  *)
(* timeout or refusal is only printed) and sleeps for what is left of the  *)
(* interval.  attacker_useragent.py runs the same loop once, inline; the  *)
(* script that runs is `main`.  Time is whole ticks of the clock          *)
(* time.time() reads; only the sleeps and the requests advance it.  The   *)
(* header each attacker builds is left out: nothing in the loop depends   *)
(* on it.                                                                  *)
(***************************************************************************)
EXTENDS Naturals, Sequences

CONSTANTS
    Mains,           \* the scripts' mains: [schedule, finalPause]
    Interval,        \* 60.0 / frequency, in ticks
    MaxRequestTime,  \* longest a request_http call takes, in ticks
    MaxSends         \* bound on the requests of one attacker

Main == [schedule : Seq([pause : Nat, duration : Nat]), finalPause : Nat]

(* attacker_fresh_charset_parser.py's main, one tick a second: the fresh, *)
(* charset and parser attackers, 20 s each after a 10 s sleep, then a     *)
(* last 10 s sleep.                                                        *)
FreshCharsetParserMain ==
    [schedule |-> [k \in 1..3 |-> [pause |-> 10, duration |-> 20]],
     finalPause |-> 10]

(* attacker_useragent.py's main: time.sleep(1.0), then the same paced     *)
(* loop for 60 s, inline, and the script ends.                            *)
UserAgentMain ==
    [schedule |-> <<[pause |-> 1, duration |-> 60]>>, finalPause |-> 0]

ASSUME /\ Mains \subseteq Main /\ Mains # {}
       /\ \A m \in Mains : m.schedule # <<>>
       /\ Interval \in Nat \ {0}
       /\ MaxRequestTime \in Nat
       /\ MaxSends \in Nat \ {0}

RECURSIVE TimeOf(_)
(* Latest clock value a run of the attackers of s can reach: each loop     *)
(* ends at most one interval or one request after its duration.           *)
TimeOf(s) ==
    IF s = <<>> THEN 0
    ELSE Head(s).pause + Head(s).duration
         + (IF Interval > MaxRequestTime THEN Interval ELSE MaxRequestTime)
         + TimeOf(Tail(s))

Horizon == LET ends == {TimeOf(m.schedule) + m.finalPause : m \in Mains}
           IN CHOOSE h \in ends : \A e \in ends : e <= h

VARIABLES
    main,      \* the script that runs
    now,       \* time.time()
    phase,     \* the attacker main is at
    pc,        \* where main / run_attack is
    start,     \* run_attack's start_time
    sendTime,  \* run_attack's send_time
    count      \* the attacker's self.count

vars == <<main, now, phase, pc, start, sendTime, count>>

Schedule == main.schedule

TypeOK ==
    /\ main \in Mains
    /\ now \in 0..Horizon
    /\ phase \in 1..Len(Schedule)
    /\ pc \in {"pause", "check", "send", "pace", "final", "done"}
    /\ start \in 0..Horizon /\ sendTime \in 0..Horizon
    /\ count \in 0..MaxSends

Init ==
    /\ main \in Mains
    /\ now = 0
    /\ phase = 1
    /\ pc = "pause"
    /\ start = 0 /\ sendTime = 0
    /\ count = 0

(* main: time.sleep, then a new attacker object (count = 0) is passed to  *)
(* run_attack, which takes start_time.                                     *)
Pause ==
    /\ pc = "pause"
    /\ now' = now + Schedule[phase].pause
    /\ start' = now'
    /\ count' = 0
    /\ pc' = "check"
    /\ UNCHANGED <<main, phase, sendTime>>

(* Mutant: the loop measures its duration from the last send.             *)
CheckSinceSend ==
    /\ pc = "check"
    /\ \/ /\ now - sendTime < Schedule[phase].duration
          /\ pc' = "send"
          /\ UNCHANGED phase
       \/ /\ now - sendTime >= Schedule[phase].duration
          /\ phase < Len(Schedule)
          /\ phase' = phase + 1
          /\ pc' = "pause"
       \/ /\ now - sendTime >= Schedule[phase].duration
          /\ phase = Len(Schedule)
          /\ pc' = "final"
          /\ UNCHANGED phase
    /\ UNCHANGED <<main, now, start, sendTime, count>>

(* run_attack: `while time.time() - start_time < duration`; on leaving    *)
(* the loop main goes on with the next attacker, or its last sleep.       *)
Check ==
    /\ pc = "check"
    /\ \/ /\ now - start < Schedule[phase].duration
          /\ pc' = "send"
          /\ UNCHANGED phase
       \/ /\ now - start >= Schedule[phase].duration
          /\ phase < Len(Schedule)
          /\ phase' = phase + 1
          /\ pc' = "pause"
       \/ /\ now - start >= Schedule[phase].duration
          /\ phase = Len(Schedule)
          /\ pc' = "final"
          /\ UNCHANGED phase
    /\ UNCHANGED <<main, now, start, sendTime, count>>

(* send_time = time.time(); request_http: count += 1 and one GET, which   *)
(* takes up to MaxRequestTime whether it is answered, times out or is      *)
(* refused; every outcome is caught.                                       *)
Send ==
    /\ pc = "send"
    /\ count < MaxSends
    /\ sendTime' = now
    /\ count' = count + 1
    /\ \E d \in 0..MaxRequestTime : now' = now + d
    /\ pc' = "pace"
    /\ UNCHANGED <<main, phase, start>>

(* Mutant: a whole interval is slept after every request.                 *)
PaceFull ==
    /\ pc = "pace"
    /\ now' = now + Interval
    /\ pc' = "check"
    /\ UNCHANGED <<main, phase, start, sendTime, count>>

(* Mutant: the remaining sleep is one tick short.                          *)
PaceShort ==
    /\ pc = "pace"
    /\ now' = IF now - sendTime < Interval - 1 THEN sendTime + Interval - 1
              ELSE now
    /\ pc' = "check"
    /\ UNCHANGED <<main, phase, start, sendTime, count>>

(* `if elapsed < interval: time.sleep(interval - elapsed)`.                *)
Pace ==
    /\ pc = "pace"
    /\ now' = IF now - sendTime < Interval THEN sendTime + Interval ELSE now
    /\ pc' = "check"
    /\ UNCHANGED <<main, phase, start, sendTime, count>>

(* main's last time.sleep; then the script ends.                           *)
Final ==
    /\ pc = "final"
    /\ now' = now + main.finalPause
    /\ pc' = "done"
    /\ UNCHANGED <<main, phase, start, sendTime, count>>

Next == Pause \/ Check \/ Send \/ Pace \/ Final

(* One sequential process; every sleep and request returns.               *)
Spec == Init /\ [][Next]_vars /\ WF_vars(Next)

-----------------------------------------------------------------------------
(* The frequency argument is a ceiling: an attacker never sends more than  *)
(* one request per interval since its start_time, however fast or slow     *)
(* each request_http returns.  This rests on send_time being taken before  *)
(* the request and the sleep making up the rest of the interval.           *)
RateBounded ==
    pc \in {"check", "send", "pace"} =>
        count <= (now - start) \div Interval + 1

(* The script ends: every attacker's loop runs out of its duration and     *)
(* main passes all its sleeps, whatever the requests take.                 *)
AttacksEnd == <>(pc = "done")
=============================================================================

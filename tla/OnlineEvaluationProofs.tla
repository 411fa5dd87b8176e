----------------------- MODULE OnlineEvaluationProofs -----------------------
(***************************************************************************)
(* Theorems about answers, their caches and their online evaluation, for   *)
(* any requests, workers and profiles, any number of attempts, failures    *)
(* and lost leases.                                                        *)
(***************************************************************************)
EXTENDS OnlineEvaluation, SequenceTheorems, TLAPS

-----------------------------------------------------------------------------
(* Types, finer than OTypeOK: the keys of the two caches, and what every   *)
(* function of the state maps to.                                          *)
ProfileNames == UNION {{s.profiles[n] : n \in DOMAIN s.profiles} : s \in Setups}
Keys ==
  {<<>>} \cup {Prompt[u] : u \in Requests}
    \cup {<<p, Prompt[u], n>> : p \in ProfileNames, u \in Requests, n \in Nat}

Points == {"quiet", "first", "second", "store", "answered", "failed", "raised"}
Locals == [pc : Points, key : Keys, response : Nat, usage : SUBSET Nat, made : SUBSET Nat,
           hit : BOOLEAN]
Tasks == [trace : Requests \cup {None}, verdicts : Seq(Outcomes \cup {None})]

Types ==
  /\ setup \in Setups
  /\ calls \in Nat
  /\ metered \in SUBSET (1..calls)
  /\ cache \in [DOMAIN cache -> 1..calls]
  /\ ask \in [Callers -> Locals]
  /\ request \in [Requests -> {"never", "new", "asking", "sampling", "replied", "error"}]
  /\ reply \in [Requests -> Outcomes]
  /\ phase \in [Requests -> {"absent", "waiting", "held", "done", "buried"}]
  /\ tries \in [Requests -> 0..MaxAttempts]
  /\ holder \in [Requests -> Workers \cup {None}]
  /\ task \in [Workers -> Tasks]
  /\ evaluation \in [Requests -> Seq(Outcomes) \cup {None}]
  /\ failures \in 0..MaxFailures
  /\ losses \in 0..MaxLosses

(* A response is held under a key if a hit on that key returns it. *)
Backed(o, k) == o.hit => Cached(k) /\ o.response = cache[k]

(* A caller reports the calls made for it as far as they were metered, and *)
(* only a caller that has been answered has a hit.                         *)
CallerSound(c) ==
  /\ ask[c].usage = ask[c].made \cap metered
  /\ ask[c].made \subseteq 1..calls
  /\ ask[c].response <= calls
  /\ ask[c].pc = "store" => ask[c].response > 0
  /\ Backed(ask[c], ask[c].key)
  /\ ask[c].hit => ask[c].pc = "answered"

(* A request asks for its own prompt, and has a reply before it has a job. *)
RequestSound(u) ==
  /\ request[u] = "asking" => ask[u].pc # "quiet" /\ (ask[u].pc # "raised" => ask[u].key = Prompt[u])
  /\ request[u] # "asking" => ask[u] = Quiet
  /\ phase[u] # "absent" => request[u] = "replied"
  /\ Backed(reply[u], Prompt[u])
  /\ phase[u] = "done" => evaluation[u] # None
  /\ evaluation[u] # None =>
       /\ phase[u] # "absent"
       /\ Len(evaluation[u]) = Len(Profiles)
       /\ \A n \in DOMAIN Profiles : Backed(evaluation[u][n], RowKey(u, n))

(* A handler has asked the profiles in order, asks the next one about its  *)
(* trace, and has left a row once it has asked them all and recorded.      *)
Recorded(w) == Len(task[w].verdicts) > Len(Profiles)
TaskSound(w) ==
  /\ task[w].trace = None => task[w].verdicts = <<>> /\ ask[w].pc = "quiet"
  /\ task[w].trace # None =>
       /\ phase[task[w].trace] # "absent"
       /\ Len(task[w].verdicts) <= Len(Profiles) + 1
       /\ ~Recorded(w) => task[w].verdicts \in Seq(Outcomes)
       /\ ~Recorded(w) => \A n \in DOMAIN task[w].verdicts :
                            Backed(task[w].verdicts[n], RowKey(task[w].trace, n))
       /\ Recorded(w) => evaluation[task[w].trace] # None /\ ask[w].pc = "quiet"
       /\ ask[w].pc \notin {"quiet", "raised"} => ask[w].key = JudgeKey(w)
       /\ ask[w].pc # "quiet" => Len(task[w].verdicts) < Len(Profiles)

(* Where the usage of a call may be: with whoever made it, in a reply, in  *)
(* a verdict on its way, or in a row.  Never in two places.                *)
Places ==
  ({"ask"} \X Callers \X {0}) \cup ({"reply"} \X Requests \X {0})
    \cup ({"verdict"} \X Workers \X Nat) \cup ({"row"} \X Requests \X Nat)

Usage(p) ==
  IF p[1] = "ask" THEN ask[p[2]].usage
  ELSE IF p[1] = "reply" THEN reply[p[2]].usage
  ELSE IF p[1] = "verdict"
  THEN IF ~Recorded(p[2]) /\ p[3] \in DOMAIN task[p[2]].verdicts
       THEN task[p[2]].verdicts[p[3]].usage ELSE {}
  ELSE IF evaluation[p[2]] # None /\ p[3] \in DOMAIN Profiles
       THEN evaluation[p[2]][p[3]].usage ELSE {}

Disjoint == \A p, q \in Places : p # q => Usage(p) \cap Usage(q) = {}
Bounded == \A p \in Places : Usage(p) \subseteq 1..calls

OInv ==
  /\ Types
  /\ \A c \in Callers : CallerSound(c)
  /\ \A u \in Requests : RequestSound(u)
  /\ \A w \in Workers : TaskSound(w)
  /\ Disjoint
  /\ Bounded

-----------------------------------------------------------------------------
LEMMA ProfilesType ==
  ASSUME setup \in Setups
  PROVE  Len(Profiles) \in Nat \ {0} /\ DOMAIN Profiles = 1..Len(Profiles)
BY OnlineAssumption DEF Profiles

LEMMA ProfileName ==
  ASSUME setup \in Setups, NEW n \in DOMAIN Profiles
  PROVE  Profiles[n] \in ProfileNames
BY DEF Profiles, ProfileNames

LEMMA QuietType == Quiet \in Locals /\ Quiet.pc = "quiet" /\ Quiet.hit = FALSE
                   /\ Quiet.usage = {} /\ Quiet.made = {} /\ Quiet.response = 0
BY DEF Quiet, Locals, Points, Keys

LEMMA NoTaskType == NoTask \in Tasks /\ NoTask.trace = None /\ NoTask.verdicts = <<>>
BY EmptySeq DEF NoTask, Tasks

LEMMA JudgeKeyType ==
  ASSUME Types, NEW w \in Workers, Busy(w), Len(task[w].verdicts) < Len(Profiles)
  PROVE  /\ JudgeKey(w) \in Keys
         /\ Next1(w) \in DOMAIN Profiles
         /\ JudgeKey(w) = RowKey(task[w].trace, Next1(w))
<1>1. task[w].trace \in Requests /\ Len(task[w].verdicts) \in Nat
  BY LenProperties DEF Types, Tasks, Busy
<1>2. Next1(w) \in DOMAIN Profiles
  BY <1>1, ProfilesType DEF Types, Next1
<1>3. reply[task[w].trace].response \in Nat
  BY <1>1 DEF Types, Outcomes
<1>4. Profiles[Next1(w)] \in ProfileNames
  BY <1>2, ProfileName DEF Types
<1>5. JudgeKey(w) = RowKey(task[w].trace, Next1(w))
  BY DEF JudgeKey, RowKey
<1>6. RowKey(task[w].trace, Next1(w)) \in Keys
  BY <1>1, <1>3, <1>4 DEF RowKey, Keys
<1> QED
  BY <1>2, <1>5, <1>6

-----------------------------------------------------------------------------
(* Where usages are: what a step may do to them. *)
LEMMA UsagesShrink ==
  ASSUME Disjoint, Bounded, calls \in Nat, calls' \in Nat, calls <= calls',
         \A p \in Places : Usage(p)' \subseteq Usage(p)
  PROVE  Disjoint' /\ Bounded'
BY DEF Disjoint, Bounded

LEMMA UsagesMove ==
  ASSUME Disjoint, Bounded, calls \in Nat, calls' = calls,
         NEW from \in [Places -> Places],
         \A p \in Places : Usage(p)' \subseteq Usage(from[p]),
         \A p, q \in Places : p # q => from[p] # from[q] \/ Usage(p)' = {} \/ Usage(q)' = {}
  PROVE  Disjoint' /\ Bounded'
BY DEF Disjoint, Bounded

LEMMA UsageGrows ==
  ASSUME Disjoint, Bounded, calls \in Nat, calls' = calls + 1, NEW a \in Places,
         Usage(a)' \subseteq Usage(a) \cup {calls'},
         \A p \in Places \ {a} : Usage(p)' = Usage(p)
  PROVE  Disjoint' /\ Bounded'
<1>1. \A p \in Places : calls' \notin Usage(p) /\ Usage(p) \subseteq 1..calls'
  BY DEF Bounded
<1>2. calls' \in 1..calls'
  OBVIOUS
<1> QED
  BY <1>1, <1>2 DEF Disjoint, Bounded

(* The four kinds of place. *)
LEMMA AskPlace ==
  ASSUME NEW c \in Callers
  PROVE  /\ <<"ask", c, 0>> \in Places
         /\ Usage(<<"ask", c, 0>>) = ask[c].usage
         /\ Usage(<<"ask", c, 0>>)' = ask'[c].usage
BY DEF Places, Usage

LEMMA PlaceCases ==
  ASSUME NEW p \in Places
  PROVE  \/ \E c \in Callers : p = <<"ask", c, 0>>
         \/ \E u \in Requests : p = <<"reply", u, 0>>
         \/ \E w \in Workers, n \in Nat : p = <<"verdict", w, n>>
         \/ \E u \in Requests, n \in Nat : p = <<"row", u, n>>
BY DEF Places

(* a step that changes what callers report, and nothing else *)
LEMMA UsageOfOthers ==
  ASSUME UNCHANGED <<setup, reply, task, evaluation>>, NEW c \in Callers,
         \A d \in Callers \ {c} : ask'[d] = ask[d]
  PROVE  \A p \in Places \ {<<"ask", c, 0>>} : Usage(p)' = Usage(p)
<1> SUFFICES ASSUME NEW p \in Places \ {<<"ask", c, 0>>} PROVE Usage(p)' = Usage(p)
  OBVIOUS
<1>1. CASE \E d \in Callers : p = <<"ask", d, 0>>
  BY <1>1 DEF Usage
<1>2. CASE p[1] # "ask"
  BY <1>2 DEF Usage, Recorded, Profiles
<1> QED
  BY <1>1, <1>2, PlaceCases

-----------------------------------------------------------------------------
(* What is cached stays cached, and calls are numbered upwards. *)
CacheGrows ==
  /\ \A k \in DOMAIN cache : k \in DOMAIN cache' /\ cache'[k] = cache[k]
  /\ calls' \in Nat /\ calls <= calls'
  /\ metered' \in SUBSET (1..calls')
  /\ metered' \cap (1..calls) = metered

LEMMA CacheStays ==
  ASSUME Types, UNCHANGED <<cache, calls, metered>>
  PROVE  CacheGrows
BY DEF Types, CacheGrows

LEMMA CallerStays ==
  ASSUME OInv, CacheGrows, NEW c \in Callers, ask'[c] = ask[c]
  PROVE  CallerSound(c)'
<1>1. CallerSound(c) /\ ask[c] \in Locals /\ calls \in Nat
  BY DEF OInv, Types
<1>2. ask[c].made \cap metered' = ask[c].made \cap metered
  BY <1>1 DEF CacheGrows, CallerSound
<1>3. ask[c].made \subseteq 1..calls' /\ ask[c].response <= calls'
  BY <1>1 DEF CacheGrows, CallerSound, Locals
<1> QED
  BY <1>1, <1>2, <1>3 DEF CallerSound, Backed, Cached, CacheGrows

LEMMA RequestStays ==
  ASSUME OInv, CacheGrows, setup' = setup, NEW u \in Requests,
         UNCHANGED <<request[u], ask[u], reply[u], evaluation[u]>>,
         phase[u] = "absent" <=> phase'[u] = "absent",
         phase'[u] = "done" => phase[u] = "done" \/ evaluation[u] # None
  PROVE  RequestSound(u)'
<1>1. RequestSound(u)
  BY DEF OInv
<1>2. Profiles' = Profiles /\ \A n : RowKey(u, n)' = RowKey(u, n)
  BY DEF Profiles, RowKey
<1>3. Backed(reply[u], Prompt[u])'
  BY <1>1 DEF RequestSound, Backed, Cached, CacheGrows
<1>4. evaluation[u] # None => \A n \in DOMAIN Profiles : Backed(evaluation[u][n], RowKey(u, n))'
  <2> SUFFICES ASSUME evaluation[u] # None, NEW n \in DOMAIN Profiles
               PROVE  Backed(evaluation[u][n], RowKey(u, n))'
    OBVIOUS
  <2>1. Backed(evaluation[u][n], RowKey(u, n))
    BY <1>1 DEF RequestSound
  <2>2. RowKey(u, n)' = RowKey(u, n)
    BY <1>2
  <2> QED
    BY <2>1, <2>2 DEF Backed, Cached, CacheGrows
<1> QED
  BY <1>1, <1>2, <1>3, <1>4 DEF RequestSound

LEMMA TaskStays ==
  ASSUME OInv, CacheGrows, setup' = setup, NEW w \in Workers,
         UNCHANGED <<task[w], ask[w]>>,
         \A u \in Requests : phase[u] # "absent" =>
           /\ phase'[u] # "absent" /\ reply'[u] = reply[u]
           /\ evaluation[u] # None => evaluation'[u] # None
  PROVE  TaskSound(w)'
<1>1. TaskSound(w)
  BY DEF OInv
<1>2. Profiles' = Profiles /\ Recorded(w)' = Recorded(w)
  BY DEF Profiles, Recorded
<1>3. CASE task[w].trace = None
  BY <1>1, <1>3 DEF TaskSound
<1>4. CASE task[w].trace # None
  <2> DEFINE u == task[w].trace
  <2>1. u \in Requests /\ phase[u] # "absent"
    BY <1>1, <1>4 DEF TaskSound, OInv, Types, Tasks
  <2>2. phase'[u] # "absent" /\ reply'[u] = reply[u] /\ (evaluation[u] # None => evaluation'[u] # None)
    BY <2>1
  <2>3. \A n : RowKey(u, n)' = RowKey(u, n)
    BY <1>2, <2>2 DEF RowKey
  <2>4. JudgeKey(w)' = JudgeKey(w)
    BY <1>2, <2>2 DEF JudgeKey, Next1
  <2>5. ~Recorded(w) => \A n \in DOMAIN task[w].verdicts :
                            Backed(task[w].verdicts[n], RowKey(u, n))'
    <3> SUFFICES ASSUME ~Recorded(w), NEW n \in DOMAIN task[w].verdicts
                 PROVE  Backed(task[w].verdicts[n], RowKey(u, n))'
      OBVIOUS
    <3>1. Backed(task[w].verdicts[n], RowKey(u, n))
      BY <1>1, <1>4 DEF TaskSound
    <3>2. RowKey(u, n)' = RowKey(u, n)
      BY <2>3
    <3> QED
      BY <3>1, <3>2 DEF Backed, Cached, CacheGrows
  <2> QED
    BY <1>1, <1>2, <1>4, <2>2, <2>4, <2>5 DEF TaskSound
<1> QED
  BY <1>3, <1>4

-----------------------------------------------------------------------------
(* CachingGenerator and CachingJudge at work. *)
LEMMA AskStep ==
  ASSUME OInv, CacheGrows, Types', NEW c \in Callers, CallerSound(c)',
         UNCHANGED <<setup, request, reply, phase, task, evaluation>>,
         \A d \in Callers \ {c} : ask'[d] = ask[d],
         ask[c].pc \notin {"quiet", "raised"}, ask'[c].pc # "quiet",
         ask'[c].pc # "raised" => ask'[c].key = ask[c].key,
         Disjoint', Bounded'
  PROVE  OInv'
<1>1. \A d \in Callers : CallerSound(d)'
  BY CallerStays
<1>2. ASSUME NEW u \in Requests PROVE RequestSound(u)'
  <2>1. CASE u # c
    <3>1. ask'[u] = ask[u]
      BY <2>1, OnlineAssumption
    <3> QED
      BY <3>1, RequestStays
  <2>2. CASE u = c
    <3>1. RequestSound(u) /\ request[u] = "asking"
      BY <2>2, QuietType DEF OInv, RequestSound
    <3>2. phase[u] = "absent"
      BY <3>1 DEF RequestSound
    <3>3. evaluation[u] = None
      BY <3>1, <3>2 DEF RequestSound
    <3>4. Backed(reply[u], Prompt[u])'
      BY <3>1 DEF RequestSound, Backed, Cached, CacheGrows
    <3> QED
      BY <2>2, <3>1, <3>2, <3>3, <3>4 DEF RequestSound
  <2> QED
    BY <2>1, <2>2
<1>3. ASSUME NEW w \in Workers PROVE TaskSound(w)'
  <2>1. CASE w # c
    <3>1. ask'[w] = ask[w]
      BY <2>1, OnlineAssumption
    <3> QED
      BY <3>1, TaskStays
  <2>2. CASE w = c
    <3>1. TaskSound(w) /\ task[w].trace # None /\ ~Recorded(w)
          /\ Len(task[w].verdicts) < Len(Profiles) /\ ask[w].key = JudgeKey(w)
      BY <2>2 DEF OInv, TaskSound
    <3>2. Profiles' = Profiles /\ Recorded(w)' = Recorded(w) /\ JudgeKey(w)' = JudgeKey(w)
          /\ \A n : RowKey(task[w].trace, n)' = RowKey(task[w].trace, n)
      BY DEF Profiles, Recorded, JudgeKey, Next1, RowKey
    <3>3. \A n \in DOMAIN task[w].verdicts :
             Backed(task[w].verdicts[n], RowKey(task[w].trace, n))'
      <4> SUFFICES ASSUME NEW n \in DOMAIN task[w].verdicts
                   PROVE  Backed(task[w].verdicts[n], RowKey(task[w].trace, n))'
        OBVIOUS
      <4>1. Backed(task[w].verdicts[n], RowKey(task[w].trace, n))
        BY <3>1 DEF TaskSound
      <4>2. RowKey(task[w].trace, n)' = RowKey(task[w].trace, n)
        BY <3>2
      <4> QED
        BY <4>1, <4>2 DEF Backed, Cached, CacheGrows
    <3> QED
      BY <2>2, <3>1, <3>2, <3>3 DEF TaskSound
  <2> QED
    BY <2>1, <2>2
<1> QED
  BY <1>1, <1>2, <1>3 DEF OInv

LEMMA CallsKeeps ==
  ASSUME OInv, NEW c \in Callers, NEW r \in Responses, Calls(c, r), failures' \in 0..MaxFailures,
         UNCHANGED <<setup, request, reply, jobVars, task, evaluation, losses>>
  PROVE  OInv'
<1> DEFINE n == calls + 1
<1>1. ask[c].pc \in {"first", "second"} /\ calls' = n /\ cache' = cache
      /\ metered' = IF Metered(r) THEN metered \cup {n} ELSE metered
  BY DEF Calls
<1>2. Types /\ CallerSound(c) /\ ask[c] \in Locals /\ calls \in Nat /\ n \in Nat
  BY DEF OInv, Types
<1>3. PICK m \in Locals :
        /\ ask' = [ask EXCEPT ![c] = m]
        /\ m.pc \in {"store", "second", "failed"} /\ m.key = ask[c].key /\ m.hit = ask[c].hit
        /\ m.response = IF m.pc = "store" THEN n ELSE 0
        /\ m.made = ask[c].made \cup {n}
        /\ m.usage = ask[c].usage \cup (IF Metered(r) THEN {n} ELSE {})
  <2> DEFINE p == IF r = "parsed" THEN "store"
                  ELSE IF SchemaError(r) /\ ask[c].pc = "first" THEN "second" ELSE "failed"
             a == IF r = "parsed" THEN n ELSE 0
             U == ask[c].usage \cup (IF Metered(r) THEN {n} ELSE {})
             m == [ask[c] EXCEPT !.pc = p, !.response = a, !.usage = U, !.made = @ \cup {n}]
  <2>1. ask' = [ask EXCEPT ![c] = m]
    BY <1>1 DEF Calls, CombinedUsage
  <2>2. p \in {"store", "second", "failed"} /\ (a = IF p = "store" THEN n ELSE 0) /\ a \in Nat
        /\ U \in SUBSET Nat /\ ask[c].made \cup {n} \in SUBSET Nat
    BY <1>2 DEF Locals
  <2> HIDE DEF p, a, U
  <2>3. m \in Locals
    BY <1>2, <2>2 DEF Locals, Points
  <2>4. m.pc = p /\ m.key = ask[c].key /\ m.hit = ask[c].hit /\ m.response = a
        /\ m.made = ask[c].made \cup {n} /\ m.usage = U
    BY <1>2 DEF Locals
  <2> QED
    BY <2>1, <2>2, <2>3, <2>4 DEF U
<1>4. ask'[c] = m /\ \A d \in Callers \ {c} : ask'[d] = ask[d]
  BY <1>2, <1>3 DEF Types
<1>5. CacheGrows
  BY <1>1, <1>2 DEF Types, CacheGrows
<1>6. Types'
  <2>1. cache' \in [DOMAIN cache' -> 1..calls']
    <3>1. 1..calls \subseteq 1..calls'
      BY <1>1, <1>2
    <3> QED
      BY <1>1, <1>2, <3>1 DEF Types
  <2>2. metered' \in SUBSET (1..calls')
    BY <1>5 DEF CacheGrows
  <2>3. ask' \in [Callers -> Locals]
    BY <1>2, <1>3 DEF Types
  <2> QED
    BY <1>1, <1>2, <2>1, <2>2, <2>3 DEF Types, jobVars
<1>7. CallerSound(c)'
  <2>1. n \notin ask[c].made /\ n \notin metered
    BY <1>2 DEF CallerSound, Types
  <2>2. m.usage = m.made \cap metered'
    BY <1>1, <1>2, <1>3, <2>1 DEF CallerSound
  <2>3. m.made \subseteq 1..calls' /\ m.response <= calls' /\ (m.pc = "store" => m.response > 0)
    BY <1>1, <1>2, <1>3 DEF CallerSound
  <2>4. m.hit = FALSE
    BY <1>1, <1>2, <1>3 DEF CallerSound, Locals
  <2> QED
    BY <1>4, <2>2, <2>3, <2>4 DEF CallerSound, Backed
<1>8. Disjoint' /\ Bounded'
  <2>1. \A p \in Places \ {<<"ask", c, 0>>} : Usage(p)' = Usage(p)
    BY <1>4, UsageOfOthers
  <2>2. Usage(<<"ask", c, 0>>)' \subseteq Usage(<<"ask", c, 0>>) \cup {calls'}
    BY <1>1, <1>3, <1>4, AskPlace
  <2> QED
    BY <1>1, <1>2, <2>1, <2>2, AskPlace, UsageGrows DEF OInv
<1> QED
  BY <1>1, <1>3, <1>4, <1>5, <1>6, <1>7, <1>8, AskStep DEF jobVars

LEMMA StoresKeeps ==
  ASSUME OInv, NEW c \in Callers, Stores(c), failures' \in 0..MaxFailures,
         UNCHANGED <<setup, request, reply, jobVars, task, evaluation, losses>>
  PROVE  OInv'
<1> DEFINE key == ask[c].key
<1>1. ask[c].pc = "store" /\ UNCHANGED <<calls, metered>>
      /\ ask' = [ask EXCEPT ![c].pc = "answered"]
      /\ cache' = [k \in DOMAIN cache \cup {key} |->
                     IF k = key THEN Kept(k, ask[c].response) ELSE cache[k]]
  BY DEF Stores
<1>2. Types /\ CallerSound(c) /\ ask[c] \in Locals /\ calls \in Nat
  BY DEF OInv, Types
<1>3. PICK m \in Locals :
        /\ ask' = [ask EXCEPT ![c] = m]
        /\ m.pc = "answered" /\ m.key = key /\ m.hit = ask[c].hit
        /\ m.response = ask[c].response /\ m.made = ask[c].made /\ m.usage = ask[c].usage
  <2> DEFINE m == [ask[c] EXCEPT !.pc = "answered"]
  <2>1. ask' = [ask EXCEPT ![c] = m]
    BY <1>1
  <2>2. m \in Locals
    BY <1>2 DEF Locals, Points
  <2>3. m.pc = "answered" /\ m.key = key /\ m.hit = ask[c].hit
        /\ m.response = ask[c].response /\ m.made = ask[c].made /\ m.usage = ask[c].usage
    BY <1>2 DEF Locals
  <2> QED
    BY <2>1, <2>2, <2>3
<1>4. ask'[c] = m /\ \A d \in Callers \ {c} : ask'[d] = ask[d]
  BY <1>2, <1>3 DEF Types
<1>5. \A k \in DOMAIN cache : k \in DOMAIN cache' /\ cache'[k] = cache[k]
  BY <1>1 DEF Kept, Cached
<1>6. CacheGrows
  BY <1>1, <1>2, <1>5 DEF Types, CacheGrows
<1>7. Types'
  <2>1. ask[c].response \in 1..calls
    BY <1>1, <1>2 DEF CallerSound, Locals
  <2>2. \A k \in DOMAIN cache' : cache'[k] \in 1..calls
    BY <1>1, <1>2, <2>1 DEF Types, Kept, Cached
  <2>3. cache' \in [DOMAIN cache' -> 1..calls']
    BY <1>1, <2>2
  <2>4. ask' \in [Callers -> Locals]
    BY <1>2, <1>3 DEF Types
  <2> QED
    BY <1>1, <1>2, <2>3, <2>4 DEF Types, jobVars
<1>8. CallerSound(c)'
  <2>1. ask'[c].hit = FALSE
    BY <1>1, <1>2, <1>3, <1>4 DEF CallerSound, Locals
  <2> QED
    BY <1>1, <1>2, <1>3, <1>4, <2>1 DEF CallerSound, Backed
<1>9. Disjoint' /\ Bounded'
  <2>1. \A p \in Places \ {<<"ask", c, 0>>} : Usage(p)' = Usage(p)
    BY <1>4, UsageOfOthers
  <2>2. Usage(<<"ask", c, 0>>)' \subseteq Usage(<<"ask", c, 0>>)
    BY <1>3, <1>4, AskPlace
  <2> QED
    BY <1>1, <1>2, <2>1, <2>2, UsagesShrink DEF OInv
<1> QED
  BY <1>1, <1>3, <1>4, <1>6, <1>7, <1>8, <1>9, AskStep DEF jobVars

LEMMA StoreFailsKeeps ==
  ASSUME OInv, NEW c \in Callers, StoreFails(c), failures' \in 0..MaxFailures,
         UNCHANGED <<setup, request, reply, jobVars, task, evaluation, losses>>
  PROVE  OInv'
<1> DEFINE m == [Quiet EXCEPT !.pc = "raised"]
<1>1. ask[c].pc \in {"first", "second", "store"} /\ UNCHANGED <<cache, calls, metered>>
      /\ ask' = [ask EXCEPT ![c] = m]
  BY DEF StoreFails, Breaks
<1>2. Types /\ CallerSound(c) /\ calls \in Nat
  BY DEF OInv, Types
<1>3. m \in Locals /\ m.pc = "raised" /\ m.hit = FALSE /\ m.usage = {} /\ m.made = {}
      /\ m.response = 0
  BY QuietType DEF Locals, Points
<1> HIDE DEF m
<1>4. ask'[c] = m /\ \A d \in Callers \ {c} : ask'[d] = ask[d]
  BY <1>1, <1>2, <1>3 DEF Types
<1>5. CacheGrows
  BY <1>1, <1>2, CacheStays
<1>6. Types'
  <2>1. ask' \in [Callers -> Locals]
    BY <1>1, <1>2, <1>3 DEF Types
  <2> QED
    BY <1>1, <1>2, <2>1 DEF Types, jobVars
<1>7. CallerSound(c)'
  BY <1>1, <1>2, <1>3, <1>4 DEF CallerSound, Backed
<1>8. Disjoint' /\ Bounded'
  <2>1. \A p \in Places \ {<<"ask", c, 0>>} : Usage(p)' = Usage(p)
    BY <1>4, UsageOfOthers
  <2>2. Usage(<<"ask", c, 0>>)' \subseteq Usage(<<"ask", c, 0>>)
    BY <1>3, <1>4, AskPlace
  <2> QED
    BY <1>1, <1>2, <2>1, <2>2, UsagesShrink DEF OInv
<1> QED
  BY <1>1, <1>3, <1>4, <1>5, <1>6, <1>7, <1>8, AskStep DEF jobVars

LEMMA ServesKeeps ==
  ASSUME OInv, NEW c \in Callers, Serves(c), setup' = setup
  PROVE  OInv'
<1>1. UNCHANGED <<setup, request, reply, jobVars, task, evaluation, losses>>
  BY DEF Serves
<1>2. failures' \in 0..MaxFailures
  BY OnlineAssumption DEF Serves, Failing, OInv, Types
<1>3. Stores(c) \/ StoreFails(c) \/ \E r \in Responses : Calls(c, r)
  BY DEF Serves, Responses
<1> QED
  BY <1>1, <1>2, <1>3, StoresKeeps, StoreFailsKeeps, CallsKeeps

-----------------------------------------------------------------------------
(* A step of one request, and a step of one worker: what is to be shown.   *)
LEMMA RequestStep ==
  ASSUME OInv, CacheGrows, Types', NEW u \in Requests,
         UNCHANGED <<setup, task, evaluation>>,
         \A d \in Callers \ {u} : ask'[d] = ask[d],
         \A v \in Requests \ {u} : UNCHANGED <<request[v], reply[v], phase[v]>>,
         phase[u] # "absent" => phase'[u] # "absent" /\ reply'[u] = reply[u],
         CallerSound(u)', RequestSound(u)', Disjoint', Bounded'
  PROVE  OInv'
<1>1. u \in Callers /\ \A w \in Workers : w # u /\ w \in Callers
  BY OnlineAssumption
<1>2. \A c \in Callers : CallerSound(c)'
  BY <1>1, CallerStays
<1>3. ASSUME NEW v \in Requests PROVE RequestSound(v)'
  <2>1. CASE v # u
    <3>1. v \in Callers
      BY OnlineAssumption
    <3>2. ask'[v] = ask[v] /\ UNCHANGED <<request[v], reply[v], phase[v], evaluation[v]>>
      BY <2>1, <3>1
    <3> QED
      BY <3>2, RequestStays
  <2> QED
    BY <2>1
<1>4. ASSUME NEW w \in Workers PROVE TaskSound(w)'
  <2>1. UNCHANGED <<task[w], ask[w]>>
    BY <1>1
  <2>2. \A v \in Requests : phase[v] # "absent" =>
           /\ phase'[v] # "absent" /\ reply'[v] = reply[v]
           /\ evaluation[v] # None => evaluation'[v] # None
    OBVIOUS
  <2> QED
    BY <2>1, <2>2, TaskStays
<1> QED
  BY <1>2, <1>3, <1>4 DEF OInv

(* what a worker may do to the trace of a request *)
Steady(u) ==
  /\ phase[u] = "absent" <=> phase'[u] = "absent"
  /\ phase'[u] = "done" => phase[u] = "done" \/ evaluation[u] # None
  /\ evaluation[u] # None => evaluation'[u] = evaluation[u]
  /\ evaluation'[u] # evaluation[u] => RequestSound(u)'

LEMMA WorkerStep ==
  ASSUME OInv, CacheGrows, Types', NEW w \in Workers,
         UNCHANGED <<setup, request, reply>>,
         \A d \in Callers \ {w} : ask'[d] = ask[d],
         \A v \in Workers \ {w} : task'[v] = task[v],
         \A u \in Requests : Steady(u),
         CallerSound(w)', TaskSound(w)', Disjoint', Bounded'
  PROVE  OInv'
<1>1. w \in Callers /\ \A u \in Requests : u # w /\ u \in Callers
  BY OnlineAssumption
<1>2. \A c \in Callers : CallerSound(c)'
  BY <1>1, CallerStays
<1>3. ASSUME NEW u \in Requests PROVE RequestSound(u)'
  <2>1. CASE evaluation'[u] = evaluation[u]
    <3>1. ask'[u] = ask[u] /\ UNCHANGED <<request[u], reply[u], evaluation[u]>>
      BY <1>1, <2>1
    <3>2. Steady(u)
      OBVIOUS
    <3> QED
      BY <3>1, <3>2, RequestStays DEF Steady
  <2> QED
    BY <2>1 DEF Steady
<1>4. ASSUME NEW v \in Workers PROVE TaskSound(v)'
  <2>1. CASE v # w
    <3>1. v \in Callers
      BY OnlineAssumption
    <3>2. UNCHANGED <<task[v], ask[v]>>
      BY <2>1, <3>1
    <3>3. \A u \in Requests : phase[u] # "absent" =>
             /\ phase'[u] # "absent" /\ reply'[u] = reply[u]
             /\ evaluation[u] # None => evaluation'[u] # None
      BY DEF Steady
    <3> QED
      BY <3>2, <3>3, TaskStays
  <2> QED
    BY <2>1
<1> QED
  BY <1>2, <1>3, <1>4 DEF OInv

(* A caller that has just asked, and one that has forgotten. *)
LEMMA AskAsks ==
  ASSUME OInv, NEW c \in Callers, NEW k \in Keys, Asks(c, k)
  PROVE  /\ CacheGrows /\ UNCHANGED <<cache, calls, metered>>
         /\ ask' \in [Callers -> Locals]
         /\ \A d \in Callers \ {c} : ask'[d] = ask[d]
         /\ ask'[c].pc \in {"answered", "first"} /\ ask'[c].key = k /\ ask'[c].usage = {}
         /\ CallerSound(c)'
<1>1. Types /\ calls \in Nat /\ UNCHANGED <<cache, calls, metered>>
  BY DEF OInv, Types, Asks
<1>2. CacheGrows
  BY <1>1, CacheStays
<1>3. PICK m \in Locals :
        /\ ask' = [ask EXCEPT ![c] = m]
        /\ m.pc \in {"answered", "first"} /\ m.key = k /\ m.usage = {} /\ m.made = {}
        /\ m.response <= calls /\ m.pc # "store"
        /\ m.hit => Cached(k) /\ m.response = cache[k] /\ m.pc = "answered"
  <2>1. CASE Cached(k)
    <3> DEFINE m == [Quiet EXCEPT !.pc = "answered", !.key = k, !.response = cache[k], !.hit = TRUE]
    <3>1. cache[k] \in Nat /\ cache[k] <= calls /\ TRUE \in BOOLEAN /\ "answered" \in Points
      BY <1>1, <2>1 DEF Types, Cached, Points
    <3>2. m \in Locals
      BY <3>1, QuietType DEF Locals
    <3>3. m.pc = "answered" /\ m.key = k /\ m.usage = {} /\ m.made = {} /\ m.response = cache[k]
      BY QuietType DEF Locals
    <3>4. ask' = [ask EXCEPT ![c] = m]
      BY <2>1 DEF Asks
    <3> HIDE DEF m
    <3> QED
      BY <1>1, <2>1, <3>1, <3>2, <3>3, <3>4
  <2>2. CASE ~Cached(k)
    <3> DEFINE m == [Quiet EXCEPT !.pc = "first", !.key = k]
    <3>1. m \in Locals
      BY QuietType DEF Locals, Points
    <3>2. m.pc = "first" /\ m.key = k /\ m.usage = {} /\ m.made = {} /\ m.response = 0
          /\ m.hit = FALSE
      BY QuietType DEF Locals
    <3>3. ask' = [ask EXCEPT ![c] = m]
      BY <2>2 DEF Asks
    <3>4. ~m.hit /\ m.response <= calls /\ m.pc # "store" /\ m.pc \in {"answered", "first"}
      BY <1>1, <3>2
    <3> HIDE DEF m
    <3> QED
      BY <3>1, <3>2, <3>3, <3>4, Zenon
  <2> QED
    BY <2>1, <2>2
<1>4. ask'[c] = m /\ (\A d \in Callers \ {c} : ask'[d] = ask[d]) /\ ask' \in [Callers -> Locals]
  BY <1>1, <1>3 DEF Types
<1>5. CallerSound(c)'
  BY <1>1, <1>3, <1>4 DEF CallerSound, Backed, Cached
<1> QED
  BY <1>1, <1>2, <1>3, <1>4, <1>5

LEMMA AskBreaks ==
  ASSUME OInv, NEW c \in Callers, Breaks(c)
  PROVE  /\ CacheGrows /\ UNCHANGED <<cache, calls, metered>>
         /\ ask' \in [Callers -> Locals]
         /\ \A d \in Callers \ {c} : ask'[d] = ask[d]
         /\ ask'[c].pc = "raised" /\ ask'[c].usage = {}
         /\ CallerSound(c)'
<1> DEFINE m == [Quiet EXCEPT !.pc = "raised"]
<1>1. Types /\ calls \in Nat /\ UNCHANGED <<cache, calls, metered>>
      /\ ask' = [ask EXCEPT ![c] = m]
  BY DEF OInv, Types, Breaks
<1>2. CacheGrows
  BY <1>1, CacheStays
<1>3. m \in Locals /\ m.pc = "raised" /\ m.hit = FALSE /\ m.usage = {} /\ m.made = {}
      /\ m.response = 0
  BY QuietType DEF Locals, Points
<1> HIDE DEF m
<1>4. ask'[c] = m /\ (\A d \in Callers \ {c} : ask'[d] = ask[d])
      /\ ask' \in [Callers -> Locals]
  BY <1>1, <1>3 DEF Types
<1>5. CallerSound(c)'
  BY <1>1, <1>3, <1>4 DEF CallerSound, Backed
<1> QED
  BY <1>1, <1>2, <1>3, <1>4, <1>5

LEMMA AskLooks ==
  ASSUME OInv, NEW c \in Callers, NEW k \in Keys, Looks(c, k)
  PROVE  /\ CacheGrows /\ UNCHANGED <<cache, calls, metered>>
         /\ ask' \in [Callers -> Locals]
         /\ \A d \in Callers \ {c} : ask'[d] = ask[d]
         /\ ask'[c].pc \in {"answered", "first", "raised"} /\ ask'[c].usage = {}
         /\ ask'[c].pc # "raised" => ask'[c].key = k
         /\ CallerSound(c)'
         /\ failures' \in 0..MaxFailures
<1>1. CASE Asks(c, k) /\ UNCHANGED failures
  BY <1>1, AskAsks DEF OInv, Types
<1>2. CASE Breaks(c) /\ Failing
  <2>1. failures' \in 0..MaxFailures
    BY <1>2, OnlineAssumption DEF Failing, OInv, Types
  <2> QED
    BY <1>2, <2>1, AskBreaks
<1> QED
  BY <1>1, <1>2 DEF Looks

LEMMA AskForgets ==
  ASSUME OInv, NEW c \in Callers, Forgets(c)
  PROVE  /\ CacheGrows /\ UNCHANGED <<cache, calls, metered>>
         /\ ask' \in [Callers -> Locals]
         /\ ask'[c] = Quiet
         /\ \A d \in Callers \ {c} : ask'[d] = ask[d]
         /\ CallerSound(c)'
<1>1. Types /\ calls \in Nat /\ UNCHANGED <<cache, calls, metered>>
      /\ ask' = [ask EXCEPT ![c] = Quiet]
  BY DEF OInv, Types, Forgets
<1>2. CacheGrows
  BY <1>1, CacheStays
<1>3. ask'[c] = Quiet /\ (\A d \in Callers \ {c} : ask'[d] = ask[d])
      /\ ask' \in [Callers -> Locals]
  BY <1>1, QuietType DEF Types
<1>4. CallerSound(c)'
  BY <1>1, <1>3, QuietType DEF CallerSound, Backed
<1> QED
  BY <1>1, <1>2, <1>3, <1>4

(* a step that takes usages away from a caller, or from a task *)
LEMMA UsageDropped ==
  ASSUME OInv, UNCHANGED <<setup, calls, reply, evaluation>>,
         \A c \in Callers : ask'[c].usage \subseteq ask[c].usage,
         \A w \in Workers : task'[w].verdicts = task[w].verdicts \/ task'[w].verdicts = <<>>
                            \/ Recorded(w)'
  PROVE  Disjoint' /\ Bounded'
<1>1. ASSUME NEW p \in Places PROVE Usage(p)' \subseteq Usage(p)
  <2>1. ASSUME NEW c \in Callers, p = <<"ask", c, 0>> PROVE Usage(p)' \subseteq Usage(p)
    BY <2>1, AskPlace
  <2>2. ASSUME NEW u \in Requests, p = <<"reply", u, 0>> PROVE Usage(p)' \subseteq Usage(p)
    BY <2>2 DEF Usage
  <2>3. ASSUME NEW w \in Workers, NEW n \in Nat, p = <<"verdict", w, n>>
        PROVE  Usage(p)' \subseteq Usage(p)
    BY <2>3 DEF Usage, Recorded, Profiles
  <2>4. ASSUME NEW u \in Requests, NEW n \in Nat, p = <<"row", u, n>>
        PROVE  Usage(p)' \subseteq Usage(p)
    BY <2>4 DEF Usage, Profiles
  <2> QED
    BY <2>1, <2>2, <2>3, <2>4, PlaceCases
<1> QED
  BY <1>1, UsagesShrink DEF OInv, Types

-----------------------------------------------------------------------------
(* Requests. *)
LEMMA ArrivesKeeps ==
  ASSUME OInv, NEW u \in Requests, Arrives(u), setup' = setup
  PROVE  OInv'
<1>1. u \in Callers /\ Prompt[u] \in Keys
  BY OnlineAssumption DEF Keys
<1>2. request[u] = "new" /\ request' = [request EXCEPT ![u] = "asking"]
      /\ UNCHANGED <<reply, jobVars, task, evaluation, losses>>
  BY DEF Arrives
<1>3. /\ CacheGrows /\ UNCHANGED <<cache, calls, metered>>
      /\ ask' \in [Callers -> Locals]
      /\ \A d \in Callers \ {u} : ask'[d] = ask[d]
      /\ ask'[u].pc \in {"answered", "first", "raised"} /\ ask'[u].usage = {}
      /\ ask'[u].pc # "raised" => ask'[u].key = Prompt[u]
      /\ CallerSound(u)'
      /\ failures' \in 0..MaxFailures
  BY <1>1, AskLooks DEF Arrives
<1>4. Types /\ RequestSound(u)
  BY DEF OInv
<1>5. Types'
  BY <1>2, <1>3, <1>4 DEF Types, jobVars
<1>6. RequestSound(u)'
  <2>1. request'[u] = "asking" /\ phase'[u] = phase[u] /\ evaluation' = evaluation /\ reply' = reply
    BY <1>2, <1>4 DEF Types, jobVars
  <2>2. phase[u] = "absent"
    BY <1>2, <1>4 DEF RequestSound
  <2>3. evaluation[u] = None /\ Backed(reply[u], Prompt[u])
    BY <1>4, <2>2 DEF RequestSound
  <2>4. Backed(reply[u], Prompt[u])'
    BY <1>3, <2>1, <2>3 DEF Backed, Cached
  <2> QED
    BY <1>3, <2>1, <2>2, <2>3, <2>4 DEF RequestSound
<1>7. Disjoint' /\ Bounded'
  <2>1. \A c \in Callers : ask'[c].usage \subseteq ask[c].usage
    BY <1>3
  <2> QED
    BY <1>2, <1>3, <2>1, UsageDropped
<1>8. \A v \in Requests \ {u} : UNCHANGED <<request[v], reply[v], phase[v]>>
  BY <1>2, <1>4 DEF Types, jobVars
<1> QED
  BY <1>2, <1>3, <1>5, <1>6, <1>7, <1>8, RequestStep DEF jobVars

LEMMA OutcomeType ==
  ASSUME Types, NEW c \in Callers
  PROVE  /\ Outcome(c) \in Outcomes
         /\ Outcome(c).response = ask[c].response
         /\ Outcome(c).usage = ask[c].usage
         /\ Outcome(c).hit = ask[c].hit
<1>1. ask[c] \in Locals
  BY DEF Types
<1> QED
  BY <1>1 DEF Outcome, Outcomes, Locals

LEMMA GeneratedKeeps ==
  ASSUME OInv, NEW u \in Requests, Generated(u), setup' = setup
  PROVE  OInv'
<1>1. u \in Callers
  BY OnlineAssumption
<1>2. request[u] = "asking" /\ Forgets(u)
      /\ UNCHANGED <<jobVars, task, evaluation, failures, losses>>
  BY DEF Generated
<1>3. /\ CacheGrows /\ UNCHANGED <<cache, calls, metered>>
      /\ ask' \in [Callers -> Locals]
      /\ ask'[u] = Quiet
      /\ \A d \in Callers \ {u} : ask'[d] = ask[d]
      /\ CallerSound(u)'
  BY <1>1, <1>2, AskForgets
<1>4. Types /\ RequestSound(u) /\ CallerSound(u) /\ calls \in Nat
  BY <1>1 DEF OInv, Types
<1>5. phase[u] = "absent"
  BY <1>2, <1>4 DEF RequestSound
<1>6. evaluation[u] = None
  BY <1>4, <1>5 DEF RequestSound
<1>7. PICK next \in {"sampling", "replied", "error"} : request' = [request EXCEPT ![u] = next]
  BY DEF Generated
<1>8. request' \in [Requests -> {"never", "new", "asking", "sampling", "replied", "error"}]
      /\ request'[u] # "asking" /\ \A v \in Requests \ {u} : request'[v] = request[v]
  BY <1>4, <1>7 DEF Types
<1>9. CASE reply' = reply
  <2>1. Types'
    BY <1>2, <1>3, <1>4, <1>8, <1>9 DEF Types, jobVars
  <2>2. Backed(reply[u], Prompt[u])'
    BY <1>3, <1>4, <1>9 DEF RequestSound, Backed, Cached
  <2>3. RequestSound(u)'
    BY <1>2, <1>3, <1>5, <1>6, <1>8, <1>9, <2>2 DEF RequestSound, jobVars
  <2>4. Disjoint' /\ Bounded'
    <3>1. \A c \in Callers : ask'[c].usage \subseteq ask[c].usage
      BY <1>3, QuietType
    <3> QED
      BY <1>2, <1>3, <1>9, <3>1, UsageDropped
  <2>5. \A v \in Requests \ {u} : UNCHANGED <<request[v], reply[v], phase[v]>>
    BY <1>2, <1>8, <1>9 DEF jobVars
  <2> QED
    BY <1>2, <1>3, <1>5, <2>1, <2>3, <2>4, <2>5, RequestStep
<1>10. CASE reply' # reply
  <2>1. Answered(u) /\ reply' = [reply EXCEPT ![u] = Outcome(u)]
    BY <1>10 DEF Generated
  <2>2. reply' \in [Requests -> Outcomes] /\ reply'[u] = Outcome(u)
        /\ \A v \in Requests \ {u} : reply'[v] = reply[v]
    BY <1>1, <1>4, <2>1, OutcomeType DEF Types
  <2>3. Types'
    BY <1>2, <1>3, <1>4, <1>8, <2>2 DEF Types, jobVars
  <2>4. Backed(reply[u], Prompt[u])'
    <3>1. ask[u].key = Prompt[u]
      BY <1>2, <1>4, <2>1 DEF RequestSound, Answered
    <3> QED
      BY <1>1, <1>3, <1>4, <2>2, <3>1, OutcomeType DEF CallerSound, Backed, Cached
  <2>5. RequestSound(u)'
    BY <1>2, <1>3, <1>5, <1>6, <1>8, <2>4 DEF RequestSound, jobVars
  <2>6. Disjoint' /\ Bounded'
    <3> DEFINE a == <<"ask", u, 0>>
               r == <<"reply", u, 0>>
               from == [p \in Places |-> IF p = a THEN r ELSE IF p = r THEN a ELSE p]
    <3>1. a \in Places /\ r \in Places /\ a # r
      BY <1>1 DEF Places
    <3>2. from \in [Places -> Places]
      BY <3>1
    <3>3. Usage(a)' = {} /\ Usage(a) = ask[u].usage
      BY <1>1, <1>3, AskPlace, QuietType
    <3>4. Usage(r)' = ask[u].usage
      BY <1>1, <1>4, <2>2, OutcomeType DEF Usage
    <3>5. ASSUME NEW p \in Places, p # a, p # r PROVE Usage(p)' = Usage(p)
      <4>1. ASSUME NEW c \in Callers, p = <<"ask", c, 0>> PROVE Usage(p)' = Usage(p)
        BY <1>3, <3>5, <4>1, AskPlace
      <4>2. ASSUME NEW v \in Requests, p = <<"reply", v, 0>> PROVE Usage(p)' = Usage(p)
        BY <2>2, <3>5, <4>2 DEF Usage
      <4>3. ASSUME p[1] \notin {"ask", "reply"} PROVE Usage(p)' = Usage(p)
        BY <1>2, <4>3 DEF Usage, Recorded, Profiles
      <4> QED
        BY <4>1, <4>2, <4>3, PlaceCases
    <3>6. \A p \in Places : Usage(p)' \subseteq Usage(from[p])
      <4> SUFFICES ASSUME NEW p \in Places PROVE Usage(p)' \subseteq Usage(from[p])
        OBVIOUS
      <4>1. CASE p = a
        BY <3>1, <3>3, <4>1
      <4>2. CASE p = r
        BY <3>1, <3>3, <3>4, <4>2
      <4>3. CASE p # a /\ p # r
        BY <3>5, <4>3
      <4> QED
        BY <4>1, <4>2, <4>3
    <3>7. \A p, q \in Places : p # q => from[p] # from[q]
      BY <3>1
    <3> HIDE DEF from
    <3> QED
      BY <1>3, <1>4, <3>2, <3>6, <3>7, UsagesMove DEF OInv
  <2>7. \A v \in Requests \ {u} : UNCHANGED <<request[v], reply[v], phase[v]>>
    BY <1>2, <1>8, <2>2 DEF jobVars
  <2> QED
    BY <1>2, <1>3, <1>5, <2>3, <2>5, <2>6, <2>7, RequestStep
<1> QED
  BY <1>9, <1>10

LEMMA SamplesKeeps ==
  ASSUME OInv, NEW u \in Requests, Samples(u), setup' = setup
  PROVE  OInv'
<1>1. request[u] = "sampling" /\ request' = [request EXCEPT ![u] = "replied"]
      /\ UNCHANGED <<cacheVars, reply, task, evaluation, losses>>
  BY DEF Samples
<1>2. Types /\ RequestSound(u) /\ u \in Callers
  BY OnlineAssumption DEF OInv
<1>3. phase[u] = "absent" /\ ask[u] = Quiet
  BY <1>1, <1>2 DEF RequestSound
<1>4. evaluation[u] = None
  BY <1>2, <1>3 DEF RequestSound
<1>5. failures' \in 0..MaxFailures
  BY <1>2, OnlineAssumption DEF Samples, Failing, Types
<1>6. /\ phase' \in [Requests -> {"absent", "waiting", "held", "done", "buried"}]
      /\ phase'[u] \in {"absent", "waiting"}
      /\ \A v \in Requests \ {u} : phase'[v] = phase[v]
      /\ UNCHANGED <<tries, holder>>
  BY <1>2, <1>3 DEF Samples, Queue!Submit, jobVars, Types
<1>7. Types'
  BY <1>1, <1>2, <1>5, <1>6 DEF Types, cacheVars
<1>8. CacheGrows
  BY <1>1, <1>2, CacheStays DEF cacheVars
<1>9. RequestSound(u)'
  <2>1. request'[u] = "replied"
    BY <1>1, <1>2 DEF Types
  <2>2. Backed(reply[u], Prompt[u])'
    BY <1>1, <1>2 DEF cacheVars, RequestSound, Backed, Cached
  <2> QED
    BY <1>1, <1>3, <1>4, <1>6, <2>1, <2>2 DEF RequestSound, cacheVars
<1>10. Disjoint' /\ Bounded'
  <2>1. \A c \in Callers : ask'[c].usage \subseteq ask[c].usage
    BY <1>1 DEF cacheVars
  <2> QED
    BY <1>1, <2>1, UsageDropped DEF cacheVars
<1>11. CallerSound(u)'
  BY <1>1, <1>2, <1>8, CallerStays DEF cacheVars
<1>12. \A v \in Requests \ {u} : UNCHANGED <<request[v], reply[v], phase[v]>>
  BY <1>1, <1>2, <1>6 DEF Types
<1> QED
  BY <1>1, <1>3, <1>7, <1>8, <1>9, <1>10, <1>11, <1>12, RequestStep DEF cacheVars

-----------------------------------------------------------------------------
(* Jobs. *)
LEMMA JobStep ==
  ASSUME Types, NEW u \in Requests, phase[u] # "absent",
         Queue!Finish(u) \/ Queue!GiveUp(u) \/ Queue!Lose(u) \/ UNCHANGED jobVars
  PROVE  /\ phase' \in [Requests -> {"absent", "waiting", "held", "done", "buried"}]
         /\ tries' \in [Requests -> 0..MaxAttempts]
         /\ holder' \in [Requests -> Workers \cup {None}]
         /\ \A v \in Requests : phase[v] = "absent" <=> phase'[v] = "absent"
         /\ \A v \in Requests \ {u} : phase'[v] = phase[v]
         /\ phase'[u] = "done" => phase[u] = "done" \/ Queue!Finish(u)
<1>1. CASE Queue!Finish(u)
  BY <1>1 DEF Types, Queue!Finish
<1>2. CASE Queue!GiveUp(u)
  BY <1>2 DEF Types, Queue!GiveUp
<1>3. CASE Queue!Lose(u)
  BY <1>3 DEF Types, Queue!Lose
<1>4. CASE UNCHANGED jobVars
  BY <1>4 DEF Types, jobVars
<1> QED
  BY <1>1, <1>2, <1>3, <1>4

LEMMA TaskType ==
  ASSUME OInv, NEW w \in Workers, Busy(w)
  PROVE  /\ w \in Callers
         /\ task[w].trace \in Requests /\ phase[task[w].trace] # "absent"
         /\ Len(task[w].verdicts) \in Nat /\ Len(Profiles) \in Nat \ {0}
         /\ DOMAIN Profiles = 1..Len(Profiles)
<1>1. task[w] \in Tasks /\ TaskSound(w) /\ setup \in Setups
  BY DEF OInv, Types
<1> QED
  BY <1>1, ProfilesType, LenProperties, OnlineAssumption DEF Busy, TaskSound, Tasks

(* a worker is done with its task, one way or another *)
LEMMA LeavesKeeps ==
  ASSUME OInv, NEW w \in Workers, Busy(w), Leaves(w),
         UNCHANGED <<setup, request, reply, evaluation, cache, calls, metered>>,
         ask' \in [Callers -> Locals], ask'[w].pc = "quiet", ask'[w].usage \subseteq ask[w].usage,
         \A d \in Callers \ {w} : ask'[d] = ask[d], CallerSound(w)',
         failures' \in 0..MaxFailures, losses' \in 0..MaxLosses,
         \/ Queue!Finish(task[w].trace) /\ evaluation[task[w].trace] # None
         \/ Queue!GiveUp(task[w].trace) \/ Queue!Lose(task[w].trace) \/ UNCHANGED jobVars
  PROVE  OInv'
<1>1. Types /\ w \in Callers
  BY OnlineAssumption DEF OInv
<1>2. PICK u \in Requests : u = task[w].trace /\ phase[u] # "absent"
  BY TaskType
<1>3. /\ phase' \in [Requests -> {"absent", "waiting", "held", "done", "buried"}]
      /\ tries' \in [Requests -> 0..MaxAttempts]
      /\ holder' \in [Requests -> Workers \cup {None}]
      /\ \A v \in Requests : phase[v] = "absent" <=> phase'[v] = "absent"
      /\ \A v \in Requests \ {u} : phase'[v] = phase[v]
      /\ phase'[u] = "done" => phase[u] = "done" \/ Queue!Finish(u)
  BY <1>1, <1>2, JobStep
<1>4. task' = [task EXCEPT ![w] = NoTask]
  BY DEF Leaves
<1>5. task' \in [Workers -> Tasks] /\ task'[w] = NoTask
      /\ \A v \in Workers \ {w} : task'[v] = task[v]
  BY <1>1, <1>4, NoTaskType DEF Types
<1>6. Types'
  BY <1>1, <1>3, <1>5 DEF Types
<1>7. CacheGrows
  BY <1>1, CacheStays
<1>8. ASSUME NEW v \in Requests PROVE Steady(v)
  <2>1. CASE v = u
    <3>1. phase'[u] = "done" => phase[u] = "done" \/ evaluation[u] # None
      <4>1. CASE UNCHANGED jobVars
        BY <4>1 DEF jobVars
      <4>2. CASE Queue!GiveUp(u)
        BY <1>1, <4>2 DEF Queue!GiveUp, Types
      <4>3. CASE Queue!Lose(u)
        BY <4>3 DEF Queue!Lose
      <4> QED
        BY <1>2, <4>1, <4>2, <4>3
    <3> QED
      BY <1>3, <2>1, <3>1 DEF Steady
  <2>2. CASE v # u
    BY <1>3, <2>2 DEF Steady
  <2> QED
    BY <2>1, <2>2
<1>9. TaskSound(w)'
  BY <1>5, NoTaskType DEF TaskSound
<1>10. Disjoint' /\ Bounded'
  <2>1. \A c \in Callers : ask'[c].usage \subseteq ask[c].usage
    OBVIOUS
  <2>2. \A v \in Workers : task'[v].verdicts = task[v].verdicts \/ task'[v].verdicts = <<>>
    BY <1>5, NoTaskType
  <2> QED
    BY <2>1, <2>2, UsageDropped
<1> QED
  BY <1>5, <1>6, <1>7, <1>8, <1>9, <1>10, WorkerStep

LEMMA ReturnsKeeps ==
  ASSUME OInv, NEW w \in Workers, Returns(w), setup' = setup
  PROVE  OInv'
<1>1. Busy(w) /\ Next1(w) > Len(Profiles) + 1 /\ Leaves(w)
      /\ UNCHANGED <<cacheVars, request, reply, evaluation, failures, losses>>
  BY DEF Returns
<1>2. Types /\ TaskSound(w) /\ w \in Callers /\ CallerSound(w)
  BY <1>1, TaskType DEF OInv
<1>3. Recorded(w)
  BY <1>1, TaskType DEF Recorded, Next1
<1>4. evaluation[task[w].trace] # None /\ ask[w].pc = "quiet"
  BY <1>1, <1>2, <1>3 DEF TaskSound, Busy
<1>5. CallerSound(w)'
  <2>1. CacheGrows
    BY <1>1, <1>2, CacheStays DEF cacheVars
  <2> QED
    BY <1>1, <1>2, <2>1, CallerStays DEF cacheVars
<1>6. Queue!Finish(task[w].trace) \/ UNCHANGED jobVars
  BY DEF Returns
<1>7. ask' = ask /\ ask' \in [Callers -> Locals] /\ UNCHANGED <<cache, calls, metered>>
      /\ failures' \in 0..MaxFailures /\ losses' \in 0..MaxLosses
  BY <1>1, <1>2 DEF cacheVars, Types
<1> QED
  BY <1>1, <1>4, <1>5, <1>6, <1>7, LeavesKeeps

LEMMA RaisesKeeps ==
  ASSUME OInv, NEW w \in Workers, Raises(w), setup' = setup
  PROVE  OInv'
<1>1. Busy(w) /\ Leaves(w) /\ Forgets(w)
      /\ UNCHANGED <<request, reply, evaluation, losses>>
  BY DEF Raises, AllJudged
<1>2. w \in Callers /\ Types
  BY <1>1, TaskType DEF OInv
<1>3. /\ UNCHANGED <<cache, calls, metered>>
      /\ ask' \in [Callers -> Locals]
      /\ ask'[w] = Quiet
      /\ \A d \in Callers \ {w} : ask'[d] = ask[d]
      /\ CallerSound(w)'
  BY <1>1, <1>2, AskForgets
<1>4. Queue!GiveUp(task[w].trace) \/ UNCHANGED jobVars
  BY DEF Raises
<1>5. ask'[w].pc = "quiet" /\ ask'[w].usage \subseteq ask[w].usage
  BY <1>3, QuietType
<1>6. failures' \in 0..MaxFailures /\ losses' \in 0..MaxLosses
  BY <1>1, <1>2, OnlineAssumption DEF Raises, Failing, Types
<1> QED
  BY <1>1, <1>3, <1>4, <1>5, <1>6, LeavesKeeps

LEMMA DiesKeeps ==
  ASSUME OInv, NEW w \in Workers, Dies(w), setup' = setup
  PROVE  OInv'
<1>1. Busy(w) /\ Leaves(w) /\ Forgets(w) /\ losses < MaxLosses /\ losses' = losses + 1
      /\ UNCHANGED <<request, reply, evaluation, failures>>
  BY DEF Dies
<1>2. w \in Callers /\ Types
  BY <1>1, TaskType DEF OInv
<1>3. /\ UNCHANGED <<cache, calls, metered>>
      /\ ask' \in [Callers -> Locals]
      /\ ask'[w] = Quiet
      /\ \A d \in Callers \ {w} : ask'[d] = ask[d]
      /\ CallerSound(w)'
  BY <1>1, <1>2, AskForgets
<1>4. Queue!Lose(task[w].trace) \/ UNCHANGED jobVars
  BY DEF Dies
<1>5. ask'[w].pc = "quiet" /\ ask'[w].usage \subseteq ask[w].usage
  BY <1>3, QuietType
<1>6. failures' \in 0..MaxFailures /\ losses' \in 0..MaxLosses
  BY <1>1, <1>2, OnlineAssumption DEF Types
<1> QED
  BY <1>1, <1>3, <1>4, <1>5, <1>6, LeavesKeeps

(* a step that leaves requests, callers, tasks and rows alone *)
LEMMA QueueStep ==
  ASSUME OInv, Types', UNCHANGED <<setup, cacheVars, request, reply, task, evaluation>>,
         \A u \in Requests : /\ phase[u] = "absent" <=> phase'[u] = "absent"
                             /\ phase'[u] = "done" => phase[u] = "done"
  PROVE  OInv'
<1>1. CacheGrows
  BY CacheStays DEF OInv, cacheVars
<1>2. \A c \in Callers : CallerSound(c)'
  BY <1>1, CallerStays DEF cacheVars
<1>3. ASSUME NEW u \in Requests PROVE RequestSound(u)'
  BY <1>1, RequestStays DEF cacheVars
<1>4. ASSUME NEW w \in Workers PROVE TaskSound(w)'
  BY <1>1, TaskStays DEF cacheVars
<1>5. Disjoint' /\ Bounded'
  BY UsageDropped DEF cacheVars
<1> QED
  BY <1>2, <1>3, <1>4, <1>5 DEF OInv

LEMMA LosesLeaseKeeps ==
  ASSUME OInv, NEW w \in Workers, LosesLease(w), setup' = setup
  PROVE  OInv'
<1>1. Busy(w) /\ losses < MaxLosses /\ losses' = losses + 1 /\ Queue!Lose(task[w].trace)
      /\ UNCHANGED <<cacheVars, request, reply, task, evaluation, failures>>
  BY DEF LosesLease
<1>2. Types
  BY DEF OInv
<1>3. /\ phase' = phase
      /\ tries' \in [Requests -> 0..MaxAttempts]
      /\ holder' \in [Requests -> Workers \cup {None}]
  BY <1>1, <1>2, TaskType, JobStep DEF Queue!Lose
<1>4. Types'
  BY <1>1, <1>2, <1>3, OnlineAssumption DEF Types, cacheVars
<1> QED
  BY <1>1, <1>3, <1>4, QueueStep

LEMMA SweepsKeeps ==
  ASSUME OInv, Sweeps, setup' = setup
  PROVE  OInv'
<1> DEFINE B == {u \in Requests : Queue!Abandoned(u) /\ tries[u] = MaxAttempts}
<1>1. /\ phase' = [u \in Requests |-> IF u \in B THEN "buried" ELSE phase[u]]
      /\ UNCHANGED <<tries, holder>>
      /\ UNCHANGED <<cacheVars, request, reply, task, evaluation, failures, losses>>
  BY DEF Sweeps, Queue!Bury
<1>2. Types
  BY DEF OInv
<1>3. \A u \in B : phase[u] = "held"
  BY DEF Queue!Abandoned
<1> HIDE DEF B
<1>4. Types'
  BY <1>1, <1>2 DEF Types, cacheVars
<1> QED
  BY <1>1, <1>3, <1>4, QueueStep

-----------------------------------------------------------------------------
(* Handlers. *)
LEMMA TakesKeeps ==
  ASSUME OInv, NEW w \in Workers, NEW u \in Requests, Takes(w, u), setup' = setup
  PROVE  OInv'
<1>1. ~Busy(w) /\ Queue!HandOut(w, u, {}) /\ task' = [task EXCEPT ![w].trace = u]
      /\ UNCHANGED <<cacheVars, request, reply, evaluation, failures, losses>>
  BY DEF Takes
<1>2. Types /\ TaskSound(w) /\ w \in Callers /\ task[w] \in Tasks
  BY OnlineAssumption DEF OInv, Types
<1>3. task[w].trace = None /\ task[w].verdicts = <<>> /\ ask[w].pc = "quiet"
  BY <1>1, <1>2 DEF Busy, TaskSound
<1>4. /\ phase' \in [Requests -> {"absent", "waiting", "held", "done", "buried"}]
      /\ tries' \in [Requests -> 0..MaxAttempts]
      /\ holder' \in [Requests -> Workers \cup {None}]
      /\ phase[u] \in {"waiting", "held"} /\ phase'[u] = "held"
      /\ \A v \in Requests \ {u} : phase'[v] = phase[v]
  BY <1>1, <1>2, OnlineAssumption DEF Queue!HandOut, Queue!Abandoned, Types
<1>5. task'[w].trace = u /\ task'[w].verdicts = <<>> /\ task' \in [Workers -> Tasks]
      /\ \A v \in Workers \ {w} : task'[v] = task[v]
  BY <1>1, <1>2, <1>3 DEF Types, Tasks
<1>6. Types'
  BY <1>1, <1>2, <1>4, <1>5 DEF Types, cacheVars
<1>7. CacheGrows
  BY <1>1, <1>2, CacheStays DEF cacheVars
<1>8. CallerSound(w)'
  BY <1>1, <1>2, <1>7, CallerStays DEF cacheVars
<1>9. \A v \in Requests : Steady(v)
  BY <1>1, <1>4 DEF Steady
<1>10. TaskSound(w)'
  <2>1. u # None
    BY OnlineAssumption
  <2>2. Len(task'[w].verdicts) = 0 /\ task'[w].verdicts \in Seq(Outcomes)
        /\ DOMAIN task'[w].verdicts = {}
    BY <1>5, EmptySeq
  <2>3. Len(Profiles)' \in Nat \ {0}
    BY <1>2, ProfilesType DEF Types, Profiles
  <2> QED
    BY <1>1, <1>3, <1>4, <1>5, <2>1, <2>2, <2>3 DEF TaskSound, Recorded, cacheVars
<1>11. Disjoint' /\ Bounded'
  <2>1. \A v \in Workers : task'[v].verdicts = task[v].verdicts
    BY <1>3, <1>5
  <2> QED
    BY <1>1, <2>1, UsageDropped DEF cacheVars
<1> QED
  BY <1>1, <1>5, <1>6, <1>7, <1>8, <1>9, <1>10, <1>11, WorkerStep DEF cacheVars

LEMMA JudgesKeeps ==
  ASSUME OInv, NEW w \in Workers, Judges(w), setup' = setup
  PROVE  OInv'
<1>1. Busy(w) /\ ask[w].pc = "quiet" /\ Next1(w) <= Len(Profiles) /\ Looks(w, JudgeKey(w))
      /\ UNCHANGED <<request, reply, jobVars, task, evaluation, losses>>
  BY DEF Judges
<1>2. Types /\ TaskSound(w) /\ w \in Callers
  BY <1>1, TaskType DEF OInv
<1>3. Len(task[w].verdicts) < Len(Profiles) /\ ~Recorded(w)
  BY <1>1, TaskType DEF Next1, Recorded
<1>4. JudgeKey(w) \in Keys
  BY <1>1, <1>2, <1>3, JudgeKeyType
<1>5. /\ CacheGrows /\ UNCHANGED <<cache, calls, metered>>
      /\ ask' \in [Callers -> Locals]
      /\ \A d \in Callers \ {w} : ask'[d] = ask[d]
      /\ ask'[w].pc \in {"answered", "first", "raised"} /\ ask'[w].usage = {}
      /\ ask'[w].pc # "raised" => ask'[w].key = JudgeKey(w)
      /\ CallerSound(w)'
      /\ failures' \in 0..MaxFailures
  BY <1>1, <1>2, <1>4, AskLooks
<1>6. Types'
  BY <1>1, <1>2, <1>5 DEF Types, jobVars
<1>7. \A u \in Requests : Steady(u)
  BY <1>1 DEF Steady, jobVars
<1>8. TaskSound(w)'
  <2>1. Profiles' = Profiles /\ Recorded(w)' = Recorded(w) /\ JudgeKey(w)' = JudgeKey(w)
        /\ (\A n : RowKey(task[w].trace, n)' = RowKey(task[w].trace, n))
        /\ task' = task /\ phase' = phase
    BY <1>1 DEF Profiles, Recorded, JudgeKey, Next1, RowKey, jobVars
  <2>2. task[w].trace # None
    BY <1>1 DEF Busy
  <2>3. \A n \in DOMAIN task[w].verdicts :
           Backed(task[w].verdicts[n], RowKey(task[w].trace, n))'
    <3> SUFFICES ASSUME NEW n \in DOMAIN task[w].verdicts
                 PROVE  Backed(task[w].verdicts[n], RowKey(task[w].trace, n))'
      OBVIOUS
    <3>1. Backed(task[w].verdicts[n], RowKey(task[w].trace, n))
      BY <1>2, <1>3, <2>2 DEF TaskSound
    <3>2. RowKey(task[w].trace, n)' = RowKey(task[w].trace, n) /\ task' = task
      BY <2>1
    <3> QED
      BY <1>5, <3>1, <3>2 DEF Backed, Cached
  <2> QED
    BY <1>1, <1>2, <1>3, <1>5, <2>1, <2>2, <2>3 DEF TaskSound
<1>9. Disjoint' /\ Bounded'
  <2>1. \A c \in Callers : ask'[c].usage \subseteq ask[c].usage
    BY <1>5
  <2> QED
    BY <1>1, <1>5, <2>1, UsageDropped
<1> QED
  BY <1>1, <1>5, <1>6, <1>7, <1>8, <1>9, WorkerStep

LEMMA JudgedKeeps ==
  ASSUME OInv, NEW w \in Workers, Judged(w), setup' = setup
  PROVE  OInv'
<1>a. PICK s : s = task[w].verdicts
  OBVIOUS
<1>b. PICK o : o = Outcome(w)
  OBVIOUS
<1>c. PICK t : t = Append(s, o)
  OBVIOUS
<1>d. PICK k : k = Len(s) + 1
  OBVIOUS
<1>1. Busy(w) /\ ask[w].pc = "answered" /\ Forgets(w)
      /\ task' = [task EXCEPT ![w].verdicts = t]
      /\ UNCHANGED <<request, reply, jobVars, evaluation, failures, losses>>
  BY <1>a, <1>b, <1>c DEF Judged
<1>2. Types /\ TaskSound(w) /\ w \in Callers /\ CallerSound(w) /\ task[w] \in Tasks
      /\ calls \in Nat /\ Len(s) \in Nat /\ task[w].trace \in Requests
  BY <1>1, <1>a, TaskType DEF OInv, Types
<1>3. Len(s) < Len(Profiles) /\ ask[w].key = JudgeKey(w) /\ phase[task[w].trace] # "absent"
  BY <1>1, <1>2, <1>a DEF TaskSound, Busy
<1>4. Len(Profiles) \in Nat \ {0} /\ Profiles' = Profiles
  BY <1>1, TaskType DEF Profiles
<1>5. ~Recorded(w) /\ s \in Seq(Outcomes)
      /\ \A n \in DOMAIN s : Backed(s[n], RowKey(task[w].trace, n))
  <2>1. ~Recorded(w)
    BY <1>2, <1>3, <1>4, <1>a DEF Recorded
  <2> QED
    BY <1>1, <1>2, <1>a, <2>1 DEF TaskSound, Busy
<1>6. /\ CacheGrows /\ UNCHANGED <<cache, calls, metered>>
      /\ ask' \in [Callers -> Locals]
      /\ ask'[w] = Quiet
      /\ \A d \in Callers \ {w} : ask'[d] = ask[d]
      /\ CallerSound(w)'
  BY <1>1, <1>2, AskForgets
<1>7. /\ o \in Outcomes /\ o.response = ask[w].response
      /\ o.usage = ask[w].usage /\ o.hit = ask[w].hit
  BY <1>2, <1>b, OutcomeType
<1>8. /\ t \in Seq(Outcomes) /\ Len(t) = k /\ t[k] = o
      /\ \A n \in DOMAIN s : t[n] = s[n]
      /\ DOMAIN s = 1..Len(s) /\ DOMAIN t = 1..k
  BY <1>5, <1>7, <1>c, <1>d, AppendProperties, LenProperties
<1>9. t \in Seq(Outcomes \cup {None})
  BY <1>8, SeqMonotonic
<1>10. /\ task' \in [Workers -> Tasks] /\ task'[w].trace = task[w].trace /\ task'[w].verdicts = t
       /\ \A v \in Workers \ {w} : task'[v] = task[v]
  BY <1>1, <1>2, <1>9 DEF Types, Tasks
<1>11. Types'
  BY <1>1, <1>2, <1>6, <1>10 DEF Types, jobVars
<1>12. \A u \in Requests : Steady(u)
  BY <1>1 DEF Steady, jobVars
<1>13. ~Recorded(w)'
  BY <1>2, <1>3, <1>4, <1>8, <1>10, <1>d DEF Recorded
<1>14. TaskSound(w)'
  <2>1. \A n : RowKey(task[w].trace, n)' = RowKey(task[w].trace, n)
    BY <1>1, <1>4, <1>10 DEF RowKey
  <2>2. \A n \in DOMAIN t : Backed(t[n], RowKey(task[w].trace, n))'
    <3> SUFFICES ASSUME NEW n \in DOMAIN t PROVE Backed(t[n], RowKey(task[w].trace, n))'
      OBVIOUS
    <3>1. Backed(t[n], RowKey(task[w].trace, n))
      <4>1. CASE n \in DOMAIN s
        BY <1>5, <1>8, <4>1
      <4>2. CASE n = k
        <5>1. RowKey(task[w].trace, k) = ask[w].key
          BY <1>3, <1>a, <1>d DEF RowKey, JudgeKey, Next1
        <5> QED
          BY <1>2, <1>7, <1>8, <4>2, <5>1 DEF CallerSound, Backed
      <4> QED
        BY <1>2, <1>8, <1>d, <4>1, <4>2
    <3>2. RowKey(task[w].trace, n)' = RowKey(task[w].trace, n)
      BY <2>1
    <3> QED
      BY <1>6, <3>1, <3>2 DEF Backed, Cached
  <2>3. task'[w].trace # None /\ phase'[task'[w].trace] # "absent"
    BY <1>1, <1>3, <1>10 DEF Busy, jobVars
  <2>4. Len(task'[w].verdicts) <= Len(Profiles)'
    BY <1>2, <1>3, <1>4, <1>8, <1>10, <1>d
  <2>5. \A n \in DOMAIN task'[w].verdicts :
          Backed(task[w].verdicts[n], RowKey(task[w].trace, n))'
    <3> SUFFICES ASSUME NEW n \in DOMAIN task'[w].verdicts
                 PROVE  Backed(task[w].verdicts[n], RowKey(task[w].trace, n))'
      OBVIOUS
    <3>1. Backed(t[n], RowKey(task[w].trace, n))'
      BY <1>10, <2>2
    <3> QED
      BY <1>10, <3>1
  <2>6. ask'[w].pc = "quiet"
    BY <1>6, QuietType
  <2> QED
    BY <1>4, <1>8, <1>10, <1>13, <2>3, <2>4, <2>5, <2>6 DEF TaskSound
<1>15. Disjoint' /\ Bounded'
  <2> DEFINE a == <<"ask", w, 0>>
             r == <<"verdict", w, k>>
             from == [p \in Places |-> IF p = a THEN r ELSE IF p = r THEN a ELSE p]
  <2>1. a \in Places /\ r \in Places /\ a # r
    BY <1>2, <1>d DEF Places
  <2>2. from \in [Places -> Places]
    BY <2>1
  <2>3. Usage(a)' = {} /\ Usage(a) = ask[w].usage
    BY <1>2, <1>6, AskPlace, QuietType
  <2>4. Usage(r)' = ask[w].usage
    <3>1. Usage(r)' = t[k].usage
      BY <1>2, <1>8, <1>10, <1>13, <1>d DEF Usage
    <3> QED
      BY <1>7, <1>8, <3>1
  <2>5. ASSUME NEW p \in Places, p # a, p # r PROVE Usage(p)' = Usage(p)
    <3>1. ASSUME NEW c \in Callers, p = <<"ask", c, 0>> PROVE Usage(p)' = Usage(p)
      BY <1>6, <2>5, <3>1, AskPlace
    <3>2. ASSUME NEW v \in Workers, v # w, NEW n \in Nat, p = <<"verdict", v, n>>
          PROVE  Usage(p)' = Usage(p)
      BY <1>4, <1>10, <3>2 DEF Usage, Recorded
    <3>3. ASSUME NEW n \in Nat, p = <<"verdict", w, n>> PROVE Usage(p)' = Usage(p)
      <4>1. n # k
        BY <2>5, <3>3
      <4>2. n \in DOMAIN t <=> n \in DOMAIN s
        BY <1>2, <1>8, <1>d, <4>1
      <4> QED
        BY <1>5, <1>8, <1>10, <1>13, <1>a, <3>3, <4>2 DEF Usage
    <3>4. ASSUME p[1] \notin {"ask", "verdict"} PROVE Usage(p)' = Usage(p)
      BY <1>1, <1>4, <3>4 DEF Usage
    <3> QED
      BY <3>1, <3>2, <3>3, <3>4, PlaceCases
  <2>6. \A p \in Places : Usage(p)' \subseteq Usage(from[p])
    <3> SUFFICES ASSUME NEW p \in Places PROVE Usage(p)' \subseteq Usage(from[p])
      OBVIOUS
    <3>1. CASE p = a
      BY <2>1, <2>3, <3>1
    <3>2. CASE p = r
      BY <2>1, <2>3, <2>4, <3>2
    <3>3. CASE p # a /\ p # r
      BY <2>5, <3>3
    <3> QED
      BY <3>1, <3>2, <3>3
  <2>7. \A p, q \in Places : p # q => from[p] # from[q]
    BY <2>1
  <2> HIDE DEF from
  <2> QED
    BY <1>2, <1>6, <2>2, <2>6, <2>7, UsagesMove DEF OInv
<1> QED
  BY <1>1, <1>6, <1>10, <1>11, <1>12, <1>14, <1>15, WorkerStep

LEMMA RecordsKeeps ==
  ASSUME OInv, NEW w \in Workers, Records(w), setup' = setup
  PROVE  OInv'
<1>a. PICK s : s = task[w].verdicts
  OBVIOUS
<1>b. PICK u : u = task[w].trace
  OBVIOUS
<1>c. PICK t : t = Append(s, None)
  OBVIOUS
<1>1. Busy(w) /\ ask[w].pc = "quiet" /\ Next1(w) = Len(Profiles) + 1
      /\ evaluation' = [evaluation EXCEPT ![u] = RowOf(w)]
      /\ task' = [task EXCEPT ![w].verdicts = t]
      /\ UNCHANGED <<cacheVars, request, reply, jobVars, failures, losses>>
  BY <1>a, <1>b, <1>c DEF Records, AllJudged
<1>2. Types /\ TaskSound(w) /\ w \in Callers /\ task[w] \in Tasks /\ u \in Requests
      /\ phase[u] # "absent" /\ Len(s) \in Nat /\ RequestSound(u) /\ u # None
  BY <1>1, <1>a, <1>b, TaskType DEF OInv, Types, Busy
<1>3. Len(Profiles) \in Nat \ {0} /\ Profiles' = Profiles /\ DOMAIN Profiles = 1..Len(Profiles)
  BY <1>1, TaskType DEF Profiles
<1>4. Len(s) = Len(Profiles) /\ ~Recorded(w)
  BY <1>1, <1>2, <1>3, <1>a DEF Next1, Recorded
<1>5. s \in Seq(Outcomes) /\ DOMAIN s = DOMAIN Profiles
      /\ \A n \in DOMAIN s : Backed(s[n], RowKey(u, n))
  <2>1. s \in Seq(Outcomes) /\ \A n \in DOMAIN s : Backed(s[n], RowKey(u, n))
    BY <1>2, <1>4, <1>a, <1>b DEF TaskSound
  <2> QED
    BY <1>3, <1>4, <2>1, LenProperties
<1>6. s # None
  BY <1>5, OnlineAssumption
<1>7. t \in Seq(Outcomes \cup {None}) /\ Len(t) = Len(s) + 1
  <2>1. s \in Seq(Outcomes \cup {None})
    BY <1>5, SeqMonotonic
  <2> QED
    BY <1>c, <2>1, AppendProperties
<1>8. /\ task' \in [Workers -> Tasks] /\ task'[w].trace = u /\ task'[w].verdicts = t
      /\ \A v \in Workers \ {w} : task'[v] = task[v]
  BY <1>1, <1>2, <1>7, <1>b DEF Types, Tasks
<1>9. /\ evaluation' \in [Requests -> Seq(Outcomes) \cup {None}]
      /\ evaluation'[u] = IF evaluation[u] = None THEN s ELSE evaluation[u]
      /\ \A v \in Requests \ {u} : evaluation'[v] = evaluation[v]
  BY <1>1, <1>2, <1>5, <1>a, <1>b DEF RowOf, Types
<1>10. evaluation'[u] # None
  BY <1>6, <1>9
<1>11. Types'
  BY <1>1, <1>2, <1>8, <1>9 DEF Types, jobVars, cacheVars
<1>12. CacheGrows
  BY <1>1, <1>2, CacheStays DEF cacheVars
<1>13. CallerSound(w)'
  BY <1>1, <1>2, <1>12, CallerStays DEF cacheVars
<1>14. Recorded(w)'
  BY <1>2, <1>3, <1>4, <1>7, <1>8 DEF Recorded
<1>15. TaskSound(w)'
  <2>1. Len(task'[w].verdicts) <= Len(Profiles)' + 1
    BY <1>3, <1>4, <1>7, <1>8
  <2> QED
    BY <1>1, <1>2, <1>3, <1>8, <1>10, <1>14, <2>1 DEF TaskSound, cacheVars, jobVars
<1>16. ASSUME NEW v \in Requests PROVE Steady(v)
  <2>1. CASE v # u \/ evaluation[u] # None
    BY <1>1, <1>9, <2>1 DEF Steady, jobVars
  <2>2. CASE v = u /\ evaluation[u] = None
    <3>1. evaluation'[u] = s /\ phase' = phase /\ request' = request /\ reply' = reply
          /\ ask' = ask /\ cache' = cache
      BY <1>1, <1>9, <2>2 DEF jobVars, cacheVars
    <3>2. ASSUME NEW n \in DOMAIN Profiles PROVE Backed(evaluation[u][n], RowKey(u, n))'
      <4>1. Backed(s[n], RowKey(u, n)) /\ RowKey(u, n)' = RowKey(u, n)
        BY <1>3, <1>5, <3>1 DEF RowKey
      <4> QED
        BY <3>1, <4>1 DEF Backed, Cached
    <3>3. Backed(reply[u], Prompt[u])'
      BY <1>2, <3>1 DEF RequestSound, Backed, Cached
    <3>4. RequestSound(u)'
      BY <1>2, <1>3, <1>4, <1>10, <3>1, <3>2, <3>3 DEF RequestSound
    <3> QED
      BY <2>2, <3>1, <3>4 DEF Steady
  <2> QED
    BY <2>1, <2>2
<1>17. Disjoint' /\ Bounded'
  <2>1. CASE evaluation[u] # None
    <3>1. evaluation' = evaluation
      BY <1>2, <1>9, <2>1 DEF Types
    <3>2. \A v \in Workers : task'[v].verdicts = task[v].verdicts \/ Recorded(v)'
      BY <1>8, <1>14
    <3>3. \A c \in Callers : ask'[c].usage \subseteq ask[c].usage
      BY <1>1 DEF cacheVars
    <3> QED
      BY <1>1, <3>1, <3>2, <3>3, UsageDropped DEF cacheVars
  <2>2. CASE evaluation[u] = None
    <3> DEFINE row(n) == <<"row", u, n>>
               verdict(n) == <<"verdict", w, n>>
               OfRow(p) == p[1] = "row" /\ p[2] = u
               from == [p \in Places |-> IF OfRow(p) THEN verdict(p[3]) ELSE p]
    <3>1. \A p \in Places : OfRow(p) => p[3] \in Nat /\ p = row(p[3]) /\ verdict(p[3]) \in Places
      <4> SUFFICES ASSUME NEW p \in Places, OfRow(p)
                   PROVE  p[3] \in Nat /\ p = row(p[3]) /\ verdict(p[3]) \in Places
        OBVIOUS
      <4>1. p[3] \in Nat /\ p = row(p[3])
        BY PlaceCases
      <4>2. verdict(p[3]) \in {"verdict"} \X Workers \X Nat
        BY <4>1
      <4> QED
        BY <4>1, <4>2 DEF Places
    <3>2. from \in [Places -> Places]
      BY <3>1
    <3>3. \A n \in Nat : Usage(verdict(n))' = {}
      BY <1>14 DEF Usage
    <3>4. \A n \in Nat : Usage(row(n))' = Usage(verdict(n))
      BY <1>3, <1>4, <1>5, <1>9, <1>10, <1>a, <2>2 DEF Usage
    <3>5. ASSUME NEW p \in Places, ~OfRow(p) PROVE Usage(p)' \subseteq Usage(p)
      <4>1. ASSUME NEW n \in Nat, p = verdict(n) PROVE Usage(p)' \subseteq Usage(p)
        BY <3>3, <4>1
      <4>2. ASSUME NEW v \in Workers, v # w, NEW n \in Nat, p = <<"verdict", v, n>>
            PROVE  Usage(p)' \subseteq Usage(p)
        BY <1>3, <1>8, <4>2 DEF Usage, Recorded
      <4>3. ASSUME NEW v \in Requests, v # u, NEW n \in Nat, p = <<"row", v, n>>
            PROVE  Usage(p)' \subseteq Usage(p)
        <5>1. evaluation'[v] = evaluation[v]
          BY <1>9, <4>3
        <5> QED
          BY <4>3, <5>1 DEF Usage, Profiles
      <4>4. ASSUME p[1] \in {"ask", "reply"} PROVE Usage(p)' \subseteq Usage(p)
        BY <1>1, <4>4 DEF Usage, cacheVars
      <4>5. p[1] = "row" => p[2] # u
        BY <3>5
      <4> QED
        BY <4>1, <4>2, <4>3, <4>4, <4>5, PlaceCases
    <3>6. \A p \in Places : Usage(p)' \subseteq Usage(from[p])
      <4> SUFFICES ASSUME NEW p \in Places PROVE Usage(p)' \subseteq Usage(from[p])
        OBVIOUS
      <4>1. CASE OfRow(p)
        <5>1. PICK n \in Nat : p = row(n) /\ from[p] = verdict(n)
          BY <3>1, <4>1
        <5> QED
          BY <3>4, <5>1
      <4>2. CASE ~OfRow(p)
        BY <3>5, <4>2
      <4> QED
        BY <4>1, <4>2
    <3>7. ASSUME NEW p \in Places, NEW q \in Places, p # q, from[p] = from[q]
          PROVE  Usage(p)' = {} \/ Usage(q)' = {}
      <4>1. CASE OfRow(p) /\ OfRow(q)
        BY <3>1, <3>7, <4>1
      <4>2. CASE OfRow(p) /\ ~OfRow(q)
        <5>1. q = verdict(p[3]) /\ p[3] \in Nat
          BY <3>1, <3>7, <4>2
        <5> QED
          BY <3>3, <5>1
      <4>3. CASE ~OfRow(p) /\ OfRow(q)
        <5>1. p = verdict(q[3]) /\ q[3] \in Nat
          BY <3>1, <3>7, <4>3
        <5> QED
          BY <3>3, <5>1
      <4> QED
        BY <3>7, <4>1, <4>2, <4>3
    <3> HIDE DEF from
    <3>8. \A p, q \in Places : p # q => from[p] # from[q] \/ Usage(p)' = {} \/ Usage(q)' = {}
      BY <3>7
    <3>9. calls' = calls /\ calls \in Nat
      BY <1>1, <1>2 DEF cacheVars, Types
    <3> QED
      BY <3>2, <3>6, <3>8, <3>9, UsagesMove DEF OInv
  <2> QED
    BY <2>1, <2>2
<1> QED
  BY <1>1, <1>8, <1>11, <1>12, <1>13, <1>15, <1>16, <1>17, WorkerStep DEF cacheVars

-----------------------------------------------------------------------------
LEMMA StutterKeeps ==
  ASSUME OInv, UNCHANGED vars
  PROVE  OInv'
<1>1. Types'
  BY DEF OInv, Types, vars, cacheVars, jobVars
<1> QED
  BY <1>1, QueueStep DEF vars, jobVars

LEMMA OInitInv ==
  ASSUME OInit
  PROVE  OInv
<1>1. /\ setup \in Setups /\ calls = 0 /\ metered = {} /\ cache = [k \in {} |-> 0]
      /\ ask = [c \in Callers |-> Quiet]
      /\ request = [u \in Requests |-> IF u \in setup.requests THEN "new" ELSE "never"]
      /\ reply = [u \in Requests |-> NoReply]
      /\ phase = [u \in Requests |-> "absent"] /\ tries = [u \in Requests |-> 0]
      /\ holder = [u \in Requests |-> None]
      /\ task = [w \in Workers |-> NoTask]
      /\ evaluation = [u \in Requests |-> None]
      /\ failures = 0 /\ losses = 0
  BY DEF OInit, CInit, Queue!Init
<1>2. NoReply \in Outcomes /\ NoReply.hit = FALSE /\ NoReply.usage = {}
  BY DEF NoReply, Outcomes
<1>3. Types
  BY <1>1, <1>2, QuietType, NoTaskType, OnlineAssumption DEF Types
<1>4. ASSUME NEW c \in Callers PROVE CallerSound(c)
  <2>1. ask[c] = Quiet
    BY <1>1
  <2> QED
    BY <1>1, <2>1, QuietType DEF CallerSound, Backed
<1>5. \A u \in Requests : RequestSound(u)
  BY <1>1, <1>2, OnlineAssumption DEF RequestSound, Backed
<1>6. \A w \in Workers : TaskSound(w)
  BY <1>1, NoTaskType, QuietType, OnlineAssumption DEF TaskSound
<1>7. ASSUME NEW p \in Places PROVE Usage(p) = {}
  <2>1. ASSUME NEW c \in Callers, p = <<"ask", c, 0>> PROVE Usage(p) = {}
    BY <1>1, <2>1, AskPlace, QuietType
  <2>2. ASSUME NEW u \in Requests, p = <<"reply", u, 0>> PROVE Usage(p) = {}
    BY <1>1, <1>2, <2>2 DEF Usage
  <2>3. ASSUME NEW w \in Workers, NEW n \in Nat, p = <<"verdict", w, n>> PROVE Usage(p) = {}
    <3>1. task[w].verdicts = <<>> /\ DOMAIN task[w].verdicts = {}
      BY <1>1, NoTaskType, EmptySeq
    <3> QED
      BY <2>3, <3>1 DEF Usage
  <2>4. ASSUME NEW u \in Requests, NEW n \in Nat, p = <<"row", u, n>> PROVE Usage(p) = {}
    BY <1>1, <2>4 DEF Usage
  <2> QED
    BY <2>1, <2>2, <2>3, <2>4, PlaceCases
<1>8. Disjoint /\ Bounded
  BY <1>7 DEF Disjoint, Bounded
<1> QED
  BY <1>3, <1>4, <1>5, <1>6, <1>8 DEF OInv

LEMMA ONextInv ==
  ASSUME OInv, [ONext]_vars
  PROVE  OInv'
<1>1. CASE UNCHANGED vars
  BY <1>1, StutterKeeps
<1>2. ASSUME NEW u \in Requests, Request(u), setup' = setup PROVE OInv'
  <2>1. u \in Callers
    BY OnlineAssumption
  <2> QED
    BY <1>2, <2>1, ArrivesKeeps, ServesKeeps, GeneratedKeeps, SamplesKeeps DEF Request
<1>3. ASSUME NEW w \in Workers, Work(w), setup' = setup PROVE OInv'
  <2>1. w \in Callers
    BY OnlineAssumption
  <2> QED
    BY <1>3, <2>1, TakesKeeps, JudgesKeeps, ServesKeeps, JudgedKeeps, RecordsKeeps,
       ReturnsKeeps, RaisesKeeps
    DEF Work
<1>4. ASSUME NEW w \in Workers, LosesLease(w) \/ Dies(w), setup' = setup PROVE OInv'
  BY <1>4, LosesLeaseKeeps, DiesKeeps
<1>5. CASE Sweeps /\ setup' = setup
  BY <1>5, SweepsKeeps
<1>6. CASE PollsInVain
  BY <1>6, StutterKeeps DEF PollsInVain
<1> QED
  BY <1>1, <1>2, <1>3, <1>4, <1>5, <1>6 DEF ONext

LEMMA OnlineInvariant == OSpec => []OInv
BY OInitInv, ONextInv, PTL DEF OSpec

-----------------------------------------------------------------------------
(* Types of what is cached, asked, queued and stored, for any requests,    *)
(* workers and profiles.                                                   *)
THEOREM OnlineTypeCorrect == OSpec => []OTypeOK
<1>1. ASSUME OInv PROVE OTypeOK
  <2>1. Types /\ \A c \in Callers : CallerSound(c)
    BY <1>1 DEF OInv
  <2>2. ASSUME NEW c \in Callers
        PROVE  /\ ask[c].pc \in {"quiet", "first", "second", "store", "answered", "failed",
                                 "raised"}
               /\ ask[c].response \in 0..calls
               /\ (ask[c].usage \cup ask[c].made) \subseteq 1..calls
               /\ ask[c].hit \in BOOLEAN
    <3>1. ask[c] \in Locals /\ CallerSound(c) /\ calls \in Nat
      BY <2>1 DEF Types
    <3> QED
      BY <3>1 DEF CallerSound, Locals, Points
  <2>3. CTypeOK
    BY <2>1, <2>2 DEF Types, CTypeOK
  <2>4. \A w \in Workers : task[w].trace \in Requests \cup {None}
    BY <2>1 DEF Types, Tasks
  <2> QED
    BY <2>1, <2>3, <2>4 DEF Types, OTypeOK
<1> QED
  BY <1>1, OnlineInvariant, PTL

(* Nobody is ever given one response from the cache and somebody else      *)
(* another, however their requests overlap (CachingGenerator and           *)
(* CachingJudge with INSERT ... ON CONFLICT DO NOTHING).                   *)
THEOREM HitsAlwaysAgree == OSpec => []HitsAgree
<1>1. ASSUME OInv PROVE HitsAgree
  <2>1. ASSUME NEW k \in DOMAIN cache PROVE Given(k) \subseteq {cache[k]}
    <3>1. ASSUME NEW u \in Requests, reply[u].hit, Prompt[u] = k
          PROVE  reply[u].response = cache[k]
      BY <1>1, <3>1 DEF OInv, RequestSound, Backed
    <3>2. ASSUME NEW c \in Callers, ask[c].hit, ask[c].key = k
          PROVE  ask[c].response = cache[k]
      BY <1>1, <3>2 DEF OInv, CallerSound, Backed
    <3> QED
      BY <3>1, <3>2 DEF Given
  <2>2. ASSUME NEW u \in Rows, NEW n \in DOMAIN Profiles, evaluation[u][n].hit
        PROVE  evaluation[u][n].response = cache[RowKey(u, n)]
    <3>1. Backed(evaluation[u][n], RowKey(u, n))
      BY <1>1 DEF OInv, RequestSound, Rows
    <3> QED
      BY <2>2, <3>1 DEF Backed
  <2> QED
    BY <2>1, <2>2 DEF HitsAgree
<1> QED
  BY <1>1, OnlineInvariant, PTL

(* No call of the provider is reported twice, in whatever answers and      *)
(* verdicts are given or stored, and an answer reports every call made for *)
(* it whose usage was seen (_combined_usage, _usage of judging.py).        *)
THEOREM SpendIsCountedOnce == OSpec => []SpendCountedOnce
<1>1. ASSUME OInv PROVE SpendCountedOnce
  <2>1. \A c \in Callers : Answered(c) => ask[c].usage = ask[c].made \cap metered
    BY <1>1 DEF OInv, CallerSound
  <2> DEFINE Where(x, p) ==
        \/ \E u \in Requests : p = <<"reply", u, 0>> /\ x = <<Usage(p), u>>
        \/ \E u \in Requests, n \in Nat : p = <<"row", u, n>> /\ x = <<Usage(p), <<u, n>>>>
  <2>2. ASSUME NEW x \in Reported PROVE \E p \in Places : Where(x, p)
    <3>1. CASE \E u \in Requests : x = <<reply[u].usage, u>>
      <4>1. PICK u \in Requests : x = <<reply[u].usage, u>>
        BY <3>1
      <4>2. <<"reply", u, 0>> \in Places /\ Usage(<<"reply", u, 0>>) = reply[u].usage
        BY DEF Places, Usage
      <4> QED
        BY <4>1, <4>2
    <3>2. CASE \E u \in Rows, n \in DOMAIN Profiles : x = <<evaluation[u][n].usage, <<u, n>>>>
      <4>1. PICK u \in Rows, n \in DOMAIN Profiles : x = <<evaluation[u][n].usage, <<u, n>>>>
        BY <3>2
      <4>2. u \in Requests /\ n \in Nat
        BY <1>1, ProfilesType DEF Rows, OInv, Types
      <4>3. <<"row", u, n>> \in Places /\ Usage(<<"row", u, n>>) = evaluation[u][n].usage
        BY <4>2 DEF Places, Usage, Rows
      <4> QED
        BY <4>1, <4>2, <4>3
    <3> QED
      BY <3>1, <3>2 DEF Reported
  <2>3. ASSUME NEW x \in Reported, NEW y \in Reported, x # y
        PROVE  x[1] \cap y[1] = {}
    <3>1. PICK p \in Places : Where(x, p)
      BY <2>2
    <3>2. PICK q \in Places : Where(y, q)
      BY <2>2
    <3>3. x[1] = Usage(p) /\ y[1] = Usage(q)
      BY <3>1, <3>2
    <3>4. p # q
      BY <2>3, <3>1, <3>2
    <3> QED
      BY <1>1, <3>3, <3>4 DEF OInv, Disjoint
  <2> QED
    BY <2>1, <2>3 DEF SpendCountedOnce
<1> QED
  BY <1>1, OnlineInvariant, PTL

(* A judge job that is done has left a verdict of every profile, whoever   *)
(* lost it before and whoever returned from it in the end                  *)
(* (build_online_judge_handler).                                           *)
THEOREM DoneMeansEvaluated == OSpec => []DoneIsEvaluated
<1>1. OInv => DoneIsEvaluated
  BY DEF OInv, RequestSound, DoneIsEvaluated
<1> QED
  BY <1>1, OnlineInvariant, PTL

-----------------------------------------------------------------------------
(* Attempts.  What has ended one, or is going to, is a failure or a loss;  *)
(* a worker whose judge has failed has spent its attempt before it raises. *)
Spent == failures + losses
Doomed(w) == ask[w].pc \in {"second", "failed", "raised"}
Good(u) == holder[u] # None \/ phase[u] = "done"

Accounted(u) ==
  /\ holder[u] # None => phase[u] = "held"
  /\ tries[u] <= Spent + (IF Good(u) THEN 1 ELSE 0)
  /\ \A w \in Workers : holder[u] = w /\ Doomed(w) => tries[u] <= Spent

LEMMA SpentType ==
  ASSUME Types
  PROVE  failures \in Nat /\ losses \in Nat /\ Spent \in Nat /\ \A u \in Requests : tries[u] \in Nat
BY OnlineAssumption DEF Types, Spent

(* a step that leaves the job of u alone, and dooms nobody for nothing *)
LEMMA AccountStays ==
  ASSUME Types, Types', NEW u \in Requests, Accounted(u),
         UNCHANGED <<phase[u], tries[u], holder[u]>>, Spent <= Spent',
         \A w \in Workers : Doomed(w)' => Doomed(w) \/ Spent < Spent'
  PROVE  Accounted(u)'
<1>1. Spent \in Nat /\ Spent' \in Nat /\ tries[u] \in Nat
  BY SpentType DEF Types, Spent
<1>2. tries[u] <= Spent + 1
  BY <1>1 DEF Accounted
<1>3. tries'[u] <= Spent' + (IF Good(u)' THEN 1 ELSE 0)
  BY <1>1 DEF Accounted, Good
<1>4. ASSUME NEW w \in Workers, holder'[u] = w, Doomed(w)' PROVE tries'[u] <= Spent'
  <2>1. CASE Doomed(w)
    BY <1>1, <1>4, <2>1 DEF Accounted
  <2>2. CASE Spent < Spent'
    BY <1>1, <1>2, <2>2
  <2> QED
    BY <1>4, <2>1, <2>2
<1> QED
  BY <1>3, <1>4 DEF Accounted

(* A caller at work is doomed by a failure. *)
LEMMA ServesSpends ==
  ASSUME OInv, OInv', NEW c \in Callers, Serves(c)
  PROVE  /\ UNCHANGED jobVars /\ Spent <= Spent'
         /\ \A w \in Workers : Doomed(w)' => Doomed(w) \/ Spent < Spent'
<1>1. UNCHANGED <<jobVars, losses>> /\ Types /\ failures \in Nat /\ losses \in Nat
  BY SpentType DEF Serves, OInv
<1>2. CASE Failing
  BY <1>1, <1>2 DEF Failing, Spent
<1>3. CASE ask[c].pc = "second" /\ UNCHANGED failures
  <2>1. \A d \in Callers \ {c} : ask'[d] = ask[d]
    <3>1. CASE StoreFails(c)
      BY <1>1, <3>1 DEF StoreFails, Breaks, Types
    <3>2. ASSUME NEW r \in Responses, Calls(c, r) PROVE \A d \in Callers \ {c} : ask'[d] = ask[d]
      BY <1>1, <3>2 DEF Calls, Types
    <3> QED
      BY <1>3, <3>1, <3>2 DEF Serves, Stores, Responses
  <2>2. ASSUME NEW w \in Workers, Doomed(w)' PROVE Doomed(w)
    BY <1>3, <2>1, <2>2, OnlineAssumption DEF Doomed
  <2> QED
    BY <1>1, <1>3, <2>2 DEF Spent
<1>4. CASE (Stores(c) \/ Calls(c, "parsed")) /\ UNCHANGED failures
  <2>1. (\A d \in Callers \ {c} : ask'[d] = ask[d]) /\ ask[c] \in Locals
    BY <1>1, <1>4 DEF Stores, Calls, Types
  <2>2. ask'[c].pc \in {"answered", "store"}
    <3>1. CASE Stores(c)
      BY <1>1, <2>1, <3>1 DEF Stores, Types, Locals
    <3>2. CASE Calls(c, "parsed")
      <4>1. ask'[c] = [ask[c] EXCEPT !.pc = "store", !.response = calls',
                                     !.usage = CombinedUsage(c, "parsed", calls'),
                                     !.made = ask[c].made \cup {calls'}]
        BY <1>1, <3>2 DEF Calls, Types
      <4> QED
        BY <2>1, <4>1 DEF Locals
    <3> QED
      BY <1>4, <3>1, <3>2
  <2>3. ASSUME NEW w \in Workers, Doomed(w)' PROVE Doomed(w)
    BY <2>1, <2>2, <2>3, OnlineAssumption DEF Doomed
  <2> QED
    BY <1>1, <1>4, <2>3 DEF Spent
<1> QED
  BY <1>2, <1>3, <1>4 DEF Serves

LEMMA LooksSpends ==
  ASSUME OInv, OInv', NEW c \in Callers, NEW k \in Keys, Looks(c, k), UNCHANGED losses
  PROVE  /\ Spent <= Spent'
         /\ \A w \in Workers : Doomed(w)' => Doomed(w) \/ Spent < Spent'
<1>1. failures \in Nat /\ losses \in Nat
  BY SpentType DEF OInv
<1>2. CASE Failing
  BY <1>1, <1>2 DEF Failing, Spent
<1>3. CASE Asks(c, k) /\ UNCHANGED failures
  <2>1. (\A d \in Callers \ {c} : ask'[d] = ask[d]) /\ ask'[c].pc \in {"answered", "first"}
    BY <1>3, AskAsks
  <2>2. ASSUME NEW w \in Workers, Doomed(w)' PROVE Doomed(w)
    BY <2>1, <2>2, OnlineAssumption DEF Doomed
  <2> QED
    BY <1>1, <1>3, <2>2 DEF Spent
<1> QED
  BY <1>2, <1>3 DEF Looks

(* A worker that forgets what it asked is not doomed. *)
LEMMA ForgetsDoomsNobody ==
  ASSUME OInv, NEW c \in Callers, Forgets(c), NEW w \in Workers, Doomed(w)'
  PROVE  Doomed(w)
<1>1. ask'[c] = Quiet /\ \A d \in Callers \ {c} : ask'[d] = ask[d]
  BY AskForgets
<1> QED
  BY <1>1, QuietType, OnlineAssumption DEF Doomed

(* The job of one trace changes: the others stay as they are. *)
LEMMA LeavesAccounts ==
  ASSUME OInv, OInv', \A v \in Requests : Accounted(v), NEW w \in Workers, Busy(w),
         Spent <= Spent', \A v \in Workers : Doomed(v)' => Doomed(v),
         \/ Queue!Finish(task[w].trace) \/ UNCHANGED jobVars
         \/ Queue!GiveUp(task[w].trace) /\ (tries[task[w].trace] <= Spent \/ Spent < Spent')
         \/ Queue!Lose(task[w].trace) /\ Spent < Spent'
  PROVE  \A v \in Requests : Accounted(v)'
<1>1. PICK u \in Requests : u = task[w].trace
  BY TaskType
<1>2. Types /\ Types' /\ Spent \in Nat /\ Spent' \in Nat /\ tries[u] \in Nat
      /\ tries \in [Requests -> 0..MaxAttempts]
      /\ phase \in [Requests -> {"absent", "waiting", "held", "done", "buried"}]
      /\ holder \in [Requests -> Workers \cup {None}] /\ None \notin Workers
  <2>1. Types /\ Types'
    BY DEF OInv
  <2>2. Spent \in Nat /\ Spent' \in Nat
    BY <2>1, OnlineAssumption DEF Types, Spent
  <2>3. None \notin Workers
    BY OnlineAssumption
  <2> QED
    BY <2>1, <2>2, <2>3, SpentType DEF Types
<1>3. Queue!Finish(u) \/ Queue!GiveUp(u) \/ Queue!Lose(u) \/ UNCHANGED jobVars
  BY <1>1
<1>4. ASSUME NEW v \in Requests, v # u PROVE Accounted(v)'
  <2>1. UNCHANGED <<phase[v], tries[v], holder[v]>>
    BY <1>2, <1>3, <1>4 DEF Queue!Finish, Queue!GiveUp, Queue!Lose, jobVars
  <2> QED
    BY <1>2, <2>1, AccountStays
<1>5. Accounted(u)'
  <2>1. CASE UNCHANGED jobVars
    BY <1>2, <2>1, AccountStays DEF jobVars
  <2>2. ASSUME holder[u] # None, holder'[u] = None, tries'[u] = tries[u],
               phase'[u] = "done" \/ tries[u] <= Spent'
        PROVE  Accounted(u)'
    <3>1. tries[u] <= Spent + 1
      BY <1>2 DEF Accounted
    <3>2. tries[u] <= Spent' + 1 /\ \A v \in Workers : holder'[u] # v
      BY <1>2, <2>2, <3>1
    <3> QED
      BY <1>2, <2>2, <3>2 DEF Accounted, Good
  <2>3. CASE Queue!Finish(u)
    BY <1>2, <2>2, <2>3 DEF Queue!Finish
  <2>4. CASE Queue!GiveUp(u) /\ (tries[u] <= Spent \/ Spent < Spent')
    <3>1. tries[u] <= Spent'
      BY <1>2, <2>4 DEF Accounted
    <3> QED
      BY <1>2, <2>2, <2>4, <3>1 DEF Queue!GiveUp
  <2>5. CASE Queue!Lose(u) /\ Spent < Spent'
    <3>1. tries[u] <= Spent'
      BY <1>2, <2>5 DEF Accounted
    <3> QED
      BY <1>2, <2>2, <2>5, <3>1 DEF Queue!Lose
  <2> QED
    BY <1>1, <2>1, <2>3, <2>4, <2>5
<1> QED
  BY <1>4, <1>5

LEMMA RequestAccounts ==
  ASSUME OInv, OInv', \A v \in Requests : Accounted(v), NEW u \in Requests, Request(u)
  PROVE  \A v \in Requests : Accounted(v)'
<1>1. Types /\ Types' /\ failures \in Nat /\ losses \in Nat /\ u \in Callers
  BY SpentType, OnlineAssumption DEF OInv
<1>2. ASSUME UNCHANGED jobVars, Spent <= Spent',
             \A w \in Workers : Doomed(w)' => Doomed(w) \/ Spent < Spent'
      PROVE  \A v \in Requests : Accounted(v)'
  BY <1>1, <1>2, AccountStays DEF jobVars
<1>3. CASE Arrives(u)
  <2>1. Looks(u, Prompt[u]) /\ Prompt[u] \in Keys /\ UNCHANGED <<jobVars, losses>>
    BY <1>3 DEF Arrives, Keys
  <2> QED
    BY <1>1, <1>2, <2>1, LooksSpends
<1>4. CASE Serves(u)
  BY <1>1, <1>2, <1>4, ServesSpends
<1>5. CASE Generated(u)
  <2>1. Forgets(u) /\ UNCHANGED <<jobVars, failures, losses>>
    BY <1>5 DEF Generated
  <2> QED
    BY <1>1, <1>2, <2>1, ForgetsDoomsNobody DEF Spent
<1>6. CASE Samples(u)
  <2>1. \A w \in Workers : Doomed(w)' => Doomed(w)
    BY <1>6 DEF Samples, cacheVars, Doomed
  <2>2. Spent <= Spent'
    BY <1>1, <1>6 DEF Samples, Failing, Spent
  <2>3. CASE UNCHANGED jobVars
    BY <1>2, <2>1, <2>2, <2>3
  <2>4. CASE Queue!Submit(u)
    <3>1. phase[u] = "absent" /\ phase'[u] = "waiting" /\ UNCHANGED <<tries, holder>>
          /\ \A v \in Requests \ {u} : phase'[v] = phase[v]
      BY <1>1, <2>4 DEF Queue!Submit, Types
    <3>2. ASSUME NEW v \in Requests, v # u PROVE Accounted(v)'
      BY <1>1, <2>1, <2>2, <3>1, <3>2, AccountStays
    <3>3. holder[u] = None /\ tries[u] <= Spent
      BY <1>1, <3>1, SpentType DEF Accounted, Good
    <3>4. Accounted(u)'
      <4>1. Spent \in Nat /\ Spent' \in Nat /\ tries[u] \in Nat /\ None \notin Workers
        BY <1>1, SpentType, OnlineAssumption DEF Types, Spent
      <4> QED
        BY <2>2, <3>1, <3>3, <4>1 DEF Accounted, Good
    <3> QED
      BY <3>2, <3>4
  <2> QED
    BY <1>6, <2>3, <2>4 DEF Samples
<1> QED
  BY <1>3, <1>4, <1>5, <1>6 DEF Request

LEMMA TakesAccounts ==
  ASSUME OInv, OInv', \A v \in Requests : Accounted(v),
         NEW w \in Workers, NEW u \in Requests, Takes(w, u)
  PROVE  \A v \in Requests : Accounted(v)'
<1>1. ~Busy(w) /\ Queue!HandOut(w, u, {}) /\ UNCHANGED <<cacheVars, failures, losses>>
  BY DEF Takes
<1>2. Types /\ Types' /\ TaskSound(w) /\ Spent \in Nat /\ tries[u] \in Nat /\ None \notin Workers
  BY SpentType, OnlineAssumption DEF OInv
<1>3. ~Doomed(w) /\ Spent' = Spent /\ \A v \in Workers : Doomed(v)' = Doomed(v)
  BY <1>1, <1>2 DEF Busy, TaskSound, Doomed, Spent, cacheVars
<1>4. /\ phase[u] = "waiting" \/ (phase[u] = "held" /\ holder[u] = None)
      /\ phase'[u] = "held" /\ tries'[u] = tries[u] + 1 /\ holder'[u] = w
      /\ \A v \in Requests \ {u} : UNCHANGED <<phase[v], tries[v], holder[v]>>
  BY <1>1, <1>2 DEF Queue!HandOut, Queue!Abandoned, Types
<1>5. ASSUME NEW v \in Requests, v # u PROVE Accounted(v)'
  BY <1>2, <1>3, <1>4, <1>5, AccountStays
<1>6. tries[u] <= Spent
  BY <1>2, <1>4 DEF Accounted, Good
<1>7. Accounted(u)'
  BY <1>2, <1>3, <1>4, <1>6 DEF Accounted, Good
<1> QED
  BY <1>5, <1>7

LEMMA WorkAccounts ==
  ASSUME OInv, OInv', \A v \in Requests : Accounted(v), NEW w \in Workers, Work(w)
  PROVE  \A v \in Requests : Accounted(v)'
<1>1. Types /\ Types' /\ failures \in Nat /\ losses \in Nat /\ w \in Callers
  BY SpentType, OnlineAssumption DEF OInv
<1>2. ASSUME UNCHANGED jobVars, Spent <= Spent',
             \A v \in Workers : Doomed(v)' => Doomed(v) \/ Spent < Spent'
      PROVE  \A v \in Requests : Accounted(v)'
  BY <1>1, <1>2, AccountStays DEF jobVars
<1>3. CASE \E u \in Requests : Takes(w, u)
  BY <1>3, TakesAccounts
<1>4. CASE Judges(w)
  <2>1. Looks(w, JudgeKey(w)) /\ UNCHANGED <<jobVars, losses>> /\ Busy(w)
    BY <1>4 DEF Judges
  <2>2. Len(task[w].verdicts) < Len(Profiles)
    BY <1>4, <2>1, TaskType DEF Judges, Next1
  <2>3. JudgeKey(w) \in Keys
    BY <1>1, <2>1, <2>2, JudgeKeyType
  <2> QED
    BY <1>1, <1>2, <2>1, <2>3, LooksSpends
<1>5. CASE Serves(w)
  BY <1>1, <1>2, <1>5, ServesSpends
<1>6. CASE Judged(w)
  <2>1. Forgets(w) /\ UNCHANGED <<jobVars, failures, losses>>
    BY <1>6 DEF Judged
  <2> QED
    BY <1>1, <1>2, <2>1, ForgetsDoomsNobody DEF Spent
<1>7. CASE Records(w)
  <2>1. UNCHANGED <<ask, jobVars, failures, losses>>
    BY <1>7 DEF Records, cacheVars
  <2> QED
    BY <1>1, <1>2, <2>1 DEF Spent, Doomed
<1>8. CASE Returns(w)
  <2>1. Busy(w) /\ UNCHANGED <<ask, failures, losses>>
        /\ (Queue!Finish(task[w].trace) \/ UNCHANGED jobVars)
    BY <1>8 DEF Returns, cacheVars
  <2> QED
    BY <1>1, <2>1, LeavesAccounts DEF Spent, Doomed
<1>9. CASE Raises(w)
  <2>1. Busy(w) /\ Forgets(w) /\ UNCHANGED losses
        /\ ((Queue!GiveUp(task[w].trace) /\ Holds(w)) \/ UNCHANGED jobVars)
    BY <1>9 DEF Raises, AllJudged
  <2>2. task[w].trace \in Requests
    BY <2>1, TaskType
  <2>3. CASE ask[w].pc \in {"failed", "raised"} /\ UNCHANGED failures
    <3>1. Doomed(w) /\ Spent' = Spent /\ Spent \in Nat
      BY <1>1, <2>1, <2>3 DEF Doomed, Spent
    <3>2. Holds(w) => tries[task[w].trace] <= Spent
      BY <2>2, <3>1 DEF Holds, Accounted
    <3> QED
      BY <2>1, <1>1, <3>1, <3>2, ForgetsDoomsNobody, LeavesAccounts
  <2>4. CASE Failing
    <3>1. Spent < Spent' /\ Spent <= Spent'
      BY <1>1, <2>1, <2>4 DEF Failing, Spent
    <3> QED
      BY <2>1, <1>1, <3>1, ForgetsDoomsNobody, LeavesAccounts
  <2> QED
    BY <1>9, <2>3, <2>4 DEF Raises
<1> QED
  BY <1>3, <1>4, <1>5, <1>6, <1>7, <1>8, <1>9 DEF Work

LEMMA LossAccounts ==
  ASSUME OInv, OInv', \A v \in Requests : Accounted(v), NEW w \in Workers, LosesLease(w) \/ Dies(w)
  PROVE  \A v \in Requests : Accounted(v)'
<1>1. failures \in Nat /\ losses \in Nat /\ w \in Callers
  BY SpentType, OnlineAssumption DEF OInv
<1>2. Busy(w) /\ UNCHANGED failures /\ losses' = losses + 1
      /\ (Queue!Lose(task[w].trace) \/ UNCHANGED jobVars)
  BY DEF LosesLease, Dies
<1>3. Spent < Spent' /\ Spent <= Spent'
  BY <1>1, <1>2 DEF Spent
<1>4. ASSUME NEW v \in Workers, Doomed(v)' PROVE Doomed(v)
  <2>1. CASE LosesLease(w)
    BY <1>4, <2>1 DEF LosesLease, cacheVars, Doomed
  <2>2. CASE Dies(w)
    <3>1. Forgets(w)
      BY <2>2 DEF Dies
    <3> QED
      BY <1>1, <1>4, <3>1, ForgetsDoomsNobody
  <2> QED
    BY <2>1, <2>2
<1> QED
  BY <1>2, <1>3, <1>4, LeavesAccounts

LEMMA SweepsAccounts ==
  ASSUME OInv, OInv', \A v \in Requests : Accounted(v), Sweeps
  PROVE  \A v \in Requests : Accounted(v)'
<1> DEFINE B == {u \in Requests : Queue!Abandoned(u) /\ tries[u] = MaxAttempts}
<1>1. /\ phase' = [u \in Requests |-> IF u \in B THEN "buried" ELSE phase[u]]
      /\ UNCHANGED <<tries, holder, ask, failures, losses>>
  BY DEF Sweeps, Queue!Bury, cacheVars
<1>2. \A u \in B : phase[u] = "held" /\ holder[u] = None
  BY DEF Queue!Abandoned
<1> HIDE DEF B
<1>3. Types /\ Types' /\ Spent \in Nat /\ Spent' = Spent /\ None \notin Workers
      /\ \A w \in Workers : Doomed(w)' = Doomed(w)
  BY <1>1, SpentType, OnlineAssumption DEF OInv, Spent, Doomed
<1>4. ASSUME NEW v \in Requests, v \notin B PROVE Accounted(v)'
  <2>1. UNCHANGED <<phase[v], tries[v], holder[v]>>
    BY <1>1, <1>4
  <2> QED
    BY <1>3, <2>1, AccountStays
<1>5. ASSUME NEW v \in Requests, v \in B PROVE Accounted(v)'
  <2>1. holder[v] = None /\ phase[v] = "held" /\ phase'[v] = "buried" /\ tries[v] \in Nat
    BY <1>1, <1>2, <1>3, <1>5, SpentType
  <2>2. tries[v] <= Spent
    BY <1>3, <2>1 DEF Accounted, Good
  <2> QED
    BY <1>1, <1>3, <2>1, <2>2 DEF Accounted, Good
<1> QED
  BY <1>4, <1>5

(* A sample is attempted no more often than things went wrong, but for the *)
(* attempt under way or the one that ended well: whatever its job was      *)
(* redelivered for, verdicts that are cached and a row that is stored      *)
(* already (ON CONFLICT DO NOTHING of build_online_judge_handler) use up   *)
(* no attempt.                                                             *)
THEOREM AttemptsAccountedFor == OSpec => []AttemptsAreAccountedFor
<1> DEFINE AInv == OInv /\ \A u \in Requests : Accounted(u)
<1>1. OInit => AInv
  <2> SUFFICES ASSUME OInit PROVE AInv
    OBVIOUS
  <2>1. holder = [u \in Requests |-> None] /\ tries = [u \in Requests |-> 0]
        /\ phase = [u \in Requests |-> "absent"] /\ failures = 0 /\ losses = 0
    BY DEF OInit, Queue!Init
  <2>2. \A u \in Requests : Accounted(u)
    BY <2>1, OnlineAssumption DEF Accounted, Good, Spent
  <2> QED
    BY <2>2, OInitInv
<1>2. AInv /\ [ONext]_vars => AInv'
  <2> SUFFICES ASSUME AInv, [ONext]_vars PROVE AInv'
    OBVIOUS
  <2>1. OInv /\ OInv' /\ Types /\ Types'
    BY ONextInv DEF OInv
  <2>2. CASE UNCHANGED vars
    <3>1. UNCHANGED <<ask, phase, tries, holder, failures, losses>>
      BY <2>2 DEF vars, cacheVars, jobVars
    <3>2. Spent' = Spent /\ Spent \in Nat /\ \A w \in Workers : Doomed(w)' = Doomed(w)
      BY <2>1, <3>1, SpentType DEF Spent, Doomed
    <3> QED
      BY <2>1, <3>1, <3>2, AccountStays
  <2>3. ASSUME NEW u \in Requests, Request(u) PROVE AInv'
    BY <2>1, <2>3, RequestAccounts
  <2>4. ASSUME NEW w \in Workers, Work(w) PROVE AInv'
    BY <2>1, <2>4, WorkAccounts
  <2>5. ASSUME NEW w \in Workers, LosesLease(w) \/ Dies(w) PROVE AInv'
    BY <2>1, <2>5, LossAccounts
  <2>6. CASE Sweeps
    BY <2>1, <2>6, SweepsAccounts
  <2> QED
    BY <2>2, <2>3, <2>4, <2>5, <2>6 DEF ONext, PollsInVain
<1>3. AInv => AttemptsAreAccountedFor
  BY DEF Accounted, Good, Spent, AttemptsAreAccountedFor
<1> QED
  BY <1>1, <1>2, <1>3, PTL DEF OSpec
=============================================================================

---------------------------- MODULE ResponseCache ----------------------------
(***************************************************************************)
(* A generator or a judge as the services see it: a cache in front of one  *)
(* repair attempt in front of the provider                                 *)
(* (CachingGenerator(RepairingGenerator(OpenAIGenerator)) and the same     *)
(* three for judges).  A response is known by the number of the provider   *)
(* call that returned it, and a usage by the calls whose tokens it counts: *)
(* costs and tokens are sums over them.                                    *)
(*                                                                         *)
(* Looking the key up, calling the provider and storing the result are     *)
(* separate steps and nothing holds a key meanwhile, so callers of one     *)
(* prompt overlap.                                                         *)
(***************************************************************************)
EXTENDS Naturals

CONSTANT
  Callers   \* tasks that ask: requests of the API, handlers of the workers

VARIABLES
  cache,    \* the response stored under each key there is a row for
  calls,    \* how often the provider was called
  metered,  \* the calls whose usage the program got to see
  ask       \* the locals of each caller

cacheVars == <<cache, calls, metered, ask>>

Cached(k) == k \in DOMAIN cache

(* What a call of the provider may come to.  A response that does not fit  *)
(* the schema counts its tokens when it was received in full ("unfit") and *)
(* none when the client raises while parsing it ("garbled"); a timeout or  *)
(* a connection that fails leaves no usage either.                         *)
Responses == {"parsed", "unfit", "garbled", "refused", "unreachable"}
Metered(r) == r \in {"parsed", "unfit", "refused"}
SchemaError(r) == r \in {"unfit", "garbled"}

Quiet == [pc |-> "quiet", key |-> <<>>, response |-> 0, usage |-> {}, made |-> {},
          hit |-> FALSE]

CInit ==
  /\ cache = [k \in {} |-> 0]
  /\ calls = 0
  /\ metered = {}
  /\ ask = [c \in Callers |-> Quiet]

Answered(c) == ask[c].pc \in {"answered", "failed"}

(* Mutant: a hit reports the usage stored with the response. *)
AsksCountsAgain(c, k) ==
  /\ ask' = [ask EXCEPT ![c] =
       IF Cached(k)
       THEN [Quiet EXCEPT !.pc = "answered", !.key = k, !.response = cache[k], !.hit = TRUE,
                          !.usage = {cache[k]}]
       ELSE [Quiet EXCEPT !.pc = "first", !.key = k]]
  /\ UNCHANGED <<cache, calls, metered>>

(* CachingGenerator.generate, CachingJudge.judge: a hit costs nothing *)
Asks(c, k) ==
  /\ ask' = [ask EXCEPT ![c] =
       IF Cached(k)
       THEN [Quiet EXCEPT !.pc = "answered", !.key = k, !.response = cache[k], !.hit = TRUE]
       ELSE [Quiet EXCEPT !.pc = "first", !.key = k]]
  /\ UNCHANGED <<cache, calls, metered>>

(* Mutant: a repair that fails too is raised with its own usage only. *)
UsageOfLast(c, r, n) ==
  (IF r = "parsed" \/ ask[c].pc = "first" THEN ask[c].usage ELSE {})
    \cup (IF Metered(r) THEN {n} ELSE {})

(* _combined_usage *)
CombinedUsage(c, r, n) == ask[c].usage \cup (IF Metered(r) THEN {n} ELSE {})

(* OpenAIGenerator.generate or OpenAIJudge.judge returns or raises; the    *)
(* first schema error is repaired, any other error is final                *)
Calls(c, r) ==
  /\ ask[c].pc \in {"first", "second"}
  /\ calls' = calls + 1
  /\ metered' = IF Metered(r) THEN metered \cup {calls'} ELSE metered
  /\ ask' = [ask EXCEPT ![c] =
       [ask[c] EXCEPT !.pc = IF r = "parsed" THEN "store"
                             ELSE IF SchemaError(r) /\ ask[c].pc = "first" THEN "second"
                             ELSE "failed",
                      !.response = IF r = "parsed" THEN calls' ELSE 0,
                      !.usage = CombinedUsage(c, r, calls'),
                      !.made = ask[c].made \cup {calls'}]]
  /\ UNCHANGED cache

(* Mutant: a later response replaces the one that is stored. *)
KeptLast(k, n) == n

(* INSERT ... ON CONFLICT DO NOTHING: who comes second keeps its own       *)
(* response, and the cache the first                                       *)
Kept(k, n) == IF Cached(k) THEN cache[k] ELSE n

Stores(c) ==
  /\ ask[c].pc = "store"
  /\ LET key == ask[c].key IN
     cache' = [k \in DOMAIN cache \cup {key} |->
                 IF k = key THEN Kept(k, ask[c].response) ELSE cache[k]]
  /\ ask' = [ask EXCEPT ![c].pc = "answered"]
  /\ UNCHANGED <<calls, metered>>

(* an error that is no GenerationFailure: nobody adds up its usage *)
Breaks(c) ==
  /\ ask' = [ask EXCEPT ![c] = [Quiet EXCEPT !.pc = "raised"]]
  /\ UNCHANGED <<cache, calls, metered>>

(* A call, the first or its repair, raises such an error, or the database  *)
(* fails under put: what was paid for so far is lost.                      *)
StoreFails(c) == ask[c].pc \in {"first", "second", "store"} /\ Breaks(c)

(* the caller has taken what it was given, or is gone *)
Forgets(c) ==
  /\ ask' = [ask EXCEPT ![c] = Quiet]
  /\ UNCHANGED <<cache, calls, metered>>

-----------------------------------------------------------------------------
CTypeOK ==
  /\ \A k \in DOMAIN cache : cache[k] \in 1..calls
  /\ calls \in Nat
  /\ metered \subseteq 1..calls
  /\ \A c \in Callers :
       /\ ask[c].pc \in {"quiet", "first", "second", "store", "answered", "failed",
                         "raised"}
       /\ ask[c].response \in 0..calls
       /\ (ask[c].usage \cup ask[c].made) \subseteq 1..calls
       /\ ask[c].hit \in BOOLEAN
=============================================================================

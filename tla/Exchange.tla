------------------------------ MODULE Exchange ------------------------------
(***************************************************************************)
(* Exchange rates (internal/exchange): rates of two public providers are   *)
(* cached, refreshed when they are older than the company's interval, and  *)
(* handed to documents.                                                    *)
(*                                                                         *)
(* A refresh is several statements without a transaction around them: the  *)
(* settings are read, the attempt is claimed, a provider is asked, and     *)
(* what it published is stored.  Documents, the worker and the settings    *)
(* page run it side by side.  Time is counted in steps of the minute that  *)
(* keeps a claim from being taken over.                                    *)
(***************************************************************************)
EXTENDS Integers

CONSTANTS Callers,      \* calls of the service under way
          Foreign,      \* active currencies other than the base
          RateDays,     \* days a provider may have published for
          Intervals,    \* refresh intervals
          MaxMinute     \* bound: the time

ASSUME ExchangeAssumption ==
    /\ RateDays \subseteq Nat /\ Intervals \subseteq Nat \ {0} /\ MaxMinute \in Nat

VARIABLES
    minute,   \* the time
    policy,   \* exchange_rate_settings; 0 is no time
    cache,    \* exchange_rates: when each row was fetched, 0 if there is none
    calling   \* the calls

exchangeVars == <<minute, policy, cache, calling>>

Providers == {"TCMB", "ECB"}
Rest == [at |-> "idle", kind |-> "worker", want |-> [code |-> "", on |-> 0], preference |-> "AUTO",
         since |-> 0, got |-> [source |-> "", day |-> 0, codes |-> {}], busy |-> FALSE]

ExchangeInit ==
    /\ minute = 1
    /\ policy \in {[preference |-> "AUTO", interval |-> i, attempt |-> 0, success |-> 0, failed |-> FALSE] : i \in Intervals}
    /\ cache = [row \in Foreign \X RateDays \X Providers |-> 0]
    /\ calling = [c \in Callers |-> Rest]
-----------------------------------------------------------------------------
(* What a provider answers: the day it published for and the active
   currencies it gives a proper figure for.  The first always quotes the
   base, the second may not. *)
fetchTCMB == [source : {"TCMB"}, day : RateDays, codes : SUBSET Foreign]
fetchECB == [source : {"ECB"}, day : RateDays, codes : SUBSET Foreign]
(* The preferred provider, or whichever of the two answers first *)
fetchPreferred(preference) ==
    CASE preference = "TCMB" -> fetchTCMB
      [] preference = "ECB" -> fetchECB
      [] OTHER -> fetchTCMB \cup fetchECB

hasAllActiveRates == \A c \in Foreign : \E row \in DOMAIN cache : row[1] = c /\ cache[row] > 0

(* The rows a document of a day may take: the latest day, and of that day the
   latest fetch *)
LatestRows(code, on) ==
    LET usable == {row \in DOMAIN cache : row[1] = code /\ row[2] <= on /\ cache[row] > 0}
    IN {row \in usable : \A other \in usable :
            \/ other[2] < row[2]
            \/ other[2] = row[2] /\ cache[other] <= cache[row]}
-----------------------------------------------------------------------------
(* The settings page *)
UpdateSettings(preference, interval) ==
    /\ LET changed == policy.preference # preference \/ policy.interval # interval
       IN policy' = [preference |-> preference, interval |-> interval, failed |-> FALSE,
                     attempt |-> IF changed THEN 0 ELSE policy.attempt,
                     success |-> IF changed THEN 0 ELSE policy.success]
    /\ UNCHANGED <<minute, cache, calling>>

Become(c, next) == calling' = [calling EXCEPT ![c] = next]
(* How a call goes on after a refresh that did not fail: a document reads its
   rate, the other callers have what they need *)
Refreshed(c, busy) ==
    Become(c, IF calling[c].kind = "document"
              THEN [Rest EXCEPT !.at = "read", !.kind = "document", !.want = calling[c].want, !.since = calling[c].since, !.busy = busy]
              ELSE Rest)

(* A document, the dashboard or the worker asks whether a refresh is due;
   RefreshNow does not ask *)
ResolveRate(c, code, on) ==
    /\ calling[c].at = "idle"
    /\ Become(c, [Rest EXCEPT !.at = "due", !.kind = "document", !.want = [code |-> code, on |-> on]])
    /\ UNCHANGED <<minute, policy, cache>>
RefreshDue(c) ==
    /\ calling[c].at = "idle"
    /\ Become(c, [Rest EXCEPT !.at = "due"])
    /\ UNCHANGED <<minute, policy, cache>>
RefreshNow(c) ==
    /\ calling[c].at = "idle"
    /\ Become(c, [Rest EXCEPT !.at = "refresh", !.kind = "force"])
    /\ UNCHANGED <<minute, policy, cache>>

Due == policy.success = 0 \/ policy.success + policy.interval <= minute \/ ~hasAllActiveRates
refreshIfDue(c) ==
    /\ calling[c].at = "due"
    /\ LET asked == [calling[c] EXCEPT !.since = minute - policy.interval]
       IN IF Due THEN Become(c, [asked EXCEPT !.at = "refresh"])
          ELSE Become(c, IF asked.kind = "document" THEN [asked EXCEPT !.at = "read"] ELSE Rest)
    /\ UNCHANGED <<minute, policy, cache>>

refreshCompany(c) ==
    /\ calling[c].at = "refresh"
    /\ Become(c, [calling[c] EXCEPT !.at = "claim", !.preference = policy.preference])
    /\ UNCHANGED <<minute, policy, cache>>
(* The claim is refused for a minute after an attempt; a forced one looks at
   how the attempt ended *)
Claimable(force) ==
    \/ policy.attempt = 0
    \/ policy.attempt < minute - 1
    \/ force /\ (policy.failed \/ (policy.success > 0 /\ policy.attempt <= policy.success))
Claim(c) ==
    /\ calling[c].at = "claim"
    /\ IF Claimable(calling[c].kind = "force")
       THEN /\ policy' = [policy EXCEPT !.attempt = minute, !.failed = FALSE]
            /\ Become(c, [calling[c] EXCEPT !.at = "fetch"])
       ELSE /\ Refreshed(c, TRUE)
            /\ UNCHANGED policy
    /\ UNCHANGED <<minute, cache>>
Fetch(c) ==
    /\ calling[c].at = "fetch"
    /\ \E got \in fetchPreferred(calling[c].preference) :
           Become(c, [calling[c] EXCEPT !.at = "store", !.preference = "AUTO", !.got = got])
    /\ UNCHANGED <<minute, policy, cache>>
StoreRates(c) ==
    LET got == calling[c].got
    IN /\ calling[c].at = "store" /\ got.codes # {}
       /\ cache' = [row \in DOMAIN cache |->
                        IF row[1] \in got.codes /\ row[2] = got.day /\ row[3] = got.source THEN minute ELSE cache[row]]
       /\ policy' = [policy EXCEPT !.success = minute, !.failed = FALSE]
       /\ Refreshed(c, FALSE)
       /\ UNCHANGED minute
(* Mutant: a failed refresh lets the document go on with what is cached *)
MutmarkFailure(c) ==
    /\ calling[c].at \in {"fetch", "store"}
    /\ policy' = [policy EXCEPT !.failed = TRUE]
    /\ Refreshed(c, FALSE)
    /\ UNCHANGED <<minute, cache>>
(* The providers failed, quoted no active currency or not the base, or a row
   could not be written *)
markFailure(c) ==
    /\ calling[c].at \in {"fetch", "store"}
    /\ policy' = [policy EXCEPT !.failed = TRUE]
    /\ Become(c, Rest)
    /\ UNCHANGED <<minute, cache>>
(* The request is cancelled, the process stops or the transaction fails *)
Abandon(c) ==
    /\ calling[c].at \in {"fetch", "store"}
    /\ Become(c, Rest)
    /\ UNCHANGED <<minute, policy, cache>>
-----------------------------------------------------------------------------
(* The document's rate, or a wait for the refresh that is under way *)
documentRate(c) ==
    LET rows == LatestRows(calling[c].want.code, calling[c].want.on)
    IN /\ calling[c].at \in {"read", "wait"}
       /\ IF rows # {} THEN Become(c, [calling[c] EXCEPT !.at = "answered"])
          ELSE Become(c, IF calling[c].busy THEN [calling[c] EXCEPT !.at = "wait"] ELSE Rest)
       /\ UNCHANGED <<minute, policy, cache>>
waitForRate(c) ==
    /\ calling[c].at = "wait"
    /\ Become(c, Rest)
    /\ UNCHANGED <<minute, policy, cache>>
Done(c) ==
    /\ calling[c].at = "answered"
    /\ Become(c, Rest)
    /\ UNCHANGED <<minute, policy, cache>>
Pass ==
    /\ minute < MaxMinute
    /\ minute' = minute + 1
    /\ UNCHANGED <<policy, cache, calling>>

ExchangeStep ==
    \/ Pass
    \/ \E preference \in Providers \cup {"AUTO"}, i \in Intervals : UpdateSettings(preference, i)
    \/ \E c \in Callers :
        \/ \E code \in Foreign, on \in RateDays : ResolveRate(c, code, on)
        \/ RefreshDue(c) \/ RefreshNow(c)
        \/ refreshIfDue(c) \/ refreshCompany(c) \/ Claim(c) \/ Fetch(c) \/ StoreRates(c)
        \/ markFailure(c) \/ Abandon(c)
        \/ documentRate(c) \/ waitForRate(c) \/ Done(c)

ExchangeSpec == ExchangeInit /\ [][ExchangeStep]_exchangeVars
-----------------------------------------------------------------------------
(* An outage is never hidden from a document ("A provider outage must not
   silently turn 400 TRY into 400 USD. Fail closed for new documents"): a
   document gets a rate only if some refresh succeeded within the company's
   interval before it asked, or since.  The exception is a document whose
   claim was refused because an attempt is less than a minute old: it takes
   the cached rate, however old, also when that attempt has failed. *)
OutageIsSeen ==
    \A c \in Callers :
        calling[c].at = "answered" /\ ~calling[c].busy => \E row \in DOMAIN cache : cache[row] > calling[c].since
=============================================================================

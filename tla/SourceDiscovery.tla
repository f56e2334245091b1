--------------------------- MODULE SourceDiscovery ---------------------------
(***************************************************************************)
(* discovery/service.py discover_sources, with policy.py, ranking.py,      *)
(* fetch.py, acquire.py and manual.py: from the locators a search found,   *)
(* or one an operator supplied, to artifacts in the store.                 *)
(*                                                                         *)
(* A job reads the registry once, classifies and ranks its candidates and  *)
(* fetches the eligible ones in that order until its budget is spent.  A   *)
(* fetch follows redirects, and what comes back is judged again by the     *)
(* host it came from before it is stored.  Jobs run beside each other, on  *)
(* one artifact store, while operators edit the registry.  What the        *)
(* servers answer is any answer.                                           *)
(*                                                                         *)
(* The artifact store is taken whole here, as ArtifactArchive specifies it *)
(* but for an artifact that no longer loads; ArtifactStore has its files.  *)
(* URLs, names and relevance are data.                                     *)
(***************************************************************************)
EXTENDS DomainRegistry, Integers, FiniteSets

CONSTANTS
    Jobs,           \* processes that discover sources
    Products,
    HintOf,         \* HintOf[p]: the manufacturer as p's row names it
    Urls,
    HostOf,         \* HostOf[u]
    Relevance,      \* Relevance[u][p]: how u's text relates to p's part number
    Results,        \* the sets of URLs a search may find
    Order,          \* Order[u]: where its kind, provider's rank and text put u
                    \*   among equals
    Unsafe,         \* hosts whose address validate_url refuses: private, local, none
    Digests,
    KindOf,         \* KindOf[h]: what those bytes are, "PDF" or "HTML"
    MaxFetches,     \* DiscoveryBudget.max_fetch_attempts
    MaxRedirects    \* FetchPolicy.max_redirects

Relevances == {"EXACT", "FAMILY_ONLY", "SIBLING", "AMBIGUOUS", "ABSENT"}
Kinds == {"PDF", "HTML"}

\* An artifact of the store, and the lineage it was stored with.
Artifacts == [publisher : Hints, host : Hosts, kind : Kinds, loads : BOOLEAN]

ASSUME DiscoveryAssumption ==
    /\ HintOf \in [Products -> Hints]
    /\ HostOf \in [Urls -> Hosts]
    /\ Relevance \in [Urls -> [Products -> Relevances]]
    /\ Results \subseteq SUBSET Urls /\ \A urls \in Results : IsFiniteSet(urls)
    /\ Order \in [Urls -> Nat]
    /\ \A u, v \in Urls : Order[u] = Order[v] => u = v
    /\ KindOf \in [Digests -> Kinds]
    /\ MaxFetches \in Nat /\ MaxRedirects \in Nat
    /\ None \notin Digests \cup Artifacts

Authorities == {"APPROVED_MANUFACTURER", "UNVERIFIED_MANUFACTURER", "OTHER_MANUFACTURER",
                "UNKNOWN", "KNOWN_DISTRIBUTOR", "KNOWN_MARKETPLACE", "BLOCKED"}

VARIABLES
    job,    \* job[d]: the discovery process d has under way or has ended, or None
    shelf   \* shelf[h]: the artifact stored under h, or None

vars == <<registry, job, shelf>>

\* The reasons a candidate may be given, by the check that gives them.  Every
\* answer without a usable body is NO_DOCUMENT: a transport or HTTP error, a
\* redirect to nowhere, a content type that is not supported, or content that
\* is not of its type.
FetchReasons == {"UNSAFE_URL", "TOO_MANY_REDIRECTS", "NO_DOCUMENT"}
Reasons == FetchReasons \cup Authorities \cup Relevances \cup
    {"REDIRECT_AUTHORITY_LOST", "DISCOVERY_PROVENANCE_UNDECLARED", "FETCH_BUDGET_EXHAUSTED"}

Statuses == {"ACQUIRED", "ACCEPTED_NOT_ACQUIRED", "REJECTED"}

Candidates == [url : Urls, authority : Authorities, relevance : Relevances,
               status : Statuses, rejections : SUBSET Reasons,
               fetched : BOOLEAN, artifact : Digests \cup {None}]

\* A response body: the bytes and the content type they were served with.
Bodies == [digest : Digests, kind : Kinds]

\* A survey has no artifact store; a provider may not declare its method.
Modes == {"survey", "undeclared", "acquire"}

JobStates == [product : Products, registry : Registries, mode : Modes,
              step : {"search", "next", "hop", "acquire", "save", "done", "aborted"},
              candidates : Seq(Candidates), at : Nat \ {0}, attempts : Nat,
              chain : Seq(Urls), url : Urls \cup {None}, body : Bodies \cup {None}]

TypeOK ==
    /\ RegistryTypeOK
    /\ job \in [Jobs -> JobStates \cup {None}]
    /\ shelf \in [Digests -> Artifacts \cup {None}]

Init ==
    /\ RegistryInit
    /\ job = [d \in Jobs |-> None]
    /\ shelf = [h \in Digests |-> None]

------------------------------------------------------------------------------
(* Candidates *)

\* Demo or unreviewed, a name that only locates, another's or nobody's host;
\* and any relevance but an exact one.
RejectionReasons(authority, relevance) ==
    ({authority} \ {"APPROVED_MANUFACTURER"}) \cup ({relevance} \ {"EXACT"})

Classified(f, p, u) ==
    LET authority == AuthorityOf(f, HostOf[u], HintOf[p])
        reasons == RejectionReasons(authority, Relevance[u][p])
    IN  [url |-> u, authority |-> authority, relevance |-> Relevance[u][p],
         status |-> IF reasons = {} THEN "ACCEPTED_NOT_ACQUIRED" ELSE "REJECTED",
         rejections |-> reasons, fetched |-> FALSE, artifact |-> None]

AuthorityOrder == [APPROVED_MANUFACTURER |-> 0, UNVERIFIED_MANUFACTURER |-> 1,
                   OTHER_MANUFACTURER |-> 2, UNKNOWN |-> 3, KNOWN_DISTRIBUTOR |-> 4,
                   KNOWN_MARKETPLACE |-> 5, BLOCKED |-> 6]
RelevanceOrder == [EXACT |-> 0, FAMILY_ONLY |-> 1, SIBLING |-> 2, AMBIGUOUS |-> 3, ABSENT |-> 4]

\* ranking_key, compared.
Before(c, d) ==
    LET a == AuthorityOrder[c.authority] - AuthorityOrder[d.authority]
        r == RelevanceOrder[c.relevance] - RelevanceOrder[d.relevance]
    IN  a < 0 \/ (a = 0 /\ (r < 0 \/ (r = 0 /\ Order[c.url] < Order[d.url])))

\* Each candidate in the place that the number of those before it gives it.
Place(c, candidates) == 1 + Cardinality({other \in candidates : Before(other, c)})

Ranked(f, p, urls) ==
    LET candidates == {Classified(f, p, u) : u \in urls}
    IN  [n \in 1 .. Cardinality(candidates) |->
            CHOOSE c \in candidates : Place(c, candidates) = n]

Eligible(c) == c.authority = "APPROVED_MANUFACTURER" /\ c.relevance = "EXACT"

------------------------------------------------------------------------------
(* A job *)

Ended(d) == job[d] # None => job[d].step \in {"done", "aborted"}

StartJob(d, p, mode, step, candidates) ==
    /\ Ended(d) /\ file # Unreadable
    /\ job' = [job EXCEPT ![d] =
            [product |-> p, registry |-> file, mode |-> mode,
             step |-> step, candidates |-> candidates, at |-> 1, attempts |-> 0,
             chain |-> << >>, url |-> None, body |-> None]]
    /\ UNCHANGED <<registry, shelf>>

Discover(d, p, mode) == StartJob(d, p, mode, "search", << >>)

\* ingest_manual_source: one locator, supplied by an operator.
SupplySource(d, p, u) ==
    /\ file # Unreadable
    /\ StartJob(d, p, "acquire", "next", <<Classified(file, p, u)>>)

Doing(d, step) == job[d] # None /\ job[d].step = step
Keep == UNCHANGED <<registry, shelf>>
Current(d) == job[d].candidates[job[d].at]

\* The queries' results, each URL once; or an exception.
SearchEnds(d, urls) ==
    /\ Doing(d, "search")
    /\ job' = [job EXCEPT ![d].candidates = Ranked(job[d].registry, job[d].product, urls),
                          ![d].step = "next"]
    /\ Keep

SearchRaises(d) ==
    /\ Doing(d, "search")
    /\ job' = [job EXCEPT ![d].step = "aborted"]
    /\ Keep

\* The candidate at hand is final, and the next one is looked at.
Decide(d, status, rejections, artifact) ==
    LET j == job[d]
        decided == [Current(d) EXCEPT !.status = status, !.artifact = artifact,
                                      !.rejections = Current(d).rejections \cup rejections]
    IN  job' = [job EXCEPT ![d] =
            [j EXCEPT !.candidates = [j.candidates EXCEPT ![j.at] = decided],
                      !.at = j.at + 1, !.step = "next",
                      !.chain = << >>, !.url = None, !.body = None]]

\* Mutant: the reason and the status are swapped.
RejectSwapped(d, reason) == Decide(d, reason, {"REJECTED"}, None)

Reject(d, reason) == Decide(d, "REJECTED", {reason}, None)

AtCandidate(d) == Doing(d, "next") /\ job[d].at <= Len(job[d].candidates)

PassOver(d) ==
    /\ AtCandidate(d)
    /\ job[d].mode = "survey" \/ ~Eligible(Current(d))
    /\ Decide(d, Current(d).status, {}, None)
    /\ Keep

\* Mutant: one attempt too many.
FetchesLeftUnpaid(d) == job[d].attempts <= MaxFetches

FetchesLeft(d) == job[d].attempts < MaxFetches

BudgetExhausted(d) ==
    /\ AtCandidate(d)
    /\ job[d].mode # "survey" /\ Eligible(Current(d)) /\ ~FetchesLeft(d)
    /\ Decide(d, Current(d).status, {"FETCH_BUDGET_EXHAUSTED"}, None)
    /\ Keep

Fetch(d) ==
    /\ AtCandidate(d)
    /\ job[d].mode # "survey" /\ Eligible(Current(d)) /\ FetchesLeft(d)
    /\ job' = [job EXCEPT ![d].attempts = @ + 1, ![d].step = "hop",
                          ![d].url = Current(d).url,
                          ![d].candidates[job[d].at].fetched = TRUE]
    /\ Keep

Finish(d) ==
    /\ Doing(d, "next") /\ job[d].at > Len(job[d].candidates)
    /\ job' = [job EXCEPT ![d].step = "done"]
    /\ Keep

(* fetch_url: one hop of its loop is one step *)

Safe(d) == HostOf[job[d].url] \notin Unsafe

\* Refused before the connection, or by what the server answers.
FetchFails(d) ==
    /\ Doing(d, "hop")
    /\ Reject(d, IF Safe(d) THEN "NO_DOCUMENT" ELSE "UNSAFE_URL")
    /\ Keep

Redirected(d, to) ==
    /\ Doing(d, "hop") /\ Safe(d)
    /\ IF Len(job[d].chain) < MaxRedirects
       THEN job' = [job EXCEPT ![d].chain = Append(@, job[d].url), ![d].url = to]
       ELSE Reject(d, "TOO_MANY_REDIRECTS")
    /\ Keep

\* A body served as PDF begins like one.
Downloaded(d, body) ==
    /\ Doing(d, "hop") /\ Safe(d)
    /\ body.kind = "PDF" => KindOf[body.digest] = "PDF"
    /\ job' = [job EXCEPT ![d].chain = Append(@, job[d].url),
                          ![d].body = body, ![d].step = "acquire"]
    /\ Keep

(* acquire_resource *)

\* Mutant: the authority of the locator is taken for that of the bytes.
LocatorAuthority(d) == Current(d).authority

\* classify_authority again, for the host the bytes came from.
FinalAuthority(d) == AuthorityOf(job[d].registry, HostOf[job[d].url], HintOf[job[d].product])

\* Bytes that are stored already are not ingested again: the artifact keeps
\* the lineage it was first stored with.  One that does not load raises an
\* error nothing here catches.
Acquire(d) ==
    LET body == job[d].body
        stored == shelf[body.digest]
    IN  /\ Doing(d, "acquire")
        /\ \/ /\ FinalAuthority(d) # "APPROVED_MANUFACTURER"
              /\ Reject(d, "REDIRECT_AUTHORITY_LOST")
           \/ /\ FinalAuthority(d) = "APPROVED_MANUFACTURER" /\ job[d].mode = "undeclared"
              /\ Reject(d, "DISCOVERY_PROVENANCE_UNDECLARED")
           \/ /\ FinalAuthority(d) = "APPROVED_MANUFACTURER" /\ job[d].mode # "undeclared"
              /\ \/ stored # None /\ ~stored.loads
                    /\ job' = [job EXCEPT ![d].step = "aborted"]
                 \/ stored # None /\ stored.loads /\ stored.kind # body.kind
                    /\ Reject(d, "NO_DOCUMENT")
                 \/ stored # None /\ stored.loads /\ stored.kind = body.kind
                    /\ Decide(d, "ACQUIRED", {}, body.digest)
                 \/ stored = None /\ Reject(d, "NO_DOCUMENT")
                 \/ stored = None /\ KindOf[body.digest] = body.kind
                    /\ job' = [job EXCEPT ![d].step = "save"]
        /\ Keep

\* ArtifactStore.save replaces what another job may have stored meanwhile.
Save(d) ==
    /\ Doing(d, "save")
    /\ shelf' = [shelf EXCEPT ![job[d].body.digest] =
            [publisher |-> HintOf[job[d].product], host |-> HostOf[job[d].url],
             kind |-> job[d].body.kind, loads |-> TRUE]]
    /\ Decide(d, "ACQUIRED", {}, job[d].body.digest)
    /\ UNCHANGED registry

\* The process is stopped, or the store cannot be written.
Stop(d) ==
    /\ ~Ended(d)
    /\ job' = [job EXCEPT ![d] = None]
    /\ Keep

\* A save that did not end, or a file changed on disk: see ArtifactStore.
Damage(h) ==
    /\ shelf[h] # None /\ shelf[h].loads
    /\ shelf' = [shelf EXCEPT ![h].loads = FALSE]
    /\ UNCHANGED <<registry, job>>

------------------------------------------------------------------------------
FetchGoesOn(d) ==
    \/ FetchFails(d)
    \/ \E to \in Urls : Redirected(d, to)
    \/ \E body \in Bodies : Downloaded(d, body)

Job(d) ==
    \/ \E p \in Products, mode \in Modes : Discover(d, p, mode)
    \/ \E p \in Products, u \in Urls : SupplySource(d, p, u)
    \/ \E urls \in Results : SearchEnds(d, urls)
    \/ SearchRaises(d)
    \/ PassOver(d) \/ BudgetExhausted(d) \/ Fetch(d) \/ Finish(d)
    \/ FetchGoesOn(d) \/ Acquire(d) \/ Save(d) \/ Stop(d)

Next ==
    \/ \E d \in Jobs : Job(d)
    \/ \E o \in Operators : Review(o) /\ UNCHANGED <<job, shelf>>
    \/ \E h \in Digests : Damage(h)

Spec == Init /\ [][Next]_vars

------------------------------------------------------------------------------
(* Properties *)

\* Whatever is in the store came from a host on the entry of the manufacturer
\* the product's row names, and a person has confirmed every domain of that
\* entry: through redirects, half-written registries, overlapping operators
\* and jobs that saw an older file (acquire.py:70-89, service.py:189-195).
Licensed(host, hint) ==
    \E m \in Manufacturers :
        /\ host \in Domains[m] /\ hint \in Names[m]
        /\ Provenance = "REVIEWED" =>
              \E c \in confirmed : c.key = m /\ c.domains = Domains[m]

StoredBytesAreLicensed ==
    /\ Provenance = "DEMO" => \A h \in Digests : shelf[h] = None
    /\ \A h \in Digests : shelf[h] # None => Licensed(shelf[h].host, shelf[h].publisher)

\* A candidate reported as acquired names bytes that are in the store as what
\* they were served as, and every other one is without an artifact; a job
\* that shares the store with others never announces what it did not store
\* (service.py:232-241).
AcquiredIsStored ==
    \A d \in Jobs : job[d] # None =>
        \A i \in DOMAIN job[d].candidates :
            LET c == job[d].candidates[i]
            IN  /\ c.status = "ACQUIRED" => c.artifact # None
                /\ c.artifact # None => /\ c.status = "ACQUIRED"
                                        /\ shelf[c.artifact] # None
                                        /\ shelf[c.artifact].kind = KindOf[c.artifact]

\* The fetch budget goes to the best candidates: at most MaxFetches are
\* fetched, none ranked after an eligible one that was not, and an eligible
\* one is left out only with the budget spent and with that reason.  A
\* rejected candidate has a reason (service.py:318-333, models.py:238-242).
BudgetGoesToTheBest ==
    \A d \in Jobs : job[d] # None =>
        LET cs == job[d].candidates
            fetched == {i \in DOMAIN cs : cs[i].fetched}
        IN  /\ Cardinality(fetched) = job[d].attempts /\ job[d].attempts <= MaxFetches
            /\ \A i \in DOMAIN cs : cs[i].status = "REJECTED" => cs[i].rejections # {}
            /\ job[d].step = "done" /\ job[d].mode # "survey" =>
                  \A i \in DOMAIN cs : Eligible(cs[i]) /\ i \notin fetched =>
                      /\ "FETCH_BUDGET_EXHAUSTED" \in cs[i].rejections
                      /\ job[d].attempts = MaxFetches
                      /\ \A j \in fetched : j < i

\* A fetch starts at an approved host, connects to no unsafe host at any hop,
\* and to at most MaxRedirects + 1 (fetch.py:258-262, 316).
HopsAreBounded ==
    \A d \in Jobs : job[d] # None /\ job[d].chain # << >> =>
        /\ job[d].chain[1] = Current(d).url
        /\ \A i \in DOMAIN job[d].chain : HostOf[job[d].chain[i]] \notin Unsafe
        /\ Len(job[d].chain) <= MaxRedirects + 1

\* What a job reports of its candidates is what it did for them: the best had
\* the fetches, each fetch kept to safe and few hops, and what is called
\* acquired is in the store (service.py:274-377).
OutcomesAreEarned == AcquiredIsStored /\ BudgetGoesToTheBest /\ HopsAreBounded
==============================================================================

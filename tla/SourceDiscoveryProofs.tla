------------------------ MODULE SourceDiscoveryProofs ------------------------
(***************************************************************************)
(* Proofs about the domain registry and source discovery, for every number *)
(* of operators and jobs, every registry file and every set of hosts,      *)
(* products and documents that satisfy the assumptions.                    *)
(***************************************************************************)
EXTENDS SourceDiscovery, FiniteSetTheorems, TLAPS

(***************************************************************************)
(* The registry.  A file is confirmed when each entry is unreviewed, or    *)
(* its review is a confirmation of all its domains.                        *)
(***************************************************************************)
ConfirmedEntry(e) ==
    e.review # None =>
        [key |-> e.key, by |-> e.review, domains |-> Domains[e.key]] \in confirmed

ConfirmedFile(f) == \A i \in DOMAIN f.entries : ConfirmedEntry(f.entries[i])

RegistryInv ==
    /\ RegistryTypeOK
    /\ file # Unreadable => ConfirmedFile(file)
    /\ \A o \in Operators : desk[o] # None => ConfirmedFile(desk[o].file)

\* What ConfirmedIn says of the reviews, ConfirmedFile says of the entries.
LEMMA ConfirmedFileIsConfirmedIn ==
    ASSUME NEW f, ConfirmedFile(f) PROVE ConfirmedIn(f)
BY DEF ConfirmedFile, ConfirmedEntry, ConfirmedIn, ReviewsIn

\* Confirmations are never withdrawn, so a confirmed file stays confirmed.
LEMMA ConfirmedStays ==
    ASSUME NEW f, ConfirmedFile(f), confirmed \subseteq confirmed'
    PROVE  ConfirmedFile(f)'
BY DEF ConfirmedFile, ConfirmedEntry

\* Whatever part of a registry file a write leaves is a registry file or
\* unreadable, and confirmed if the whole is.
LEMMA PartsOfConfirmed ==
    ASSUME NEW f \in Registries, NEW g \in Parts(f), g # Unreadable
    PROVE  g \in Registries /\ (ConfirmedFile(f) => ConfirmedFile(g))
<1> USE DEF Registries
<1>0. f.entries \in Seq(Entries) /\ Len(f.entries) \in Nat
  OBVIOUS
<1>1. CASE \E n \in 0 .. Len(f.entries) :
              g = [entries |-> SubSeq(f.entries, 1, n), hosts |-> FALSE]
  <2>1. PICK n \in 0 .. Len(f.entries) :
              g = [entries |-> SubSeq(f.entries, 1, n), hosts |-> FALSE]
    BY <1>1
  <2>2. SubSeq(f.entries, 1, n) \in Seq(Entries)
    BY <1>0
  <2>3. \A i \in DOMAIN SubSeq(f.entries, 1, n) :
            i \in DOMAIN f.entries /\ SubSeq(f.entries, 1, n)[i] = f.entries[i]
    BY <1>0
  <2> QED BY <2>1, <2>2, <2>3 DEF ConfirmedFile
<1>2. CASE \E n \in 1 .. Len(f.entries) :
              g = [entries |-> [SubSeq(f.entries, 1, n) EXCEPT ![n].review = None],
                   hosts |-> FALSE]
  <2>1. PICK n \in 1 .. Len(f.entries) :
              g = [entries |-> [SubSeq(f.entries, 1, n) EXCEPT ![n].review = None],
                   hosts |-> FALSE]
    BY <1>2
  <2> DEFINE s == SubSeq(f.entries, 1, n)
             t == [s EXCEPT ![n].review = None]
  <2>2. s \in Seq(Entries) /\ Len(s) = n /\ n \in Nat /\ n \in 1 .. Len(s)
    BY <1>0
  <2>3. \A i \in DOMAIN s : i \in DOMAIN f.entries /\ s[i] = f.entries[i]
    BY <1>0
  <2>4. s[n] \in Entries /\ [s[n] EXCEPT !.review = None] \in Entries
    BY <2>2 DEF Entries
  <2> HIDE DEF s
  <2>5. t \in Seq(Entries) /\ DOMAIN t = DOMAIN s
    BY <2>2, <2>4
  <2>6. \A i \in DOMAIN t : i # n => t[i] = s[i]
    BY <2>5
  <2>7. t[n] = [s[n] EXCEPT !.review = None] /\ t[n].review = None
    BY <2>2, <2>4, <2>5 DEF Entries
  <2>8. g.entries = t /\ g = [entries |-> t, hosts |-> FALSE]
    BY <2>1 DEF s
  <2> HIDE DEF t
  <2>9. ASSUME ConfirmedFile(f), NEW j \in DOMAIN t PROVE ConfirmedEntry(t[j])
    <3>1. CASE j = n
      BY <3>1, <2>7 DEF ConfirmedEntry
    <3>2. CASE j # n
      BY <3>2, <2>3, <2>5, <2>6, <2>9 DEF ConfirmedFile
    <3> QED BY <3>1, <3>2
  <2>10. ConfirmedFile(f) => ConfirmedFile(g)
    BY <2>8, <2>9 DEF ConfirmedFile
  <2> QED BY <2>5, <2>8, <2>10
<1> QED BY <1>1, <1>2 DEF Parts

\* A review that applies to a confirmed file leaves it a registry file, and
\* confirmed once the confirmation is recorded.
LEMMA ReviewedFile ==
    ASSUME NEW f \in Registries, NEW i \in DOMAIN f.entries,
           NEW o \in Operators, NEW m \in Manufacturers, NEW domains,
           ReviewApplies(f, i, m, domains), ConfirmedFile(f),
           confirmed' = confirmed \cup {[key |-> m, by |-> o, domains |-> domains]}
    PROVE  /\ [f EXCEPT !.entries[i].review = o] \in Registries
           /\ ConfirmedFile([f EXCEPT !.entries[i].review = o])'
<1> DEFINE e == [f.entries[i] EXCEPT !.review = o]
           t == [f.entries EXCEPT ![i] = e]
           g == [f EXCEPT !.entries[i].review = o]
<1>1. f.entries \in Seq(Entries) /\ f.entries[i] \in Entries
  BY DEF Registries
<1>2. e \in Entries /\ e.key = m /\ e.review = o
  BY <1>1 DEF Entries, ReviewApplies
<1>3. t \in Seq(Entries) /\ DOMAIN t = DOMAIN f.entries /\ t[i] = e
  BY <1>1, <1>2
<1>4. \A j \in DOMAIN t : j # i => t[j] = f.entries[j]
  BY <1>3
<1>5. g \in Registries /\ g.entries = t
  BY <1>3 DEF Registries
<1>6. [key |-> e.key, by |-> e.review, domains |-> Domains[e.key]] \in confirmed'
  BY <1>2 DEF ReviewApplies
<1> HIDE DEF e, t, g
<1>7. ConfirmedFile(g)'
  BY <1>3, <1>4, <1>5, <1>6 DEF ConfirmedFile, ConfirmedEntry
<1> QED BY <1>5, <1>7 DEF g

\* Each step of an operator keeps the registry well typed and every file of
\* it, in place or being written, confirmed.
LEMMA RegistryStep ==
    ASSUME RegistryInv, NEW o \in Operators, Review(o) PROVE RegistryInv'
<1> USE DEF RegistryInv, RegistryTypeOK
<1>1. ASSUME NEW m \in Manufacturers, NEW domains \in SUBSET Hosts, Confirm(o, m, domains)
      PROVE  RegistryInv'
  <2>1. file \in Registries /\ ConfirmedFile(file) /\ file' = file /\ written' = written
    BY <1>1 DEF Confirm
  <2>2. PICK i \in DOMAIN file.entries :
            /\ ReviewApplies(file, i, m, domains)
            /\ desk' = [desk EXCEPT ![o] =
                  [step |-> "prepared", review |-> [key |-> m, by |-> o],
                   file |-> [file EXCEPT !.entries[i].review = o]]]
    BY <1>1 DEF Confirm
  <2>3. confirmed' = confirmed \cup {[key |-> m, by |-> o, domains |-> domains]}
    BY <1>1 DEF Confirm
  <2>4. confirmed' \subseteq Confirmations
    BY <2>3 DEF Confirmations
  <2>5. PICK f \in Registries : f = file
    BY <2>1
  <2> DEFINE g == [f EXCEPT !.entries[i].review = o]
  <2>6. g \in Registries /\ ConfirmedFile(g)'
    BY <2>1, <2>2, <2>3, <2>5, ReviewedFile
  <2>7. ConfirmedFile(f)'
    BY <2>1, <2>3, <2>5, ConfirmedStays
  <2> HIDE DEF g
  <2>8. [step |-> "prepared", review |-> [key |-> m, by |-> o], file |-> g] \in Desks
    BY <2>6 DEF Desks, Reviews
  <2>9. desk' = [desk EXCEPT ![o] =
            [step |-> "prepared", review |-> [key |-> m, by |-> o], file |-> g]]
    BY <2>2, <2>5 DEF g
  <2>10. desk' \in [Operators -> Desks \cup {None}]
    BY <2>8, <2>9
  <2>11. ASSUME NEW p \in Operators, desk'[p] # None PROVE ConfirmedFile(desk[p].file)'
    <3>1. CASE p = o
      <4>1. desk'[p].file = g
        BY <3>1, <2>9
      <4> QED BY <4>1, <2>6 DEF ConfirmedFile
    <3>2. CASE p # o
      <4>1. desk'[p] = desk[p] /\ desk[p] \in Desks /\ ConfirmedFile(desk[p].file)
        BY <3>2, <2>9, <2>11
      <4>2. PICK q \in Registries : q = desk[p].file
        BY <4>1 DEF Desks
      <4>3. ConfirmedFile(q)'
        BY <4>1, <4>2, <2>3, ConfirmedStays
      <4> QED BY <4>1, <4>2, <4>3 DEF ConfirmedFile
    <3> QED BY <3>1, <3>2
  <2> QED BY <2>1, <2>4, <2>5, <2>7, <2>10, <2>11
<1>2. CASE WriteBegins(o)
  <2>1. /\ desk[o] \in Desks /\ desk[o].file \in Registries /\ ConfirmedFile(desk[o].file)
        /\ file' \in Parts(desk[o].file)
        /\ desk' = [desk EXCEPT ![o].step = "writing"]
        /\ confirmed' = confirmed /\ written' = written
    BY <1>2 DEF WriteBegins, Desks
  <2>2. file' # Unreadable => file' \in Registries /\ ConfirmedFile(file')
    BY <2>1, PartsOfConfirmed
  <2>3. [desk[o] EXCEPT !.step = "writing"] \in Desks
    BY <2>1 DEF Desks
  <2>4. desk' \in [Operators -> Desks \cup {None}]
    BY <2>1, <2>3
  <2>5. ASSUME NEW p \in Operators, desk'[p] # None
        PROVE  desk[p] # None /\ desk'[p].file = desk[p].file
    <3>1. CASE p = o
      <4>1. desk'[o] = [desk[o] EXCEPT !.step = "writing"]
        BY <2>1
      <4> QED BY <3>1, <4>1, <2>1, <1>2 DEF WriteBegins, Desks
    <3>2. CASE p # o
      BY <3>2, <2>1, <2>5
    <3> QED BY <3>1, <3>2
  <2> QED BY <2>1, <2>2, <2>4, <2>5 DEF ConfirmedFile, ConfirmedEntry
<1>3. CASE WriteEnds(o)
  <2>1. /\ desk[o] \in Desks /\ desk[o].file \in Registries /\ ConfirmedFile(desk[o].file)
        /\ desk[o].review \in Reviews /\ file' \in {desk[o].file, Unreadable}
        /\ desk' = [desk EXCEPT ![o] = None]
        /\ confirmed' = confirmed /\ written' = written \cup {desk[o].review}
    BY <1>3 DEF WriteEnds, Writing, Desks
  <2> QED BY <2>1 DEF ConfirmedFile, ConfirmedEntry
<1>4. CASE WriteStops(o)
  BY <1>4 DEF WriteStops, ConfirmedFile, ConfirmedEntry
<1> QED BY <1>1, <1>2, <1>3, <1>4 DEF Review

\* The published file's reviews count as confirmations made before.
LEMMA RegistryStart == RegistryInit => RegistryInv
<1> SUFFICES ASSUME RegistryInit PROVE RegistryInv
  OBVIOUS
<1> USE DEF RegistryInit
<1>1. file \in Registries /\ desk \in [Operators -> Desks \cup {None}]
  BY RegistryAssumption
<1>2. \A i \in DOMAIN Published.entries : Published.entries[i] \in Entries
  BY RegistryAssumption DEF Registries
<1>3. written \subseteq Reviews
  BY <1>2 DEF ReviewsIn, Reviews, Entries
<1>4. confirmed \subseteq Confirmations
  BY <1>2, RegistryAssumption DEF ReviewsIn, Confirmations, Entries
<1>5. ASSUME NEW i \in DOMAIN Published.entries, Published.entries[i].review # None
      PROVE  ConfirmedEntry(Published.entries[i])
  <2> DEFINE r == [key |-> Published.entries[i].key, by |-> Published.entries[i].review]
  <2>1. r \in ReviewsIn(Published)
    BY <1>5 DEF ReviewsIn
  <2>2. [key |-> r.key, by |-> r.by, domains |-> Domains[r.key]] \in confirmed
    BY <2>1
  <2> QED BY <2>2 DEF ConfirmedEntry
<1>6. ConfirmedFile(file)
  BY <1>5 DEF ConfirmedFile, ConfirmedEntry
<1> QED BY <1>1, <1>3, <1>4, <1>6 DEF RegistryInv, RegistryTypeOK

\* A step of a job, or damage to the store, leaves the registry alone.
LEMMA RegistryRests == RegistryInv /\ UNCHANGED registry => RegistryInv'
BY DEF RegistryInv, RegistryTypeOK, registry, ConfirmedFile, ConfirmedEntry

(***************************************************************************)
(* Jobs and the store.  The registry a job took with it is confirmed; a    *)
(* job about to store, and whatever is stored, has a licence.              *)
(***************************************************************************)
MayStore(host, hint) == Provenance # "DEMO" /\ Licensed(host, hint)

Fields == {"product", "registry", "mode", "step", "candidates", "at", "attempts",
           "chain", "url", "body"}

JobInv(d) ==
    job[d] # None =>
        /\ DOMAIN job[d] = Fields
        /\ job[d].registry \in Registries /\ ConfirmedFile(job[d].registry)
        /\ job[d].step = "save" => MayStore(HostOf[job[d].url], HintOf[job[d].product])

JobsInv == DOMAIN job = Jobs /\ \A d \in Jobs : JobInv(d)

ShelfInv ==
    /\ DOMAIN shelf = Digests
    /\ \A h \in Digests : shelf[h] # None =>
          /\ {"host", "publisher"} \subseteq DOMAIN shelf[h]
          /\ MayStore(shelf[h].host, shelf[h].publisher)

Inv == RegistryInv /\ JobsInv /\ ShelfInv

\* A host approved by a confirmed registry belongs to a maker who goes by the
\* hint, and a review that is needed has been made.
LEMMA ApprovedIsLicensed ==
    ASSUME NEW f \in Registries, NEW host, NEW hint, ConfirmedFile(f),
           AuthorityOf(f, host, hint) = "APPROVED_MANUFACTURER"
    PROVE  MayStore(host, hint)
<1>1. \E i \in DOMAIN f.entries : Owns(f, i, host)
  BY DEF AuthorityOf, ListAuthority
<1> DEFINE i == OwnerOf(f, host)
           e == f.entries[i]
<1>2. i \in DOMAIN f.entries /\ Owns(f, i, host)
  BY <1>1 DEF OwnerOf
<1>3. e \in Entries /\ ConfirmedEntry(e)
  BY <1>2 DEF Registries, ConfirmedFile
<1>4. OwnerAuthority(e, hint) = "APPROVED_MANUFACTURER"
  BY <1>1 DEF AuthorityOf
<1>5. host \in Domains[e.key]
  BY <1>2 DEF Owns
<1> HIDE DEF e
<1>6. hint \in Names[e.key] /\ Licenses(e)
  BY <1>4 DEF OwnerAuthority
<1>7. e.key \in Manufacturers
  BY <1>3 DEF Entries
<1>8. ASSUME Provenance = "REVIEWED"
      PROVE  \E c \in confirmed : c.key = e.key /\ c.domains = Domains[e.key]
  <2>1. [key |-> e.key, by |-> e.review, domains |-> Domains[e.key]] \in confirmed
    BY <1>3, <1>6, <1>8 DEF Licenses, ConfirmedEntry
  <2> QED BY <2>1
<1> QED BY <1>5, <1>6, <1>7, <1>8 DEF MayStore, Licensed, Licenses

\* What is licensed stays licensed.
LEMMA LicenceStays ==
    ASSUME NEW host, NEW hint, MayStore(host, hint), confirmed \subseteq confirmed'
    PROVE  MayStore(host, hint)'
BY DEF MayStore, Licensed

\* Decide changes the record of its own job, and there neither the registry
\* nor which fields there are; the job goes on with the next candidate.
LEMMA DecideKeeps ==
    ASSUME JobsInv, NEW d \in Jobs, job[d] # None,
           NEW status, NEW rejections, NEW artifact, Decide(d, status, rejections, artifact)
    PROVE  /\ DOMAIN job' = Jobs /\ \A e \in Jobs \ {d} : job'[e] = job[e]
           /\ DOMAIN job'[d] = Fields /\ job'[d].registry = job[d].registry
           /\ job'[d].step = "next"
<1>1. DOMAIN job[d] = Fields /\ d \in DOMAIN job /\ DOMAIN job = Jobs
  BY DEF JobsInv, JobInv
<1>2. DOMAIN job' = Jobs
  BY <1>1 DEF Decide
<1>3. \A e \in Jobs \ {d} : job'[e] = job[e]
  BY <1>1 DEF Decide
<1>4. job'[d].registry = job[d].registry
  BY <1>1 DEF Decide, Fields
<1>5. job'[d].step = "next"
  BY <1>1 DEF Decide, Fields
<1>6. DOMAIN job'[d] = Fields
  BY <1>1 DEF Decide, Fields
<1> QED BY <1>2, <1>3, <1>4, <1>5, <1>6

\* A change of one job that keeps its registry, and does not bring it to the
\* point of storing without a licence, keeps the invariant of all jobs.
LEMMA JobMoves ==
    ASSUME JobsInv, NEW d \in Jobs, job[d] # None, UNCHANGED confirmed,
           DOMAIN job' = Jobs, \A e \in Jobs \ {d} : job'[e] = job[e],
           DOMAIN job'[d] = Fields, job'[d].registry = job[d].registry,
           job'[d].step = "save" => MayStore(HostOf[job'[d].url], HintOf[job'[d].product])
    PROVE  JobsInv'
<1>1. JobInv(d)'
  BY DEF JobsInv, JobInv, ConfirmedFile, ConfirmedEntry, MayStore, Licensed
<1>2. ASSUME NEW e \in Jobs \ {d} PROVE JobInv(e)'
  BY <1>2 DEF JobsInv, JobInv, ConfirmedFile, ConfirmedEntry, MayStore, Licensed
<1> QED BY <1>1, <1>2 DEF JobsInv

\* Confirmations and nothing else added, jobs and store keep their invariants.
LEMMA MoreConfirmations ==
    ASSUME JobsInv, ShelfInv, confirmed \subseteq confirmed', UNCHANGED <<job, shelf>>
    PROVE  JobsInv' /\ ShelfInv'
<1>1. ASSUME NEW d \in Jobs, job[d] # None PROVE JobInv(d)'
  <2>1. PICK f \in Registries : f = job[d].registry
    BY <1>1 DEF JobsInv, JobInv
  <2>2. ConfirmedFile(f)'
    BY <1>1, <2>1, ConfirmedStays DEF JobsInv, JobInv
  <2>3. ConfirmedFile(job[d].registry)'
    BY <2>1, <2>2 DEF ConfirmedFile
  <2>4. job[d].step = "save" => MayStore(HostOf[job[d].url], HintOf[job[d].product])'
    BY <1>1 DEF JobsInv, JobInv, MayStore, Licensed
  <2> QED BY <1>1, <2>3, <2>4 DEF JobsInv, JobInv
<1>2. JobsInv'
  BY <1>1 DEF JobsInv, JobInv
<1>3. ShelfInv'
  BY DEF ShelfInv, MayStore, Licensed
<1> QED BY <1>2, <1>3

\* A job begins with the registry file of that moment.
LEMMA StartStep ==
    ASSUME Inv, NEW d \in Jobs, NEW p, NEW mode, NEW step \in {"search", "next"},
           NEW candidates, StartJob(d, p, mode, step, candidates)
    PROVE  Inv'
<1> DEFINE fresh == [product |-> p, registry |-> file, mode |-> mode, step |-> step,
                     candidates |-> candidates, at |-> 1, attempts |-> 0, chain |-> << >>,
                     url |-> None, body |-> None]
<1>1. /\ job' = [job EXCEPT ![d] = fresh] /\ UNCHANGED <<registry, shelf>>
      /\ file \in Registries /\ ConfirmedFile(file) /\ DOMAIN job = Jobs
  BY DEF StartJob, Inv, RegistryInv, RegistryTypeOK, JobsInv
<1>2. DOMAIN fresh = Fields /\ fresh.registry = file /\ fresh.step # "save"
  BY DEF Fields
<1> HIDE DEF fresh
<1>3. DOMAIN job' = Jobs /\ job'[d] = fresh /\ \A e \in Jobs \ {d} : job'[e] = job[e]
  BY <1>1
<1>4. JobInv(d)'
  BY <1>1, <1>2, <1>3 DEF JobInv, ConfirmedFile, ConfirmedEntry, registry
<1>5. ASSUME NEW e \in Jobs \ {d} PROVE JobInv(e)'
  BY <1>1, <1>3, <1>5 DEF Inv, JobsInv, JobInv, ConfirmedFile, ConfirmedEntry, MayStore,
     Licensed, registry
<1>6. JobsInv'
  BY <1>3, <1>4, <1>5 DEF JobsInv
<1>7. ShelfInv'
  BY <1>1 DEF Inv, ShelfInv, MayStore, Licensed, registry
<1> QED BY <1>1, <1>6, <1>7, RegistryRests DEF Inv

\* Once a candidate is decided nothing is about to be stored.
LEMMA DecideStep ==
    ASSUME Inv, NEW d \in Jobs, job[d] # None,
           NEW status, NEW rejections, NEW artifact, Decide(d, status, rejections, artifact),
           UNCHANGED registry
    PROVE  JobsInv'
BY DecideKeeps, JobMoves DEF Inv, registry

\* A job that is stopped has nothing more to say.
LEMMA StopStep == ASSUME Inv, NEW d \in Jobs, Stop(d) PROVE JobsInv'
<1>1. UNCHANGED confirmed /\ DOMAIN job' = Jobs /\ job'[d] = None
      /\ \A e \in Jobs \ {d} : job'[e] = job[e]
  BY DEF Stop, Keep, Inv, JobsInv, registry
<1> QED BY <1>1 DEF Inv, JobsInv, JobInv, ConfirmedFile, ConfirmedEntry, MayStore, Licensed

\* The steps of a search, of the loop over the candidates and of a fetch
\* change neither the registry a job took with it nor bring it to storing.
LEMMA QuietStep ==
    ASSUME Inv, NEW d \in Jobs,
           \/ \E urls \in Results : SearchEnds(d, urls)
           \/ SearchRaises(d) \/ Fetch(d) \/ Finish(d)
           \/ \E body \in Bodies : Downloaded(d, body)
    PROVE  JobsInv'
<1>1. JobsInv /\ job[d] # None /\ UNCHANGED registry
  BY DEF Inv, SearchEnds, SearchRaises, Fetch, AtCandidate, Finish, Downloaded, Doing, Keep
<1>2. DOMAIN job = Jobs /\ DOMAIN job[d] = Fields
  BY <1>1 DEF JobsInv, JobInv
<1>3. CASE \E urls \in Results : SearchEnds(d, urls)
  <2> PICK urls \in Results : SearchEnds(d, urls)
    BY <1>3
  <2>1. DOMAIN job' = Jobs /\ \A e \in Jobs \ {d} : job'[e] = job[e]
    BY <1>2 DEF SearchEnds
  <2>2. DOMAIN job'[d] = Fields /\ job'[d].registry = job[d].registry /\ job'[d].step = "next"
    BY <1>2 DEF SearchEnds, Fields
  <2> QED BY <1>1, <2>1, <2>2, JobMoves DEF registry
<1>4. CASE SearchRaises(d)
  <2>1. DOMAIN job' = Jobs /\ \A e \in Jobs \ {d} : job'[e] = job[e]
    BY <1>2, <1>4 DEF SearchRaises
  <2>2. DOMAIN job'[d] = Fields /\ job'[d].registry = job[d].registry
        /\ job'[d].step = "aborted"
    BY <1>2, <1>4 DEF SearchRaises, Fields
  <2> QED BY <1>1, <2>1, <2>2, JobMoves DEF registry
<1>5. CASE Fetch(d)
  <2>1. DOMAIN job' = Jobs /\ \A e \in Jobs \ {d} : job'[e] = job[e]
    BY <1>2, <1>5 DEF Fetch
  <2>2. DOMAIN job'[d] = Fields /\ job'[d].registry = job[d].registry /\ job'[d].step = "hop"
    BY <1>2, <1>5 DEF Fetch, Fields
  <2> QED BY <1>1, <2>1, <2>2, JobMoves DEF registry
<1>6. CASE Finish(d)
  <2>1. DOMAIN job' = Jobs /\ \A e \in Jobs \ {d} : job'[e] = job[e]
    BY <1>2, <1>6 DEF Finish
  <2>2. DOMAIN job'[d] = Fields /\ job'[d].registry = job[d].registry /\ job'[d].step = "done"
    BY <1>2, <1>6 DEF Finish, Fields
  <2> QED BY <1>1, <2>1, <2>2, JobMoves DEF registry
<1>7. CASE \E body \in Bodies : Downloaded(d, body)
  <2> PICK body \in Bodies : Downloaded(d, body)
    BY <1>7
  <2>1. DOMAIN job' = Jobs /\ \A e \in Jobs \ {d} : job'[e] = job[e]
    BY <1>2 DEF Downloaded
  <2>2. DOMAIN job'[d] = Fields /\ job'[d].registry = job[d].registry
        /\ job'[d].step = "acquire"
    BY <1>2 DEF Downloaded, Fields
  <2> QED BY <1>1, <2>1, <2>2, JobMoves DEF registry
<1> QED BY <1>3, <1>4, <1>5, <1>6, <1>7

\* Redirected goes on at another URL, or gives up at the limit.
LEMMA RedirectStep ==
    ASSUME Inv, NEW d \in Jobs, NEW to, Redirected(d, to) PROVE JobsInv'
<1>1. JobsInv /\ job[d] # None /\ job[d].step = "hop" /\ UNCHANGED registry
  BY DEF Inv, Redirected, Doing, Keep
<1>2. DOMAIN job = Jobs /\ DOMAIN job[d] = Fields
  BY <1>1 DEF JobsInv, JobInv
<1>3. CASE Len(job[d].chain) < MaxRedirects
  <2>1. DOMAIN job' = Jobs /\ \A e \in Jobs \ {d} : job'[e] = job[e]
    BY <1>2, <1>3 DEF Redirected
  <2>2. DOMAIN job'[d] = Fields /\ job'[d].registry = job[d].registry /\ job'[d].step = "hop"
    BY <1>1, <1>2, <1>3 DEF Redirected, Fields
  <2> QED BY <1>1, <2>1, <2>2, JobMoves DEF registry
<1>4. CASE ~(Len(job[d].chain) < MaxRedirects)
  BY <1>1, <1>4, DecideStep DEF Redirected, Reject
<1> QED BY <1>3, <1>4

\* Only bytes from a host that the job's registry approves come to be stored.
LEMMA AcquireStep == ASSUME Inv, NEW d \in Jobs, Acquire(d) PROVE JobsInv'
<1>1. JobsInv /\ job[d] # None /\ UNCHANGED registry
  BY DEF Inv, Acquire, Doing, Keep
<1>2. DOMAIN job = Jobs /\ DOMAIN job[d] = Fields
  BY <1>1 DEF JobsInv, JobInv
<1>3. CASE \E status, rejections, artifact : Decide(d, status, rejections, artifact)
  BY <1>1, <1>3, DecideStep
<1>4. CASE job' = [job EXCEPT ![d].step = "aborted"]
  <2>1. DOMAIN job' = Jobs /\ \A e \in Jobs \ {d} : job'[e] = job[e]
    BY <1>2, <1>4
  <2>2. DOMAIN job'[d] = Fields /\ job'[d].registry = job[d].registry
        /\ job'[d].step = "aborted"
    BY <1>2, <1>4 DEF Fields
  <2> QED BY <1>1, <2>1, <2>2, JobMoves DEF registry
<1>5. CASE /\ FinalAuthority(d) = "APPROVED_MANUFACTURER"
           /\ job' = [job EXCEPT ![d].step = "save"]
  <2>1. DOMAIN job' = Jobs /\ \A e \in Jobs \ {d} : job'[e] = job[e]
    BY <1>2, <1>5
  <2>2. /\ DOMAIN job'[d] = Fields /\ job'[d].registry = job[d].registry
        /\ job'[d].url = job[d].url /\ job'[d].product = job[d].product
    BY <1>2, <1>5 DEF Fields
  <2>3. MayStore(HostOf[job[d].url], HintOf[job[d].product])
    BY <1>1, <1>5, ApprovedIsLicensed DEF FinalAuthority, JobsInv, JobInv
  <2>4. MayStore(HostOf[job'[d].url], HintOf[job'[d].product])
    BY <2>2, <2>3
  <2> QED BY <1>1, <2>1, <2>2, <2>4, JobMoves DEF registry
<1> QED BY <1>3, <1>4, <1>5 DEF Acquire, Reject

\* What is saved is licensed, as the job that saves it found.
LEMMA SaveStep == ASSUME Inv, NEW d \in Jobs, Save(d) PROVE JobsInv' /\ ShelfInv'
<1> DEFINE item == [publisher |-> HintOf[job[d].product], host |-> HostOf[job[d].url],
                    kind |-> job[d].body.kind, loads |-> TRUE]
<1>1. /\ job[d] # None /\ UNCHANGED registry /\ JobInv(d) /\ job[d].step = "save"
      /\ shelf' = [shelf EXCEPT ![job[d].body.digest] = item]
  BY DEF Save, Doing, Inv, JobsInv
<1>2. MayStore(item.host, item.publisher) /\ {"host", "publisher"} \subseteq DOMAIN item
  BY <1>1 DEF JobInv
<1> HIDE DEF item
<1>3. ShelfInv'
  BY <1>1, <1>2 DEF Inv, ShelfInv, registry, MayStore, Licensed
<1>4. JobsInv'
  BY <1>1, DecideStep DEF Save
<1> QED BY <1>3, <1>4

\* Damage makes an artifact unreadable, but leaves its lineage.
LEMMA DamageStep ==
    ASSUME Inv, NEW h \in Digests, Damage(h) PROVE JobsInv' /\ ShelfInv'
<1>1. /\ shelf[h] # None /\ UNCHANGED registry /\ job' = job /\ DOMAIN shelf = Digests
      /\ shelf' = [shelf EXCEPT ![h].loads = FALSE]
      /\ {"host", "publisher"} \subseteq DOMAIN shelf[h]
  BY DEF Damage, Inv, ShelfInv
<1>2. DOMAIN shelf' = Digests /\ \A g \in Digests \ {h} : shelf'[g] = shelf[g]
  BY <1>1
<1>3. /\ shelf'[h].host = shelf[h].host /\ shelf'[h].publisher = shelf[h].publisher
      /\ {"host", "publisher"} \subseteq DOMAIN shelf'[h]
  BY <1>1
<1>4. ASSUME NEW g \in Digests, shelf'[g] # None
      PROVE  /\ {"host", "publisher"} \subseteq DOMAIN shelf'[g]
             /\ MayStore(shelf'[g].host, shelf'[g].publisher)
  BY <1>1, <1>2, <1>3, <1>4 DEF Inv, ShelfInv
<1>5. ShelfInv'
  BY <1>1, <1>2, <1>4 DEF ShelfInv, MayStore, Licensed, registry
<1>6. JobsInv'
  BY <1>1 DEF Inv, JobsInv, JobInv, ConfirmedFile, ConfirmedEntry, MayStore, Licensed, registry
<1> QED BY <1>5, <1>6

\* Inv holds of the initial states.
LEMMA InvInit == Init => Inv
BY RegistryStart DEF Init, Inv, JobsInv, JobInv, ShelfInv, RegistryInit

\* Inv is kept by every step.
LEMMA InvNext == Inv /\ [Next]_vars => Inv'
<1> SUFFICES ASSUME Inv, [Next]_vars PROVE Inv'
  OBVIOUS
<1>1. ASSUME NEW d \in Jobs, Job(d) PROVE Inv'
  <2>1. ASSUME NEW p \in Products, NEW mode \in Modes, Discover(d, p, mode) PROVE Inv'
    BY <2>1, StartStep DEF Discover
  <2>2. ASSUME NEW p \in Products, NEW u \in Urls, SupplySource(d, p, u) PROVE Inv'
    BY <2>2, StartStep DEF SupplySource
  <2>3. CASE Save(d)
    BY <2>3, SaveStep, RegistryRests DEF Inv, Save
  <2>4. ASSUME UNCHANGED <<registry, shelf>>, JobsInv' PROVE Inv'
    BY <2>4, RegistryRests DEF Inv, ShelfInv, MayStore, Licensed, registry
  <2>5. CASE PassOver(d) \/ BudgetExhausted(d) \/ FetchFails(d)
    BY <2>4, <2>5, DecideStep
       DEF PassOver, BudgetExhausted, FetchFails, Reject, AtCandidate, Doing, Keep
  <2>6. CASE \/ \E urls \in Results : SearchEnds(d, urls)
             \/ SearchRaises(d) \/ Fetch(d) \/ Finish(d)
             \/ \E body \in Bodies : Downloaded(d, body)
    <3>1. UNCHANGED <<registry, shelf>>
      BY <2>6 DEF SearchEnds, SearchRaises, Fetch, Finish, Downloaded, Keep
    <3> QED BY <2>4, <2>6, <3>1, QuietStep
  <2>7. CASE \E to \in Urls : Redirected(d, to)
    BY <2>4, <2>7, RedirectStep DEF Redirected, Keep
  <2>8. CASE Acquire(d)
    BY <2>4, <2>8, AcquireStep DEF Acquire, Keep
  <2>9. CASE Stop(d)
    BY <2>4, <2>9, StopStep DEF Stop, Keep
  <2> QED BY <1>1, <2>1, <2>2, <2>3, <2>5, <2>6, <2>7, <2>8, <2>9 DEF Job, FetchGoesOn
<1>2. ASSUME NEW o \in Operators, Review(o), UNCHANGED <<job, shelf>> PROVE Inv'
  <2>1. confirmed \subseteq confirmed'
    BY <1>2 DEF Review, Confirm, WriteBegins, WriteEnds, WriteStops
  <2> QED BY <1>2, <2>1, RegistryStep, MoreConfirmations DEF Inv
<1>3. ASSUME NEW h \in Digests, Damage(h) PROVE Inv'
  BY <1>3, DamageStep, RegistryRests DEF Inv, Damage
<1>4. CASE UNCHANGED vars
  BY <1>4, RegistryRests, MoreConfirmations DEF Inv, vars, registry
<1> QED BY <1>1, <1>2, <1>3, <1>4 DEF Next

\* The inductive invariant holds of every behaviour.
LEMMA InvHolds == Spec => []Inv
BY InvInit, InvNext, PTL DEF Spec

\* Every review on file is that of a person who confirmed all of the entry's
\* domains, for any number of operators at work on one registry file.
THEOREM ReviewsAreConfirmed == Spec => []ReviewsWereConfirmed
<1>1. Inv => ReviewsWereConfirmed
  <2> SUFFICES ASSUME Inv, file # Unreadable PROVE ConfirmedIn(file)
    BY DEF ReviewsWereConfirmed
  <2>1. ConfirmedFile(file)
    BY DEF Inv, RegistryInv
  <2> QED BY <2>1, ConfirmedFileIsConfirmedIn
<1> QED BY <1>1, InvHolds, PTL

\* Whatever the store holds came from a host of the maker the product's row
\* names, all of whose domains a person confirmed, for any number of jobs and
\* operators, any redirects and any documents.
THEOREM StoreIsLicensed == Spec => []StoredBytesAreLicensed
<1>1. Inv => StoredBytesAreLicensed
  BY DEF Inv, ShelfInv, MayStore, StoredBytesAreLicensed
<1> QED BY <1>1, InvHolds, PTL

(***************************************************************************)
(* The ranking.  Candidates are in a strict order, in which each has one   *)
(* place, so a ranked search holds each candidate once, the better first.  *)
(***************************************************************************)
LEMMA AuthoritiesAre ==
    ASSUME NEW f, NEW host, NEW hint PROVE AuthorityOf(f, host, hint) \in Authorities
BY DEF AuthorityOf, OwnerAuthority, ListAuthority, Authorities

LEMMA ClassifiedIsCandidate ==
    ASSUME NEW f, NEW p \in Products, NEW u \in Urls
    PROVE  LET c == Classified(f, p, u)
           IN  /\ c \in Candidates /\ c.url = u
               /\ ~c.fetched /\ c.artifact = None /\ c.status # "ACQUIRED"
               /\ c.status = "REJECTED" => c.rejections # {}
<1> DEFINE authority == AuthorityOf(f, HostOf[u], HintOf[p])
           reasons == RejectionReasons(authority, Relevance[u][p])
<1>1. authority \in Authorities /\ Relevance[u][p] \in Relevances
  BY AuthoritiesAre, DiscoveryAssumption
<1>2. reasons \subseteq Reasons
  BY <1>1 DEF RejectionReasons, Reasons
<1>3. Classified(f, p, u) =
         [url |-> u, authority |-> authority, relevance |-> Relevance[u][p],
          status |-> IF reasons = {} THEN "ACCEPTED_NOT_ACQUIRED" ELSE "REJECTED",
          rejections |-> reasons, fetched |-> FALSE, artifact |-> None]
  BY DEF Classified
<1> HIDE DEF authority, reasons
<1> QED BY <1>1, <1>2, <1>3 DEF Candidates, Statuses

LEMMA RanksAreNumbers ==
    ASSUME NEW c \in Candidates
    PROVE  /\ AuthorityOrder[c.authority] \in Int
           /\ RelevanceOrder[c.relevance] \in Int
           /\ Order[c.url] \in Int
<1>1. \A a \in Authorities : AuthorityOrder[a] \in Int
  BY DEF Authorities, AuthorityOrder
<1>2. \A r \in Relevances : RelevanceOrder[r] \in Int
  BY DEF Relevances, RelevanceOrder
<1>3. c.authority \in Authorities /\ c.relevance \in Relevances /\ c.url \in Urls
  BY DEF Candidates
<1>4. Order[c.url] \in Nat
  BY <1>3, DiscoveryAssumption
<1> QED BY <1>1, <1>2, <1>3, <1>4

\* Before orders candidates of different URLs strictly.
LEMMA BeforeIsStrict ==
    ASSUME NEW c \in Candidates, NEW d \in Candidates, NEW e \in Candidates
    PROVE  /\ ~Before(c, c)
           /\ Before(c, d) /\ Before(d, e) => Before(c, e)
           /\ c.url # d.url => Before(c, d) \/ Before(d, c)
<1>1. PICK ac \in Int, rc \in Int, oc \in Int :
         /\ ac = AuthorityOrder[c.authority] /\ rc = RelevanceOrder[c.relevance]
         /\ oc = Order[c.url]
  BY RanksAreNumbers
<1>2. PICK ad \in Int, rd \in Int, od \in Int :
         /\ ad = AuthorityOrder[d.authority] /\ rd = RelevanceOrder[d.relevance]
         /\ od = Order[d.url]
  BY RanksAreNumbers
<1>3. PICK ae \in Int, re \in Int, oe \in Int :
         /\ ae = AuthorityOrder[e.authority] /\ re = RelevanceOrder[e.relevance]
         /\ oe = Order[e.url]
  BY RanksAreNumbers
<1>4. c.url # d.url => oc # od
  <2>1. c.url \in Urls /\ d.url \in Urls
    BY DEF Candidates
  <2> QED BY <1>1, <1>2, <2>1, DiscoveryAssumption
<1> DEFINE Lower(a, r, o, b, s, q) ==
             a - b < 0 \/ (a - b = 0 /\ (r - s < 0 \/ (r - s = 0 /\ o < q)))
<1>5. /\ Before(c, c) <=> Lower(ac, rc, oc, ac, rc, oc)
      /\ Before(c, d) <=> Lower(ac, rc, oc, ad, rd, od)
      /\ Before(d, c) <=> Lower(ad, rd, od, ac, rc, oc)
      /\ Before(d, e) <=> Lower(ad, rd, od, ae, re, oe)
      /\ Before(c, e) <=> Lower(ac, rc, oc, ae, re, oe)
  BY <1>1, <1>2, <1>3 DEF Before
<1>6. /\ ~Lower(ac, rc, oc, ac, rc, oc)
      /\ Lower(ac, rc, oc, ad, rd, od) /\ Lower(ad, rd, od, ae, re, oe)
            => Lower(ac, rc, oc, ae, re, oe)
      /\ oc # od => Lower(ac, rc, oc, ad, rd, od) \/ Lower(ad, rd, od, ac, rc, oc)
  OBVIOUS
<1> HIDE DEF Lower
<1> QED BY <1>4, <1>5, <1>6

\* The places of finitely many candidates are 1 to their number, each taken
\* once, and a better candidate has an earlier place.
LEMMA PlacesAreDistinct ==
    ASSUME NEW cs \in SUBSET Candidates, IsFiniteSet(cs),
           \A c, d \in cs : c.url = d.url => c = d
    PROVE  /\ Cardinality(cs) \in Nat
           /\ \A c, d \in cs : Before(c, d) => Place(c, cs) < Place(d, cs)
           /\ \A n \in 1 .. Cardinality(cs) : \E c \in cs : Place(c, cs) = n
<1> DEFINE Below(c) == {other \in cs : Before(other, c)}
           place == [c \in cs |-> Place(c, cs)]
           size == Cardinality(cs)
<1>1. size \in Nat
  BY FS_CardinalityType
<1>2. ASSUME NEW c \in cs
      PROVE  /\ IsFiniteSet(Below(c)) /\ c \notin Below(c) /\ Below(c) \subseteq cs
             /\ Cardinality(Below(c)) \in Nat
             /\ Place(c, cs) = 1 + Cardinality(Below(c))
  <2>1. IsFiniteSet(Below(c))
    BY FS_Subset
  <2> QED BY <2>1, FS_CardinalityType, BeforeIsStrict DEF Place
<1>3. ASSUME NEW c \in cs, NEW d \in cs, Before(c, d)
      PROVE  Place(c, cs) < Place(d, cs)
  <2>1. Below(c) \subseteq Below(d)
    BY <1>3, BeforeIsStrict
  <2>2. c \in Below(d) /\ c \notin Below(c)
    BY <1>2, <1>3
  <2>3. /\ IsFiniteSet(Below(c)) /\ IsFiniteSet(Below(d))
        /\ Cardinality(Below(c)) \in Nat /\ Cardinality(Below(d)) \in Nat
    BY <1>2
  <2> HIDE DEF Below
  <2>4. Below(c) # Below(d)
    BY <2>2
  <2>5. Cardinality(Below(c)) < Cardinality(Below(d))
    BY <2>1, <2>3, <2>4, FS_Subset
  <2> QED BY <1>2, <2>3, <2>5
<1>4. ASSUME NEW c \in cs PROVE Place(c, cs) \in 1 .. size
  <2>1. /\ IsFiniteSet(Below(c)) /\ Cardinality(Below(c)) \in Nat
        /\ Place(c, cs) = 1 + Cardinality(Below(c))
        /\ Below(c) # cs /\ Below(c) \in SUBSET cs
    BY <1>2
  <2> HIDE DEF Below
  <2>2. Cardinality(Below(c)) < size
    BY <1>1, <2>1, FS_Subset
  <2> QED BY <1>1, <2>1, <2>2
<1>5. ASSUME NEW c \in cs, NEW d \in cs, Place(c, cs) = Place(d, cs) PROVE c = d
  <2> SUFFICES ASSUME c # d PROVE FALSE
    OBVIOUS
  <2>1. Before(c, d) \/ Before(d, c)
    BY BeforeIsStrict
  <2>2. Place(c, cs) \in Int /\ Place(d, cs) \in Int
    BY <1>1, <1>4
  <2>3. Place(c, cs) < Place(d, cs) \/ Place(d, cs) < Place(c, cs)
    BY <1>3, <2>1
  <2> QED BY <1>5, <2>2, <2>3
<1>6. place \in Injection(cs, 1 .. size)
  BY <1>4, <1>5 DEF Injection, IsInjective
<1>7. IsFiniteSet(1 .. size) /\ Cardinality(1 .. size) = size
  BY <1>1, FS_Interval
<1>8. place \in Surjection(cs, 1 .. size)
  <2> HIDE DEF place, size
  <2>1. Cardinality(cs) = Cardinality(1 .. size)
    BY <1>7 DEF size
  <2> QED BY <1>6, <1>7, <2>1, FS_Injection
<1>9. \A n \in 1 .. size : \E c \in cs : Place(c, cs) = n
  BY <1>8 DEF Surjection
<1> QED BY <1>1, <1>3, <1>9

\* What a ranked search is made of.
LEMMA RankedIsClassified ==
    ASSUME NEW f, NEW p \in Products, NEW urls \in Results
    PROVE  LET cs == Ranked(f, p, urls)
           IN  /\ cs \in Seq(Candidates)
               /\ \A i \in DOMAIN cs : \E u \in urls : cs[i] = Classified(f, p, u)
               /\ \A i, j \in DOMAIN cs : Before(cs[i], cs[j]) => i < j
<1> DEFINE all == {Classified(f, p, u) : u \in urls}
           cs == Ranked(f, p, urls)
<1>1. urls \subseteq Urls /\ IsFiniteSet(urls)
  BY DiscoveryAssumption
<1>2. all \in SUBSET Candidates /\ \A c, d \in all : c.url = d.url => c = d
  BY <1>1, ClassifiedIsCandidate
<1>3. IsFiniteSet(all)
  <2>1. [u \in urls |-> Classified(f, p, u)] \in Surjection(urls, all)
    BY DEF Surjection
  <2> QED BY <1>1, <2>1, FS_Surjection
<1>4. cs = [n \in 1 .. Cardinality(all) |-> CHOOSE c \in all : Place(c, all) = n]
  BY DEF Ranked
<1> HIDE DEF all, cs
<1>5. /\ Cardinality(all) \in Nat
      /\ \A c, d \in all : Before(c, d) => Place(c, all) < Place(d, all)
      /\ \A n \in 1 .. Cardinality(all) : \E c \in all : Place(c, all) = n
  BY <1>2, <1>3, PlacesAreDistinct
<1>6. \A n \in 1 .. Cardinality(all) : cs[n] \in all /\ Place(cs[n], all) = n
  BY <1>4, <1>5
<1>7. DOMAIN cs = 1 .. Cardinality(all)
  BY <1>4
<1>8. cs \in Seq(Candidates)
  BY <1>2, <1>4, <1>5, <1>6
<1>9. \A i, j \in DOMAIN cs : Before(cs[i], cs[j]) => i < j
  BY <1>5, <1>6, <1>7
<1> QED BY <1>6, <1>7, <1>8, <1>9 DEF all, cs

(***************************************************************************)
(* What a job reports.  Candidates before the one at hand are decided, the *)
(* ones after it untouched; each decided one that is eligible was fetched  *)
(* or found the budget spent by better ones; and the hops of a fetch are   *)
(* counted and safe.                                                       *)
(***************************************************************************)
Idle == {"search", "next", "done"}
Busy == {"hop", "acquire", "save"}

Fetched(j) == {i \in DOMAIN j.candidates : j.candidates[i].fetched}

\* What the step a job is at says of its fields.
StepKept(j) ==
    /\ j.step = "search" => j.candidates = << >> /\ j.at = 1
    /\ j.step = "done" => j.at > Len(j.candidates)
    /\ j.step \in Idle => j.chain = << >>
    /\ j.step \in Busy => j.url \in Urls /\ j.at \in DOMAIN j.candidates
    /\ j.step \in {"acquire", "save"} => j.body \in Bodies
    /\ j.step = "save" => j.body.kind = KindOf[j.body.digest]

LeftOut(j, i) ==
    /\ "FETCH_BUDGET_EXHAUSTED" \in j.candidates[i].rejections
    /\ j.attempts = MaxFetches
    /\ \A n \in Fetched(j) : n < i

BudgetKept(j) ==
    /\ Cardinality(Fetched(j)) = j.attempts /\ j.attempts <= MaxFetches
    /\ \A i \in Fetched(j) : i <= j.at
    /\ j.step \in Idle => j.at \notin Fetched(j)
    /\ j.step \in Busy => j.at \in Fetched(j)
    /\ j.mode # "survey" =>
          \A i \in DOMAIN j.candidates :
              i < j.at /\ Eligible(j.candidates[i]) /\ i \notin Fetched(j) => LeftOut(j, i)

\* A candidate is rejected for a reason and acquired as an artifact, and only
\* when it is decided.
Fate(c, decided) ==
    /\ c.status = "REJECTED" => c.rejections # {}
    /\ c.status = "ACQUIRED" <=> c.artifact # None
    /\ ~decided => c.status # "ACQUIRED"

FatesKept(j) == \A i \in DOMAIN j.candidates : Fate(j.candidates[i], i < j.at)

TrailKept(j) ==
    /\ j.step = "hop" => /\ Len(j.chain) <= MaxRedirects
                         /\ j.chain = << >> => j.url = j.candidates[j.at].url
    /\ j.chain # << >> => /\ j.chain[1] = j.candidates[j.at].url
                          /\ \A i \in DOMAIN j.chain : HostOf[j.chain[i]] \notin Unsafe
                          /\ Len(j.chain) <= MaxRedirects + 1

JobKept(j) ==
    j \in JobStates /\ StepKept(j) /\ BudgetKept(j) /\ FatesKept(j) /\ TrailKept(j)

ReportInv ==
    /\ job \in [Jobs -> JobStates \cup {None}]
    /\ \A d \in Jobs : job[d] # None => JobKept(job[d])
    /\ shelf \in [Digests -> Artifacts \cup {None}]
    /\ \A h \in Digests : shelf[h] # None => shelf[h].kind = KindOf[h]
    /\ \A d \in Jobs : job[d] # None =>
          \A i \in DOMAIN job[d].candidates :
              job[d].candidates[i].artifact # None => shelf[job[d].candidates[i].artifact] # None

\* The typed fields of a job, one by one.
LEMMA JobFields ==
    ASSUME NEW j \in JobStates
    PROVE  /\ DOMAIN j = Fields
           /\ j.candidates \in Seq(Candidates) /\ j.at \in Nat \ {0} /\ j.attempts \in Nat
           /\ Len(j.candidates) \in Nat /\ DOMAIN j.candidates = 1 .. Len(j.candidates)
           /\ \A i \in DOMAIN j.candidates : j.candidates[i] \in Candidates
           /\ j.chain \in Seq(Urls) /\ j.url \in Urls \cup {None}
           /\ j.product \in Products /\ j.registry \in Registries /\ j.mode \in Modes
BY DEF JobStates, Fields

LEMMA FetchedIsFinite ==
    ASSUME NEW j \in JobStates
    PROVE  IsFiniteSet(Fetched(j)) /\ Cardinality(Fetched(j)) \in Nat
<1>1. Len(j.candidates) \in Nat /\ DOMAIN j.candidates = 1 .. Len(j.candidates)
  BY JobFields
<1>2. IsFiniteSet(1 .. Len(j.candidates))
  BY <1>1, FS_Interval
<1>3. Fetched(j) \subseteq 1 .. Len(j.candidates)
  BY <1>1 DEF Fetched
<1> QED BY <1>2, <1>3, FS_Subset, FS_CardinalityType

\* A job none of whose candidates has been looked at.
LEMMA UntouchedIsKept ==
    ASSUME NEW j \in JobStates, j.step \in {"search", "next"}, j.at = 1, j.attempts = 0,
           j.chain = << >>, j.step = "search" => j.candidates = << >>,
           \A i \in DOMAIN j.candidates :
              ~j.candidates[i].fetched /\ Fate(j.candidates[i], FALSE)
    PROVE  JobKept(j)
<1>1. Fetched(j) = {}
  BY DEF Fetched
<1>2. \A i \in DOMAIN j.candidates : ~(i < j.at)
  BY JobFields
<1>3. StepKept(j)
  BY DEF StepKept, Idle, Busy
<1>4. BudgetKept(j)
  <2>1. Cardinality(Fetched(j)) = 0 /\ 0 <= MaxFetches
    BY <1>1, FS_EmptySet, DiscoveryAssumption
  <2>2. j.step \notin Busy
    BY DEF Busy
  <2> QED BY <1>1, <1>2, <2>1, <2>2 DEF BudgetKept
<1>5. FatesKept(j)
  BY <1>2 DEF FatesKept, Fate
<1>6. TrailKept(j)
  BY DEF TrailKept
<1> QED BY <1>3, <1>4, <1>5, <1>6 DEF JobKept

\* A classified candidate is one that nothing has been done about.
LEMMA ClassifiedIsUntouched ==
    ASSUME NEW f, NEW p \in Products, NEW u \in Urls
    PROVE  ~Classified(f, p, u).fetched /\ Fate(Classified(f, p, u), FALSE)
BY ClassifiedIsCandidate DEF Fate

LEMMA FreshKept ==
    ASSUME NEW f \in Registries, NEW p \in Products, NEW mode \in Modes,
           NEW step \in {"search", "next"}, NEW candidates \in Seq(Candidates),
           step = "search" => candidates = << >>,
           \A i \in DOMAIN candidates : ~candidates[i].fetched /\ Fate(candidates[i], FALSE)
    PROVE  JobKept([product |-> p, registry |-> f, mode |-> mode, step |-> step,
                    candidates |-> candidates, at |-> 1, attempts |-> 0,
                    chain |-> << >>, url |-> None, body |-> None])
<1> DEFINE j == [product |-> p, registry |-> f, mode |-> mode, step |-> step,
                 candidates |-> candidates, at |-> 1, attempts |-> 0,
                 chain |-> << >>, url |-> None, body |-> None]
<1>1. j \in JobStates
  BY DEF JobStates
<1>2. /\ j.step = step /\ j.candidates = candidates /\ j.at = 1 /\ j.attempts = 0
      /\ j.chain = << >>
  OBVIOUS
<1> HIDE DEF j
<1>3. JobKept(j)
  BY <1>1, <1>2, UntouchedIsKept
<1> QED BY <1>3 DEF j

LEMMA SearchKept ==
    ASSUME NEW j, JobKept(j), j.step = "search", NEW urls \in Results
    PROVE  JobKept([j EXCEPT !.candidates = Ranked(j.registry, j.product, urls),
                             !.step = "next"])
<1> DEFINE cs == Ranked(j.registry, j.product, urls)
           k == [j EXCEPT !.candidates = cs, !.step = "next"]
<1>1. j \in JobStates /\ DOMAIN j = Fields /\ j.product \in Products
  BY JobFields DEF JobKept
<1>2. /\ cs \in Seq(Candidates)
      /\ \A i \in DOMAIN cs : \E u \in urls : cs[i] = Classified(j.registry, j.product, u)
  BY <1>1, RankedIsClassified
<1>3. ASSUME NEW i \in DOMAIN cs PROVE ~cs[i].fetched /\ Fate(cs[i], FALSE)
  <2>1. PICK u \in urls : cs[i] = Classified(j.registry, j.product, u)
    BY <1>2
  <2>2. u \in Urls
    BY DiscoveryAssumption
  <2> QED BY <1>1, <2>1, <2>2, ClassifiedIsUntouched
<1>4. j.attempts = 0 /\ j.at = 1 /\ j.chain = << >>
  <2>1. j.candidates = << >> /\ j.at = 1 /\ j.chain = << >>
    BY DEF JobKept, StepKept, Idle
  <2>2. Fetched(j) = {}
    BY <2>1 DEF Fetched
  <2> QED BY <2>1, <2>2, FS_EmptySet DEF JobKept, BudgetKept
<1> HIDE DEF cs
<1>5. /\ k.step = "next" /\ k.candidates = cs /\ k.at = 1 /\ k.attempts = 0
      /\ k.chain = << >>
  BY <1>1, <1>4 DEF Fields
<1>6. k \in JobStates
  BY <1>1, <1>2 DEF JobStates
<1> HIDE DEF k
<1>7. JobKept(k)
  BY <1>3, <1>5, <1>6, UntouchedIsKept
<1> QED BY <1>7 DEF k, cs

\* What Decide makes of the record of a job.
Made(c, status, rejections, artifact) ==
    [c EXCEPT !.status = status, !.artifact = artifact,
              !.rejections = c.rejections \cup rejections]

Settled(j, status, rejections, artifact) ==
    [j EXCEPT
        !.candidates = [j.candidates EXCEPT
                          ![j.at] = Made(j.candidates[j.at], status, rejections, artifact)],
        !.at = j.at + 1, !.step = "next", !.chain = << >>, !.url = None, !.body = None]

LEMMA DecideSettles ==
    ASSUME NEW d \in Jobs, DOMAIN job = Jobs, job[d] \in JobStates,
           job[d].at \in DOMAIN job[d].candidates,
           NEW status, NEW rejections, NEW artifact, Decide(d, status, rejections, artifact)
    PROVE  /\ DOMAIN job' = Jobs /\ \A e \in Jobs \ {d} : job'[e] = job[e]
           /\ job'[d] = Settled(job[d], status, rejections, artifact)
<1>1. job' = [job EXCEPT ![d] = Settled(job[d], status, rejections, artifact)]
  BY DEF Decide, Settled, Made, Current
<1> QED BY <1>1

LEMMA NoHopIsASequence == << >> \in Seq(Urls)
OBVIOUS

\* A candidate that is decided has its fate, and was fetched, is of no use, or
\* came after the budget was spent.
LEMMA SettledKept ==
    ASSUME NEW j, JobKept(j), j.step \in {"next"} \cup Busy, j.at \in DOMAIN j.candidates,
           NEW status \in Statuses, NEW rejections \in SUBSET Reasons,
           NEW artifact \in Digests \cup {None},
           status = "ACQUIRED" <=> artifact # None,
           status = "REJECTED" => rejections \cup j.candidates[j.at].rejections # {},
           j.mode # "survey" /\ Eligible(j.candidates[j.at]) /\ j.at \notin Fetched(j) =>
              "FETCH_BUDGET_EXHAUSTED" \in rejections /\ j.attempts = MaxFetches
    PROVE  JobKept(Settled(j, status, rejections, artifact))
<1> DEFINE at == j.at
           c == j.candidates[at]
           made == Made(c, status, rejections, artifact)
           cs == [j.candidates EXCEPT ![at] = made]
           k == Settled(j, status, rejections, artifact)
<1>1. j \in JobStates
  BY DEF JobKept
<1>2. /\ DOMAIN j = Fields /\ c \in Candidates /\ at \in Nat \ {0}
      /\ j.candidates \in Seq(Candidates)
      /\ Len(j.candidates) \in Nat /\ DOMAIN j.candidates = 1 .. Len(j.candidates)
  BY <1>1, JobFields
<1>3. /\ made \in Candidates /\ made.url = c.url /\ made.fetched = c.fetched
      /\ made.authority = c.authority /\ made.relevance = c.relevance
      /\ made.status = status /\ made.artifact = artifact
      /\ made.rejections = c.rejections \cup rejections
  <2> HIDE DEF c
  <2> QED BY <1>2 DEF Candidates, Made
<1>4. k = [j EXCEPT !.candidates = cs, !.at = at + 1, !.step = "next", !.chain = << >>,
                    !.url = None, !.body = None]
  BY DEF Settled
<1> HIDE DEF made, k
<1>5. /\ cs \in Seq(Candidates) /\ DOMAIN cs = DOMAIN j.candidates /\ cs[at] = made
      /\ \A i \in DOMAIN cs : i # at => cs[i] = j.candidates[i]
  BY <1>2, <1>3
<1> HIDE DEF cs, c
<1>6. /\ k.candidates = cs /\ k.at = at + 1 /\ k.step = "next" /\ k.chain = << >>
      /\ k.attempts = j.attempts /\ k.mode = j.mode
  BY <1>2, <1>4 DEF Fields
<1>7. k \in JobStates
  <2>1. cs \in Seq(Candidates) /\ at + 1 \in Nat \ {0}
    BY <1>2, <1>5
  <2>2. PICK n \in Nat \ {0} : n = at + 1
    BY <2>1
  <2> DEFINE half == [j EXCEPT !.candidates = cs, !.at = n, !.step = "next"]
  <2>3. k = [half EXCEPT !.chain = << >>, !.url = None, !.body = None]
    BY <1>2, <1>4, <2>2 DEF Fields
  <2> HIDE DEF at
  <2>4. half \in JobStates
    BY <1>1, <2>1 DEF JobStates
  <2> HIDE DEF half
  <2>5. PICK empty \in Seq(Urls) : empty = << >>
    BY NoHopIsASequence
  <2>6. k = [half EXCEPT !.chain = empty, !.url = None, !.body = None]
    BY <2>3, <2>5
  <2> QED BY <2>4, <2>6 DEF JobStates
<1>8. Fetched(k) = Fetched(j)
  BY <1>3, <1>5, <1>6 DEF Fetched, c
<1>9. StepKept(k)
  BY <1>6 DEF StepKept, Busy
<1>10. BudgetKept(k)
  <2>1. /\ Cardinality(Fetched(k)) = k.attempts /\ k.attempts <= MaxFetches
        /\ \A i \in Fetched(j) : i <= at
    BY <1>6, <1>8 DEF JobKept, BudgetKept
  <2>2. Fetched(j) \subseteq DOMAIN j.candidates
    BY DEF Fetched
  <2>3. \A i \in Fetched(k) : i <= k.at /\ k.at \notin Fetched(k)
    BY <1>2, <1>6, <1>8, <2>1, <2>2
  <2>4. ASSUME k.mode # "survey", NEW i \in DOMAIN k.candidates, i < k.at,
               Eligible(k.candidates[i]), i \notin Fetched(k)
        PROVE  LeftOut(k, i)
    <3>1. i \in DOMAIN j.candidates /\ i \notin Fetched(j) /\ j.mode # "survey"
      BY <1>5, <1>6, <1>8, <2>4
    <3>2. CASE i = at
      <4>1. Eligible(c)
        BY <1>3, <1>5, <1>6, <2>4, <3>2 DEF Eligible
      <4>2. "FETCH_BUDGET_EXHAUSTED" \in rejections /\ j.attempts = MaxFetches
        BY <3>1, <3>2, <4>1 DEF c
      <4>3. "FETCH_BUDGET_EXHAUSTED" \in k.candidates[i].rejections
        BY <1>3, <1>5, <1>6, <3>2, <4>2
      <4>4. \A n \in Fetched(j) : n # at /\ n <= at /\ n \in Nat
        BY <1>2, <2>1, <2>2, <3>1, <3>2
      <4>5. \A n \in Fetched(j) : n < i
        BY <1>2, <3>2, <4>4
      <4> QED BY <1>6, <1>8, <4>2, <4>3, <4>5 DEF LeftOut
    <3>3. CASE i # at
      <4>1. i < at
        BY <1>2, <1>6, <2>4, <3>1, <3>3
      <4>2. k.candidates[i] = j.candidates[i]
        BY <1>5, <1>6, <2>4, <3>3
      <4>3. LeftOut(j, i)
        BY <2>4, <3>1, <4>1, <4>2 DEF JobKept, BudgetKept
      <4> QED BY <1>6, <1>8, <4>2, <4>3 DEF LeftOut
    <3> QED BY <3>2, <3>3
  <2>5. k.step \notin Busy
    BY <1>6 DEF Busy
  <2>6. k.at \notin Fetched(k)
    BY <1>2, <1>6, <1>8, <2>1
  <2> QED BY <2>1, <2>3, <2>4, <2>5, <2>6, <1>8 DEF BudgetKept
<1>11. FatesKept(k)
  <2> SUFFICES ASSUME NEW i \in DOMAIN cs PROVE Fate(cs[i], i < at + 1)
    BY <1>6 DEF FatesKept
  <2>1. CASE i = at
    <3>1. cs[i].rejections = c.rejections \cup rejections
      BY <1>3, <1>5, <2>1
    <3>2. status = "REJECTED" => cs[i].rejections # {}
      BY <3>1 DEF c
    <3>3. i < at + 1
      BY <1>2, <2>1
    <3> QED BY <1>3, <1>5, <2>1, <3>2, <3>3 DEF Fate
  <2>2. CASE i # at
    <3>1. i < at + 1 <=> i < at
      BY <1>2, <1>5, <2>2
    <3>2. Fate(j.candidates[i], i < at)
      BY <1>5 DEF JobKept, FatesKept
    <3> QED BY <1>5, <2>2, <3>1, <3>2 DEF Fate
  <2> QED BY <2>1, <2>2
<1>12. TrailKept(k)
  BY <1>6 DEF TrailKept
<1> QED BY <1>7, <1>9, <1>10, <1>11, <1>12 DEF JobKept, k

\* The candidate at hand is fetched, with a fetch left in the budget.
LEMMA FetchKept ==
    ASSUME NEW j, JobKept(j), j.step = "next", j.at \in DOMAIN j.candidates,
           j.attempts < MaxFetches
    PROVE  JobKept([j EXCEPT !.attempts = j.attempts + 1, !.step = "hop",
                             !.url = j.candidates[j.at].url,
                             !.candidates = [j.candidates EXCEPT
                                ![j.at] = [j.candidates[j.at] EXCEPT !.fetched = TRUE]]])
<1> DEFINE at == j.at
           c == j.candidates[at]
           made == [c EXCEPT !.fetched = TRUE]
           cs == [j.candidates EXCEPT ![at] = made]
           k == [j EXCEPT !.attempts = j.attempts + 1, !.step = "hop",
                          !.url = c.url, !.candidates = cs]
<1>1. j \in JobStates
  BY DEF JobKept
<1>2. /\ DOMAIN j = Fields /\ c \in Candidates /\ at \in Nat \ {0} /\ j.attempts \in Nat
      /\ j.candidates \in Seq(Candidates)
      /\ Len(j.candidates) \in Nat /\ DOMAIN j.candidates = 1 .. Len(j.candidates)
  BY <1>1, JobFields
<1>3. /\ made \in Candidates /\ made.url = c.url /\ made.fetched
      /\ made.authority = c.authority /\ made.relevance = c.relevance
      /\ made.status = c.status /\ made.artifact = c.artifact
      /\ made.rejections = c.rejections /\ c.url \in Urls
  <2> HIDE DEF c
  <2> QED BY <1>2 DEF Candidates
<1> HIDE DEF made, k
<1>4. /\ cs \in Seq(Candidates) /\ DOMAIN cs = DOMAIN j.candidates /\ cs[at] = made
      /\ Len(cs) = Len(j.candidates)
      /\ \A i \in DOMAIN cs : i # at => cs[i] = j.candidates[i]
  BY <1>2, <1>3
<1> HIDE DEF cs, c
<1>5. /\ k.candidates = cs /\ k.at = at /\ k.step = "hop" /\ k.chain = j.chain
      /\ k.attempts = j.attempts + 1 /\ k.mode = j.mode /\ k.url = c.url
  BY <1>2 DEF Fields, k
<1>6. k \in JobStates
  <2>1. j.attempts + 1 \in Nat
    BY <1>2
  <2>2. PICK n \in Nat : n = j.attempts + 1
    BY <2>1
  <2>3. k = [j EXCEPT !.attempts = n, !.step = "hop", !.url = c.url, !.candidates = cs]
    BY <2>2 DEF k
  <2> QED BY <1>1, <1>3, <1>4, <2>3 DEF JobStates
<1>7. j.chain = << >> /\ at \notin Fetched(j)
  BY DEF JobKept, StepKept, BudgetKept, Idle
<1>8. Fetched(k) = Fetched(j) \cup {at}
  BY <1>3, <1>4, <1>5 DEF Fetched
<1>9. Cardinality(Fetched(j)) = j.attempts /\ \A i \in Fetched(j) : i <= at
  BY DEF JobKept, BudgetKept
<1>10. StepKept(k)
  BY <1>3, <1>4, <1>5 DEF StepKept, Idle, Busy
<1>11. BudgetKept(k)
  <2>1. Cardinality(Fetched(k)) = j.attempts + 1
    BY <1>1, <1>7, <1>8, <1>9, FetchedIsFinite, FS_AddElement
  <2>2. j.attempts + 1 <= MaxFetches
    BY <1>2, DiscoveryAssumption
  <2>3. \A i \in Fetched(k) : i <= at
    BY <1>2, <1>8, <1>9
  <2>4. k.step \notin Idle /\ at \in Fetched(k)
    BY <1>5, <1>8 DEF Idle
  <2>5. ASSUME k.mode # "survey", NEW i \in DOMAIN k.candidates, i < k.at,
               Eligible(k.candidates[i]), i \notin Fetched(k)
        PROVE  LeftOut(k, i)
    <3>1. i \in DOMAIN j.candidates /\ i \notin Fetched(j) /\ j.mode # "survey" /\ i < j.at
      BY <1>4, <1>5, <1>8, <2>5
    <3>2. i # at
      BY <1>8, <2>5
    <3>3. Eligible(j.candidates[i])
      BY <1>4, <1>5, <2>5, <3>2
    <3>4. LeftOut(j, i)
      BY <3>1, <3>3 DEF JobKept, BudgetKept
    <3>5. j.attempts = MaxFetches
      BY <3>4 DEF LeftOut
    <3> QED BY <1>2, <3>5, DiscoveryAssumption
  <2> QED BY <1>5, <2>1, <2>2, <2>3, <2>4, <2>5 DEF BudgetKept
<1>12. FatesKept(k)
  <2> SUFFICES ASSUME NEW i \in DOMAIN cs PROVE Fate(cs[i], i < at)
    BY <1>5 DEF FatesKept
  <2>1. Fate(j.candidates[i], i < at)
    BY <1>4 DEF JobKept, FatesKept
  <2>2. i = at => Fate(cs[i], i < at)
    BY <1>3, <1>4, <2>1 DEF Fate, c
  <2> QED BY <1>4, <2>1, <2>2
<1>13. TrailKept(k)
  <2>1. k.url = k.candidates[k.at].url
    BY <1>3, <1>4, <1>5
  <2>2. Len(k.chain) = 0 /\ 0 <= MaxRedirects
    BY <1>5, <1>7, DiscoveryAssumption
  <2> QED BY <1>5, <1>7, <2>1, <2>2 DEF TrailKept
<1> QED BY <1>6, <1>10, <1>11, <1>12, <1>13 DEF JobKept, k, cs, made, c

\* A job that goes on to a step with the same candidates, at the same one.
LEMMA OnwardKept ==
    ASSUME NEW j, JobKept(j), NEW k \in JobStates,
           k.candidates = j.candidates, k.at = j.at, k.attempts = j.attempts, k.mode = j.mode,
           StepKept(k), TrailKept(k),
           k.step \in Idle => j.step \in Idle, k.step \in Busy => j.step \in Busy
    PROVE  JobKept(k)
<1>1. Fetched(k) = Fetched(j)
  BY DEF Fetched
<1>2. BudgetKept(k)
  BY <1>1 DEF JobKept, BudgetKept, LeftOut
<1>3. FatesKept(k)
  BY DEF JobKept, FatesKept
<1> QED BY <1>2, <1>3 DEF JobKept

\* A search that raises, a loop that ends, an error that nothing catches, and
\* bytes that are about to be stored.
LEMMA StepsKept ==
    ASSUME NEW j, JobKept(j), NEW step,
           \/ step = "aborted"
           \/ step = "done" /\ j.step = "next" /\ j.at > Len(j.candidates)
           \/ /\ step = "save" /\ j.step = "acquire"
              /\ j.body.kind = KindOf[j.body.digest]
    PROVE  JobKept([j EXCEPT !.step = step])
<1> DEFINE k == [j EXCEPT !.step = step]
<1>1. j \in JobStates /\ DOMAIN j = Fields
  BY JobFields DEF JobKept
<1>2. k \in JobStates
  BY <1>1 DEF JobStates
<1>3. /\ k.candidates = j.candidates /\ k.at = j.at /\ k.attempts = j.attempts
      /\ k.mode = j.mode /\ k.step = step /\ k.chain = j.chain /\ k.url = j.url
      /\ k.body = j.body
  BY <1>1 DEF Fields
<1> HIDE DEF k
<1>4. StepKept(k)
  BY <1>3 DEF JobKept, StepKept, Idle, Busy
<1>5. TrailKept(k)
  BY <1>3 DEF JobKept, TrailKept
<1>6. JobKept(k)
  BY <1>2, <1>3, <1>4, <1>5, OnwardKept DEF Idle, Busy
<1> QED BY <1>6 DEF k

LEMMA HopIsLast ==
    ASSUME NEW old \in Seq(Urls), NEW url \in Urls
    PROVE  LET longer == Append(old, url)
           IN  /\ longer \in Seq(Urls) /\ longer # << >> /\ Len(longer) = Len(old) + 1
               /\ old = << >> => longer[1] = url
               /\ old # << >> => longer[1] = old[1]
               /\ \A i \in DOMAIN longer :
                     longer[i] = url \/ (i \in DOMAIN old /\ longer[i] = old[i])
<1> DEFINE longer == Append(old, url)
<1>1. longer \in Seq(Urls) /\ Len(longer) = Len(old) + 1 /\ Len(old) \in Nat
  OBVIOUS
<1>2. longer # << >>
  BY <1>1
<1>3. old = << >> => longer[1] = url
  OBVIOUS
<1>4. old # << >> => longer[1] = old[1]
  OBVIOUS
<1>5. ASSUME NEW i \in DOMAIN longer
      PROVE  longer[i] = url \/ (i \in DOMAIN old /\ longer[i] = old[i])
  <2>1. i \in 1 .. Len(old) + 1 /\ DOMAIN old = 1 .. Len(old)
    BY <1>1
  <2>2. i \in 1 .. Len(old) => longer[i] = old[i]
    OBVIOUS
  <2>3. i = Len(old) + 1 => longer[i] = url
    OBVIOUS
  <2>4. i \in 1 .. Len(old) \/ i = Len(old) + 1
    BY <1>1, <2>1
  <2>5. i \in 1 .. Len(old) => i \in DOMAIN old
    BY <2>1
  <2> HIDE DEF longer
  <2> QED BY <2>2, <2>3, <2>4, <2>5
<1> QED BY <1>1, <1>2, <1>3, <1>4, <1>5

\* A hop to a safe host is added to the chain.
LEMMA TrailGrows ==
    ASSUME NEW j, JobKept(j), j.step = "hop", HostOf[j.url] \notin Unsafe
    PROVE  LET chain == Append(j.chain, j.url)
           IN  /\ chain \in Seq(Urls) /\ chain # << >>
               /\ chain[1] = j.candidates[j.at].url
               /\ \A i \in DOMAIN chain : HostOf[chain[i]] \notin Unsafe
               /\ Len(chain) = Len(j.chain) + 1
<1> DEFINE chain == Append(j.chain, j.url)
<1>1. j.chain \in Seq(Urls) /\ j.url \in Urls
  BY JobFields DEF JobKept, StepKept, Busy
<1>2. /\ j.chain = << >> => j.url = j.candidates[j.at].url
      /\ j.chain # << >> => /\ j.chain[1] = j.candidates[j.at].url
                            /\ \A i \in DOMAIN j.chain : HostOf[j.chain[i]] \notin Unsafe
  BY DEF JobKept, TrailKept
<1>3. PICK old \in Seq(Urls), url \in Urls : old = j.chain /\ url = j.url
  BY <1>1
<1> QED BY <1>2, <1>3, HopIsLast

LEMMA RedirectKept ==
    ASSUME NEW j, JobKept(j), j.step = "hop", HostOf[j.url] \notin Unsafe,
           Len(j.chain) < MaxRedirects, NEW to \in Urls
    PROVE  JobKept([j EXCEPT !.chain = Append(j.chain, j.url), !.url = to])
<1> DEFINE chain == Append(j.chain, j.url)
           k == [j EXCEPT !.chain = chain, !.url = to]
<1>1. j \in JobStates /\ DOMAIN j = Fields /\ j.chain \in Seq(Urls)
  BY JobFields DEF JobKept
<1>2. /\ chain \in Seq(Urls) /\ chain # << >>
      /\ chain[1] = j.candidates[j.at].url
      /\ \A i \in DOMAIN chain : HostOf[chain[i]] \notin Unsafe
      /\ Len(chain) = Len(j.chain) + 1
  BY TrailGrows
<1>3. Len(chain) <= MaxRedirects
  BY <1>1, <1>2, DiscoveryAssumption
<1> HIDE DEF chain
<1>4. k \in JobStates
  BY <1>1, <1>2 DEF JobStates
<1>5. /\ k.candidates = j.candidates /\ k.at = j.at /\ k.attempts = j.attempts
      /\ k.mode = j.mode /\ k.step = "hop" /\ k.chain = chain /\ k.url = to
  BY <1>1 DEF Fields
<1> HIDE DEF k
<1>6. StepKept(k)
  BY <1>5 DEF JobKept, StepKept, Idle, Busy
<1>7. TrailKept(k)
  <2>1. Len(chain) <= MaxRedirects + 1
    BY <1>2, <1>3, DiscoveryAssumption
  <2> QED BY <1>2, <1>3, <1>5, <2>1 DEF TrailKept
<1>8. JobKept(k)
  BY <1>4, <1>5, <1>6, <1>7, OnwardKept DEF Idle, Busy
<1> QED BY <1>8 DEF k, chain

LEMMA DownloadKept ==
    ASSUME NEW j, JobKept(j), j.step = "hop", HostOf[j.url] \notin Unsafe, NEW body \in Bodies
    PROVE  JobKept([j EXCEPT !.chain = Append(j.chain, j.url), !.body = body,
                             !.step = "acquire"])
<1> DEFINE chain == Append(j.chain, j.url)
           k == [j EXCEPT !.chain = chain, !.body = body, !.step = "acquire"]
<1>1. j \in JobStates /\ DOMAIN j = Fields /\ j.chain \in Seq(Urls)
  BY JobFields DEF JobKept
<1>2. /\ chain \in Seq(Urls) /\ chain # << >>
      /\ chain[1] = j.candidates[j.at].url
      /\ \A i \in DOMAIN chain : HostOf[chain[i]] \notin Unsafe
      /\ Len(chain) = Len(j.chain) + 1
  BY TrailGrows
<1>3. Len(chain) <= MaxRedirects + 1
  <2>1. Len(j.chain) <= MaxRedirects
    BY DEF JobKept, TrailKept
  <2> QED BY <1>1, <1>2, <2>1, DiscoveryAssumption
<1> HIDE DEF chain
<1>4. k \in JobStates
  BY <1>1, <1>2 DEF JobStates
<1>5. /\ k.candidates = j.candidates /\ k.at = j.at /\ k.attempts = j.attempts
      /\ k.mode = j.mode /\ k.step = "acquire" /\ k.chain = chain /\ k.url = j.url
      /\ k.body = body
  BY <1>1 DEF Fields
<1> HIDE DEF k
<1>6. StepKept(k)
  BY <1>5 DEF JobKept, StepKept, Idle, Busy
<1>7. TrailKept(k)
  BY <1>2, <1>3, <1>5 DEF TrailKept
<1>8. JobKept(k)
  BY <1>4, <1>5, <1>6, <1>7, OnwardKept DEF Idle, Busy
<1> QED BY <1>8 DEF k, chain

(***************************************************************************)
(* The steps of the jobs.  What one does to its own record keeps it, and   *)
(* an artifact that a candidate names is never taken away.                 *)
(***************************************************************************)
Named(j) == {j.candidates[i].artifact : i \in DOMAIN j.candidates} \ {None}

\* One job changes, and every artifact it names is stored.
LEMMA ReportMoves ==
    ASSUME ReportInv, NEW d \in Jobs, NEW j, JobKept(j), job' = [job EXCEPT ![d] = j],
           shelf' \in [Digests -> Artifacts \cup {None}],
           \A h \in Digests : shelf'[h] # None => shelf'[h].kind = KindOf[h],
           \A h \in Digests : shelf[h] # None => shelf'[h] # None,
           \A h \in Named(j) : shelf'[h] # None
    PROVE  ReportInv'
<1>1. /\ DOMAIN job' = Jobs /\ job'[d] = j
      /\ \A e \in Jobs \ {d} : job'[e] = job[e]
  BY DEF ReportInv
<1>2. \A e \in Jobs : job'[e] # None => JobKept(job'[e])
  BY <1>1 DEF ReportInv
<1>4. job' \in [Jobs -> JobStates \cup {None}]
  BY DEF ReportInv, JobKept
<1>3. ASSUME NEW e \in Jobs, job'[e] # None, NEW i \in DOMAIN job'[e].candidates,
             job'[e].candidates[i].artifact # None
      PROVE  shelf'[job'[e].candidates[i].artifact] # None
  <2>1. CASE e = d
    BY <1>1, <1>3, <2>1 DEF Named
  <2>2. CASE e # d
    <3>1. job'[e] = job[e]
      BY <1>1, <2>2
    <3>2. JobKept(job[e]) /\ shelf[job[e].candidates[i].artifact] # None
      BY <1>3, <3>1 DEF ReportInv
    <3>3. job[e].candidates[i].artifact \in Digests
      <4>1. job[e].candidates[i] \in Candidates
        BY <1>3, <3>1, <3>2, JobFields DEF JobKept
      <4> QED BY <1>3, <3>1, <4>1 DEF Candidates
    <3> QED BY <3>1, <3>2, <3>3
  <2> QED BY <2>1, <2>2
<1> QED BY <1>1, <1>2, <1>3, <1>4 DEF ReportInv

\* The same, when the store is left alone.
LEMMA ReportRests ==
    ASSUME ReportInv, NEW d \in Jobs, NEW j, JobKept(j), job' = [job EXCEPT ![d] = j],
           shelf' = shelf, \A h \in Named(j) : shelf[h] # None
    PROVE  ReportInv'
BY ReportMoves DEF ReportInv

\* A job's own artifacts are stored.
LEMMA NamedAreStored ==
    ASSUME ReportInv, NEW d \in Jobs, job[d] # None, NEW h \in Named(job[d])
    PROVE  h \in Digests /\ shelf[h] # None
<1>1. PICK i \in DOMAIN job[d].candidates : h = job[d].candidates[i].artifact /\ h # None
  BY DEF Named
<1>2. job[d].candidates[i] \in Candidates
  BY JobFields DEF ReportInv, JobKept
<1> QED BY <1>1, <1>2 DEF ReportInv, Candidates

\* A decision adds at most the artifact it is about.
LEMMA SettledNames ==
    ASSUME NEW j \in JobStates, j.at \in DOMAIN j.candidates,
           NEW status, NEW rejections, NEW artifact
    PROVE  Named(Settled(j, status, rejections, artifact)) \subseteq Named(j) \cup ({artifact} \ {None})
<1> DEFINE k == Settled(j, status, rejections, artifact)
           made == Made(j.candidates[j.at], status, rejections, artifact)
           cs == [j.candidates EXCEPT ![j.at] = made]
<1>1. DOMAIN j = Fields /\ j.candidates[j.at] \in Candidates
  BY JobFields
<1>2. k.candidates = cs
  BY <1>1 DEF Settled, Fields
<1>3. made.artifact = artifact
  BY <1>1 DEF Made, Candidates
<1> HIDE DEF made, k
<1>4. /\ DOMAIN cs = DOMAIN j.candidates /\ cs[j.at] = made
      /\ \A i \in DOMAIN cs : i # j.at => cs[i] = j.candidates[i]
  OBVIOUS
<1> HIDE DEF cs
<1>5. Named(k) \subseteq Named(j) \cup ({artifact} \ {None})
  BY <1>2, <1>3, <1>4 DEF Named
<1> QED BY <1>5 DEF k

\* A decision about the candidate at hand.
LEMMA DecisionStep ==
    ASSUME ReportInv, NEW d \in Jobs, job[d] # None,
           job[d].step \in {"next"} \cup Busy, job[d].at \in DOMAIN job[d].candidates,
           NEW status \in Statuses, NEW rejections \in SUBSET Reasons,
           NEW artifact \in Digests \cup {None},
           status = "ACQUIRED" <=> artifact # None,
           status = "REJECTED" => rejections \cup Current(d).rejections # {},
           job[d].mode # "survey" /\ Eligible(Current(d)) /\ job[d].at \notin Fetched(job[d]) =>
              "FETCH_BUDGET_EXHAUSTED" \in rejections /\ job[d].attempts = MaxFetches,
           Decide(d, status, rejections, artifact),
           shelf' \in [Digests -> Artifacts \cup {None}],
           \A h \in Digests : shelf'[h] # None => shelf'[h].kind = KindOf[h],
           \A h \in Digests : shelf[h] # None => shelf'[h] # None,
           artifact # None => shelf'[artifact] # None
    PROVE  ReportInv'
<1>1. JobKept(job[d]) /\ job[d] \in JobStates /\ DOMAIN job = Jobs
  BY DEF ReportInv, JobKept
<1>2. PICK j : j = Settled(job[d], status, rejections, artifact)
  OBVIOUS
<1>3. JobKept(j)
  BY <1>1, <1>2, SettledKept DEF Current
<1>4. job' = [job EXCEPT ![d] = j]
  BY <1>2 DEF Decide, Settled, Made, Current
<1>5. Named(j) \subseteq Named(job[d]) \cup ({artifact} \ {None})
  BY <1>1, <1>2, SettledNames
<1>6. \A h \in Named(j) : shelf'[h] # None
  BY <1>5, NamedAreStored
<1> QED BY <1>3, <1>4, <1>6, ReportMoves

\* A rejection of a candidate that was fetched.
LEMMA RejectStep ==
    ASSUME ReportInv, NEW d \in Jobs, job[d] # None, job[d].step \in Busy,
           NEW reason \in Reasons, Reject(d, reason), shelf' = shelf
    PROVE  ReportInv'
<1>1. job[d].at \in DOMAIN job[d].candidates /\ job[d].at \in Fetched(job[d])
  BY DEF ReportInv, JobKept, StepKept, BudgetKept
<1>2. Decide(d, "REJECTED", {reason}, None)
  BY DEF Reject
<1>3. "REJECTED" \in Statuses /\ {reason} \in SUBSET Reasons
  BY DEF Statuses
<1>4. "REJECTED" = "ACQUIRED" <=> None # None
  OBVIOUS
<1> QED BY <1>1, <1>2, <1>3, <1>4, DecisionStep DEF ReportInv

\* A job begins, with no candidate or with the one an operator supplied.
LEMMA StartReports ==
    ASSUME ReportInv, RegistryInv, NEW d \in Jobs, NEW p \in Products, NEW mode \in Modes,
           NEW step \in {"search", "next"}, NEW candidates \in Seq(Candidates),
           step = "search" => candidates = << >>,
           \A i \in DOMAIN candidates : ~candidates[i].fetched /\ Fate(candidates[i], FALSE),
           StartJob(d, p, mode, step, candidates)
    PROVE  ReportInv'
<1>1. PICK j : j = [product |-> p, registry |-> file, mode |-> mode,
                    step |-> step, candidates |-> candidates, at |-> 1, attempts |-> 0,
                    chain |-> << >>, url |-> None, body |-> None]
  OBVIOUS
<1>2. file \in Registries
  BY DEF StartJob, RegistryInv, RegistryTypeOK
<1>3. JobKept(j)
  BY <1>1, <1>2, FreshKept
<1>4. job' = [job EXCEPT ![d] = j] /\ shelf' = shelf
  BY <1>1 DEF StartJob
<1>5. Named(j) = {}
  <2>1. j.candidates = candidates
    BY <1>1
  <2>2. \A i \in DOMAIN candidates : candidates[i].artifact = None
    BY DEF Fate
  <2> QED BY <2>1, <2>2 DEF Named
<1> QED BY <1>3, <1>4, <1>5, ReportRests

\* A step of a job that neither decides nor names anything.
LEMMA QuietReports ==
    ASSUME ReportInv, NEW d \in Jobs,
           \/ \E urls \in Results : SearchEnds(d, urls)
           \/ SearchRaises(d) \/ Fetch(d) \/ Finish(d)
           \/ \E body \in Bodies : Downloaded(d, body)
    PROVE  ReportInv'
<1> DEFINE j == job[d]
<1>1. j # None /\ shelf' = shelf /\ JobKept(j) /\ j \in JobStates /\ DOMAIN job = Jobs
  BY DEF ReportInv, JobKept, SearchEnds, SearchRaises, Fetch, AtCandidate, Finish,
         Downloaded, Doing, Keep
<1>2. DOMAIN j = Fields
  BY <1>1, JobFields
<1>3. \A h \in Named(j) : shelf[h] # None
  BY <1>1, NamedAreStored
<1>4. CASE \E urls \in Results : SearchEnds(d, urls)
  <2> PICK urls \in Results : SearchEnds(d, urls)
    BY <1>4
  <2>1. PICK cs : cs = Ranked(j.registry, j.product, urls)
    OBVIOUS
  <2>2. PICK k : k = [j EXCEPT !.candidates = cs, !.step = "next"]
    OBVIOUS
  <2>3. JobKept(k)
    BY <1>1, <2>1, <2>2, SearchKept DEF SearchEnds, Doing
  <2>4. job' = [job EXCEPT ![d] = k]
    BY <2>1, <2>2 DEF SearchEnds
  <2>5. \A i \in DOMAIN k.candidates : k.candidates[i].artifact = None
    <3>1. k.candidates = cs
      BY <1>2, <2>2 DEF Fields
    <3>2. \A i \in DOMAIN cs : \E u \in urls : cs[i] = Classified(j.registry, j.product, u)
      <4>1. j.product \in Products
        BY <1>1, JobFields
      <4>2. PICK p \in Products : p = j.product
        BY <4>1
      <4>3. PICK f : f = j.registry
        OBVIOUS
      <4>4. \A i \in DOMAIN Ranked(f, p, urls) :
               \E u \in urls : Ranked(f, p, urls)[i] = Classified(f, p, u)
        BY RankedIsClassified
      <4> QED BY <2>1, <4>2, <4>3, <4>4
    <3>3. \A u \in urls : u \in Urls
      BY DiscoveryAssumption
    <3>4. j.product \in Products
      BY <1>1, JobFields
    <3> QED BY <3>1, <3>2, <3>3, <3>4, ClassifiedIsCandidate
  <2>6. Named(k) = {}
    BY <2>5 DEF Named
  <2> QED BY <1>1, <2>3, <2>4, <2>6, ReportRests
<1>5. ASSUME NEW step, job' = [job EXCEPT ![d].step = step],
             \/ step = "aborted"
             \/ step = "done" /\ j.step = "next" /\ j.at > Len(j.candidates)
      PROVE  ReportInv'
  <2>1. PICK k : k = [j EXCEPT !.step = step]
    OBVIOUS
  <2>2. JobKept(k)
    BY <1>1, <1>5, <2>1, StepsKept
  <2>3. job' = [job EXCEPT ![d] = k]
    BY <1>5, <2>1
  <2>4. Named(k) = Named(j)
    BY <1>2, <2>1 DEF Named, Fields
  <2> QED BY <1>1, <1>3, <2>2, <2>3, <2>4, ReportRests
<1>6. CASE Fetch(d)
  <2>1. PICK cs : cs = [j.candidates EXCEPT ![j.at] = [j.candidates[j.at] EXCEPT !.fetched = TRUE]]
    OBVIOUS
  <2>2. PICK k : k = [j EXCEPT !.attempts = j.attempts + 1, !.step = "hop",
                               !.url = j.candidates[j.at].url, !.candidates = cs]
    OBVIOUS
  <2>3. /\ j.step = "next" /\ j.at \in DOMAIN j.candidates /\ j.attempts < MaxFetches
    BY <1>1, <1>6, JobFields DEF Fetch, AtCandidate, Doing, FetchesLeft
  <2>4. JobKept(k)
    BY <1>1, <2>1, <2>2, <2>3, FetchKept
  <2>5. job' = [job EXCEPT ![d] = k]
    BY <1>6, <2>1, <2>2 DEF Fetch, Current
  <2>6. Named(k) = Named(j)
    <3>1. k.candidates = cs
      BY <1>2, <2>2 DEF Fields
    <3>2. j.candidates[j.at] \in Candidates
      BY <1>1, <2>3, JobFields
    <3>3. /\ DOMAIN cs = DOMAIN j.candidates
          /\ \A i \in DOMAIN cs : cs[i].artifact = j.candidates[i].artifact
      BY <2>1, <2>3, <3>2 DEF Candidates
    <3> QED BY <3>1, <3>3 DEF Named
  <2> QED BY <1>1, <1>3, <2>4, <2>5, <2>6, ReportRests
<1>7. CASE \E body \in Bodies : Downloaded(d, body)
  <2> PICK body \in Bodies : Downloaded(d, body)
    BY <1>7
  <2>1. PICK k : k = [j EXCEPT !.chain = Append(j.chain, j.url), !.body = body,
                               !.step = "acquire"]
    OBVIOUS
  <2>2. JobKept(k)
    BY <1>1, <2>1, DownloadKept DEF Downloaded, Doing, Safe
  <2>3. job' = [job EXCEPT ![d] = k]
    BY <2>1 DEF Downloaded
  <2>4. Named(k) = Named(j)
    BY <1>2, <2>1 DEF Named, Fields
  <2> QED BY <1>1, <1>3, <2>2, <2>3, <2>4, ReportRests
<1>8. CASE SearchRaises(d)
  BY <1>5, <1>8 DEF SearchRaises
<1>9. CASE Finish(d)
  BY <1>5, <1>9 DEF Finish, Doing
<1> QED BY <1>4, <1>6, <1>7, <1>8, <1>9

\* The decisions of the loop that fetch nothing.
LEMMA LoopReports ==
    ASSUME ReportInv, NEW d \in Jobs, PassOver(d) \/ BudgetExhausted(d)
    PROVE  ReportInv'
<1> DEFINE j == job[d]
<1>1. /\ j # None /\ shelf' = shelf /\ JobKept(j) /\ j.step = "next"
      /\ j.at <= Len(j.candidates) /\ j \in JobStates
  BY DEF ReportInv, JobKept, PassOver, BudgetExhausted, AtCandidate, Doing, Keep
<1>2. j.at \in DOMAIN j.candidates /\ Current(d) \in Candidates
  BY <1>1, JobFields DEF Current
<1>3. Current(d).status \in Statuses /\ Current(d).status # "ACQUIRED"
      /\ (Current(d).status = "REJECTED" => Current(d).rejections # {})
  <2>1. Fate(Current(d), j.at < j.at) /\ ~(j.at < j.at)
    BY <1>1, <1>2, JobFields DEF JobKept, FatesKept, Current
  <2> QED BY <1>2, <2>1 DEF Fate, Candidates
<1>4. "FETCH_BUDGET_EXHAUSTED" \in Reasons
  BY DEF Reasons
<1>5. CASE PassOver(d)
  <2>1. Decide(d, Current(d).status, {}, None)
        /\ (j.mode = "survey" \/ ~Eligible(Current(d)))
    BY <1>5 DEF PassOver
  <2> QED BY <1>1, <1>2, <1>3, <2>1, DecisionStep DEF ReportInv
<1>6. CASE BudgetExhausted(d)
  <2>1. Decide(d, Current(d).status, {"FETCH_BUDGET_EXHAUSTED"}, None)
    BY <1>6 DEF BudgetExhausted
  <2>2. j.attempts = MaxFetches
    <3>1. ~(j.attempts < MaxFetches) /\ j.attempts <= MaxFetches
      BY <1>1, <1>6 DEF BudgetExhausted, FetchesLeft, JobKept, BudgetKept
    <3>2. PICK n \in Nat : n = j.attempts
      BY <1>1, JobFields
    <3>3. PICK m \in Nat : m = MaxFetches
      BY DiscoveryAssumption
    <3>4. n = m
      <4>1. ~(n < m) /\ n <= m
        BY <3>1, <3>2, <3>3
      <4> QED BY <4>1
    <3> QED BY <3>2, <3>3, <3>4
  <2> QED BY <1>1, <1>2, <1>3, <1>4, <2>1, <2>2, DecisionStep DEF ReportInv
<1> QED BY <1>5, <1>6

\* A fetch that fails or is sent on.
LEMMA HopReports ==
    ASSUME ReportInv, NEW d \in Jobs, FetchFails(d) \/ \E to \in Urls : Redirected(d, to)
    PROVE  ReportInv'
<1> DEFINE j == job[d]
<1>1. j # None /\ shelf' = shelf /\ JobKept(j) /\ j \in JobStates /\ j.step = "hop"
  BY DEF ReportInv, JobKept, FetchFails, Redirected, Doing, Keep
<1>2. {"NO_DOCUMENT", "UNSAFE_URL", "TOO_MANY_REDIRECTS"} \subseteq Reasons
  BY DEF Reasons, FetchReasons
<1>3. j.step \in Busy
  BY <1>1 DEF Busy
<1>4. CASE FetchFails(d)
  BY <1>1, <1>2, <1>3, <1>4, RejectStep DEF FetchFails
<1>5. CASE \E to \in Urls : Redirected(d, to)
  <2> PICK to \in Urls : Redirected(d, to)
    BY <1>5
  <2>1. CASE Len(j.chain) < MaxRedirects
    <3>1. PICK k : k = [j EXCEPT !.chain = Append(j.chain, j.url), !.url = to]
      OBVIOUS
    <3>2. JobKept(k)
      BY <1>1, <2>1, <3>1, RedirectKept DEF Redirected, Safe
    <3>3. job' = [job EXCEPT ![d] = k]
      BY <2>1, <3>1 DEF Redirected
    <3>4. Named(k) = Named(j)
      BY <1>1, <3>1, JobFields DEF Named, Fields
    <3>5. \A h \in Named(j) : shelf[h] # None
      BY <1>1, NamedAreStored
    <3> QED BY <1>1, <3>2, <3>3, <3>4, <3>5, ReportRests
  <2>2. CASE ~(Len(j.chain) < MaxRedirects)
    BY <1>1, <1>2, <1>3, <2>2, RejectStep DEF Redirected
  <2> QED BY <2>1, <2>2
<1> QED BY <1>4, <1>5

\* Bytes that came back are refused, found in the store, or about to be saved.
LEMMA AcquireReports ==
    ASSUME ReportInv, NEW d \in Jobs, Acquire(d) PROVE ReportInv'
<1> DEFINE j == job[d]
           body == j.body
           stored == shelf[body.digest]
<1>1. /\ j # None /\ shelf' = shelf /\ JobKept(j) /\ j \in JobStates /\ j.step = "acquire"
      /\ DOMAIN job = Jobs
  BY DEF ReportInv, JobKept, Acquire, Doing, Keep
<1>2. /\ j.step \in Busy /\ j.at \in DOMAIN j.candidates /\ j.at \in Fetched(j)
      /\ body \in Bodies
  BY <1>1 DEF JobKept, StepKept, BudgetKept, Busy
<1>3. {"REDIRECT_AUTHORITY_LOST", "DISCOVERY_PROVENANCE_UNDECLARED", "NO_DOCUMENT"} \subseteq Reasons
  BY DEF Reasons, FetchReasons
<1>4. ASSUME NEW reason \in Reasons, Reject(d, reason) PROVE ReportInv'
  BY <1>1, <1>2, <1>4, RejectStep
<1>5. ASSUME NEW step, job' = [job EXCEPT ![d].step = step],
             step = "aborted" \/ (step = "save" /\ body.kind = KindOf[body.digest])
      PROVE  ReportInv'
  <2>1. PICK k : k = [j EXCEPT !.step = step]
    OBVIOUS
  <2>2. JobKept(k)
    BY <1>1, <1>5, <2>1, StepsKept
  <2>3. job' = [job EXCEPT ![d] = k]
    BY <1>5, <2>1
  <2>4. Named(k) = Named(j)
    BY <1>1, <2>1, JobFields DEF Named, Fields
  <2>5. \A h \in Named(j) : shelf[h] # None
    BY <1>1, NamedAreStored
  <2> QED BY <1>1, <2>2, <2>3, <2>4, <2>5, ReportRests
<1>6. ASSUME stored # None, Decide(d, "ACQUIRED", {}, body.digest)
      PROVE  ReportInv'
  <2>1. body.digest \in Digests /\ body.digest # None
    BY <1>2, DiscoveryAssumption DEF Bodies
  <2>2. "ACQUIRED" \in Statuses
    BY DEF Statuses
  <2> HIDE DEF body
  <2> QED BY <1>1, <1>2, <1>6, <2>1, <2>2, DecisionStep DEF ReportInv
<1> QED BY <1>3, <1>4, <1>5, <1>6 DEF Acquire

\* What is saved is what it was served as, and its candidate has it.
LEMMA SaveReports == ASSUME ReportInv, NEW d \in Jobs, Save(d) PROVE ReportInv'
<1> DEFINE j == job[d]
           body == j.body
           item == [publisher |-> HintOf[j.product], host |-> HostOf[j.url],
                    kind |-> body.kind, loads |-> TRUE]
<1>1. /\ j # None /\ JobKept(j) /\ j \in JobStates /\ j.step = "save"
      /\ shelf' = [shelf EXCEPT ![body.digest] = item]
      /\ Decide(d, "ACQUIRED", {}, body.digest)
  BY DEF ReportInv, JobKept, Save, Doing
<1>2. /\ j.step \in Busy /\ j.at \in DOMAIN j.candidates /\ j.at \in Fetched(j)
      /\ body \in Bodies /\ body.kind = KindOf[body.digest] /\ j.url \in Urls
  BY <1>1 DEF JobKept, StepKept, BudgetKept, Busy
<1>3. body.digest \in Digests /\ body.digest # None /\ body.kind \in Kinds
  BY <1>2, DiscoveryAssumption DEF Bodies
<1>4. item \in Artifacts
  BY <1>1, <1>2, <1>3, JobFields, DiscoveryAssumption DEF Artifacts
<1>5. item # None /\ item.kind = body.kind
  BY <1>4, DiscoveryAssumption
<1> HIDE DEF item, body
<1>6. shelf \in [Digests -> Artifacts \cup {None}]
      /\ \A h \in Digests : shelf[h] # None => shelf[h].kind = KindOf[h]
  BY DEF ReportInv
<1>7. /\ shelf' \in [Digests -> Artifacts \cup {None}]
      /\ shelf'[body.digest] = item
      /\ \A h \in Digests \ {body.digest} : shelf'[h] = shelf[h]
  BY <1>1, <1>3, <1>4, <1>6
<1>8. \A h \in Digests : /\ shelf'[h] # None => shelf'[h].kind = KindOf[h]
                         /\ shelf[h] # None => shelf'[h] # None
  BY <1>2, <1>5, <1>6, <1>7
<1>9. "ACQUIRED" \in Statuses /\ {} \in SUBSET Reasons
  BY DEF Statuses
<1> QED BY <1>1, <1>2, <1>3, <1>5, <1>7, <1>8, <1>9, DecisionStep

\* A job that is stopped reports nothing.
LEMMA StopReports == ASSUME ReportInv, NEW d \in Jobs, Stop(d) PROVE ReportInv'
<1>1. job' = [job EXCEPT ![d] = None] /\ shelf' = shelf
  BY DEF Stop, Keep
<1>2. /\ job' \in [Jobs -> JobStates \cup {None}] /\ job'[d] = None
      /\ \A e \in Jobs \ {d} : job'[e] = job[e]
  BY <1>1 DEF ReportInv
<1> QED BY <1>1, <1>2 DEF ReportInv

\* A damaged artifact is still there.
LEMMA DamageReports == ASSUME ReportInv, NEW h \in Digests, Damage(h) PROVE ReportInv'
<1>1. /\ shelf[h] # None /\ job' = job /\ shelf' = [shelf EXCEPT ![h].loads = FALSE]
      /\ shelf[h] \in Artifacts
  BY DEF Damage, ReportInv
<1>2. PICK item : item = [shelf[h] EXCEPT !.loads = FALSE]
  OBVIOUS
<1>3. item \in Artifacts /\ item.kind = shelf[h].kind
  BY <1>1, <1>2 DEF Artifacts
<1>4. item # None
  BY <1>3, DiscoveryAssumption
<1>5. shelf' = [shelf EXCEPT ![h] = item]
  BY <1>1, <1>2
<1>6. /\ shelf' \in [Digests -> Artifacts \cup {None}] /\ shelf'[h] = item
      /\ \A g \in Digests \ {h} : shelf'[g] = shelf[g]
  BY <1>3, <1>5 DEF ReportInv
<1>7. \A g \in Digests : /\ shelf'[g] # None => shelf'[g].kind = KindOf[g]
                         /\ shelf[g] # None => shelf'[g] # None
  BY <1>1, <1>3, <1>4, <1>6 DEF ReportInv
<1>8. ASSUME NEW d \in Jobs, job'[d] # None, NEW i \in DOMAIN job'[d].candidates,
             job'[d].candidates[i].artifact # None
      PROVE  shelf'[job'[d].candidates[i].artifact] # None
  <2>1. job[d].candidates[i].artifact \in Named(job[d])
    BY <1>1, <1>8 DEF Named
  <2> QED BY <1>1, <1>7, <1>8, <2>1, NamedAreStored
<1> QED BY <1>1, <1>6, <1>7, <1>8 DEF ReportInv

LEMMA NoCandidateIsASequence == << >> \in Seq(Candidates) /\ DOMAIN << >> = {}
OBVIOUS

LEMMA ReportInvHolds == Spec => []ReportInv
<1>1. Init => ReportInv
  BY DEF Init, ReportInv
<1>2. ASSUME ReportInv, RegistryInv, [Next]_vars PROVE ReportInv'
  <2>1. ASSUME NEW d \in Jobs, Job(d) PROVE ReportInv'
    <3>1. ASSUME NEW p \in Products, NEW mode \in Modes, Discover(d, p, mode)
          PROVE  ReportInv'
      <4>1. PICK none \in Seq(Candidates) : none = << >> /\ DOMAIN none = {}
        BY NoCandidateIsASequence
      <4>2. StartJob(d, p, mode, "search", none)
        BY <3>1, <4>1 DEF Discover
      <4> QED BY <1>2, <4>1, <4>2, StartReports
    <3>2. ASSUME NEW p \in Products, NEW u \in Urls, SupplySource(d, p, u)
          PROVE  ReportInv'
      <4>1. PICK c : c = Classified(file, p, u)
        OBVIOUS
      <4>2. c \in Candidates /\ ~c.fetched /\ Fate(c, FALSE)
        BY <4>1, ClassifiedIsCandidate, ClassifiedIsUntouched
      <4>3. <<c>> \in Seq(Candidates) /\ \A i \in DOMAIN <<c>> : <<c>>[i] = c
        BY <4>2
      <4>4. StartJob(d, p, "acquire", "next", <<c>>)
        BY <3>2, <4>1 DEF SupplySource
      <4>5. "acquire" \in Modes /\ "next" # "search"
        BY DEF Modes
      <4> QED BY <1>2, <4>2, <4>3, <4>4, <4>5, StartReports
    <3> QED BY <1>2, <2>1, <3>1, <3>2, QuietReports, LoopReports, HopReports, AcquireReports,
               SaveReports, StopReports DEF Job, FetchGoesOn
  <2>2. ASSUME UNCHANGED <<job, shelf>> PROVE ReportInv'
    BY <1>2, <2>2 DEF ReportInv
  <2> QED BY <1>2, <2>1, <2>2, DamageReports DEF Next, vars
<1>3. Inv => RegistryInv
  BY DEF Inv
<1> QED BY <1>1, <1>2, <1>3, InvHolds, PTL DEF Spec

\* Every variable holds what the code can put in it.
THEOREM DiscoveryIsTyped == Spec => []TypeOK
<1>1. Inv /\ ReportInv => TypeOK
  BY DEF Inv, RegistryInv, ReportInv, TypeOK
<1> QED BY <1>1, InvHolds, ReportInvHolds, PTL

\* What any job reports of any candidates is what it did for them, whatever
\* the search found, the servers answered, other jobs stored and operators
\* reviewed meanwhile.
THEOREM ReportsAreEarned == Spec => []OutcomesAreEarned
<1>1. ReportInv => AcquiredIsStored
  <2> SUFFICES ASSUME ReportInv, NEW d \in Jobs, job[d] # None,
                      NEW i \in DOMAIN job[d].candidates
               PROVE  LET c == job[d].candidates[i]
                      IN  /\ c.status = "ACQUIRED" => c.artifact # None
                          /\ c.artifact # None => /\ c.status = "ACQUIRED"
                                                  /\ shelf[c.artifact] # None
                                                  /\ shelf[c.artifact].kind = KindOf[c.artifact]
    BY DEF AcquiredIsStored
  <2> DEFINE c == job[d].candidates[i]
  <2>1. Fate(c, i < job[d].at)
    BY DEF ReportInv, JobKept, FatesKept
  <2>2. c.artifact # None => c.artifact \in Named(job[d])
    BY DEF Named
  <2>3. c.artifact # None => c.artifact \in Digests /\ shelf[c.artifact] # None
    BY <2>2, NamedAreStored
  <2> QED BY <2>1, <2>3 DEF Fate, ReportInv
<1>2. ReportInv => BudgetGoesToTheBest
  <2> SUFFICES ASSUME ReportInv, NEW d \in Jobs, job[d] # None
               PROVE  LET cs == job[d].candidates
                          fetched == {i \in DOMAIN cs : cs[i].fetched}
                      IN  /\ Cardinality(fetched) = job[d].attempts
                          /\ job[d].attempts <= MaxFetches
                          /\ \A i \in DOMAIN cs : cs[i].status = "REJECTED" =>
                                cs[i].rejections # {}
                          /\ job[d].step = "done" /\ job[d].mode # "survey" =>
                                \A i \in DOMAIN cs : Eligible(cs[i]) /\ i \notin fetched =>
                                    /\ "FETCH_BUDGET_EXHAUSTED" \in cs[i].rejections
                                    /\ job[d].attempts = MaxFetches
                                    /\ \A j \in fetched : j < i
    BY DEF BudgetGoesToTheBest
  <2> DEFINE r == job[d]
  <2>1. JobKept(r) /\ r \in JobStates
    BY DEF ReportInv, JobKept
  <2>2. Fetched(r) = {i \in DOMAIN r.candidates : r.candidates[i].fetched}
    BY DEF Fetched
  <2>3. Cardinality(Fetched(r)) = r.attempts /\ r.attempts <= MaxFetches
    BY <2>1 DEF JobKept, BudgetKept
  <2>4. \A i \in DOMAIN r.candidates :
           r.candidates[i].status = "REJECTED" => r.candidates[i].rejections # {}
    BY <2>1 DEF JobKept, FatesKept, Fate
  <2>5. ASSUME r.step = "done", r.mode # "survey", NEW i \in DOMAIN r.candidates,
               Eligible(r.candidates[i]), i \notin Fetched(r)
        PROVE  LeftOut(r, i)
    <3>1. i < r.at
      <4>1. r.at > Len(r.candidates)
        BY <2>1, <2>5 DEF JobKept, StepKept
      <4>2. i \in 1 .. Len(r.candidates) /\ r.at \in Nat /\ Len(r.candidates) \in Nat
        BY <2>1, JobFields
      <4> HIDE DEF r
      <4> QED BY <4>1, <4>2
    <3> QED BY <2>1, <2>5, <3>1 DEF JobKept, BudgetKept
  <2> QED BY <2>2, <2>3, <2>4, <2>5 DEF LeftOut
<1>3. ReportInv => HopsAreBounded
  BY DEF ReportInv, JobKept, TrailKept, HopsAreBounded, Current
<1> QED BY <1>1, <1>2, <1>3, ReportInvHolds, PTL DEF OutcomesAreEarned
==============================================================================

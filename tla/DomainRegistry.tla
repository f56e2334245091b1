---------------------------- MODULE DomainRegistry ----------------------------
(***************************************************************************)
(* discovery/domains.py, discovery/review.py and                           *)
(* scripts/review_manufacturer_domains.py: the manufacturer domain         *)
(* registry, one TOML file that decides whose bytes may be stored as a     *)
(* manufacturer's evidence.                                                *)
(*                                                                         *)
(* Operators record reviews in it: each reads the file, prepares the file  *)
(* with the review inserted and writes it back, with no lock.  The write   *)
(* truncates the file first: until it ends, and for good if it does not    *)
(* end, a reader finds any part of the new file.  The lists of hosts are   *)
(* the last table of the file.                                             *)
(***************************************************************************)
EXTENDS Naturals, Sequences

CONSTANTS
    Operators,      \* people who review bindings
    Manufacturers,  \* keys of registry entries
    Hosts,          \* normalised hosts
    Domains,        \* Domains[m]: the hosts m's entry lists, subdomains included
    Names,          \* Names[m]: the hints that name m (authority hints and key)
    Locators,       \* Locators[m]: the hints that only help to find m
    Provenance,     \* "OFFICIAL", "REVIEWED" or "DEMO"
    Blocked, Marketplaces, Distributors,
    Published,      \* the registry file to begin with
    None, Unreadable

Provenances == {"OFFICIAL", "REVIEWED", "DEMO"}
Hints == UNION {Names[m] \cup Locators[m] : m \in Manufacturers}
Entries == [key : Manufacturers, review : Operators \cup {None}]
Registries == [entries : Seq(Entries), hosts : BOOLEAN]

ASSUME RegistryAssumption ==
    /\ Domains \in [Manufacturers -> SUBSET Hosts]
    /\ DOMAIN Names = Manufacturers /\ DOMAIN Locators = Manufacturers
    /\ \A m \in Manufacturers : Names[m] \cap Locators[m] = {}
    /\ Provenance \in Provenances
    /\ Published \in Registries
    /\ \A i, j \in DOMAIN Published.entries :
          Published.entries[i].key = Published.entries[j].key => i = j
    /\ None \notin Operators /\ Unreadable \notin Registries

VARIABLES
    file,       \* the registry file, or Unreadable
    desk,       \* desk[o]: the write operator o has under way, or None
    confirmed,  \* the confirmations people have made
    written     \* the reviews reported as written

registry == <<file, desk, confirmed, written>>

Confirmations == [key : Manufacturers, by : Operators, domains : SUBSET Hosts]
Reviews == [key : Manufacturers, by : Operators]
Desks == [step : {"prepared", "writing"}, file : Registries, review : Reviews]

RegistryTypeOK ==
    /\ file \in Registries \cup {Unreadable}
    /\ desk \in [Operators -> Desks \cup {None}]
    /\ confirmed \subseteq Confirmations
    /\ written \subseteq Reviews

ReviewsIn(f) == {[key |-> f.entries[i].key, by |-> f.entries[i].review] :
                    i \in {j \in DOMAIN f.entries : f.entries[j].review # None}}

\* The reviews of the published file are confirmations made before.
RegistryInit ==
    /\ file = Published
    /\ desk = [o \in Operators |-> None]
    /\ confirmed = {[key |-> r.key, by |-> r.by, domains |-> Domains[r.key]] :
                        r \in ReviewsIn(Published)}
    /\ written = ReviewsIn(Published)

------------------------------------------------------------------------------
(* Whose site a host is *)

\* owner_of: the first entry that lists the host.
Owns(f, i, host) ==
    /\ host \in Domains[f.entries[i].key]
    /\ \A j \in 1 .. i - 1 : host \notin Domains[f.entries[j].key]

OwnerOf(f, host) == CHOOSE i \in DOMAIN f.entries : Owns(f, i, host)

\* licenses_evidence: a REVIEWED registry needs the entry's own review.
Licenses(entry) ==
    \/ Provenance = "OFFICIAL"
    \/ Provenance = "REVIEWED" /\ entry.review # None

\* classify_authority, for a host the lists do not block.
OwnerAuthority(entry, hint) ==
    IF hint \notin Names[entry.key] \cup Locators[entry.key] THEN "OTHER_MANUFACTURER"
    ELSE IF hint \in Names[entry.key] /\ Licenses(entry) THEN "APPROVED_MANUFACTURER"
    ELSE "UNVERIFIED_MANUFACTURER"

ListAuthority(f, host) ==
    IF f.hosts /\ host \in Marketplaces THEN "KNOWN_MARKETPLACE"
    ELSE IF f.hosts /\ host \in Distributors THEN "KNOWN_DISTRIBUTOR"
    ELSE "UNKNOWN"

AuthorityOf(f, host, hint) ==
    IF f.hosts /\ host \in Blocked THEN "BLOCKED"
    ELSE IF \E i \in DOMAIN f.entries : Owns(f, i, host)
         THEN OwnerAuthority(f.entries[OwnerOf(f, host)], hint)
         ELSE ListAuthority(f, host)

------------------------------------------------------------------------------
(* Recording a review *)

\* Mutant: a review of some of the domains is enough.
SomeConfirmed(f, i, m, domains) ==
    /\ f.entries[i].key = m /\ f.entries[i].review = None
    /\ domains # {} /\ domains \subseteq Domains[m]

\* check_review_applies: the entry exists, has no review, and every domain it
\* lists is confirmed, no other.
ReviewApplies(f, i, m, domains) ==
    /\ f.entries[i].key = m /\ f.entries[i].review = None
    /\ domains = Domains[m]

\* confirm --write reads the file and prepares the new one.
Confirm(o, m, domains) ==
    /\ desk[o] = None /\ file # Unreadable
    /\ \E i \in DOMAIN file.entries :
          /\ ReviewApplies(file, i, m, domains)
          /\ desk' = [desk EXCEPT ![o] =
                [step |-> "prepared", review |-> [key |-> m, by |-> o],
                 file |-> [file EXCEPT !.entries[i].review = o]]]
    /\ confirmed' = confirmed \cup {[key |-> m, by |-> o, domains |-> domains]}
    /\ UNCHANGED <<file, written>>

\* What there may be of f: cut within a table, between two, or before the
\* review of the last.
Parts(f) ==
    {Unreadable} \cup
    {[entries |-> SubSeq(f.entries, 1, n), hosts |-> FALSE] : n \in 0 .. Len(f.entries)} \cup
    {[entries |-> [SubSeq(f.entries, 1, n) EXCEPT ![n].review = None], hosts |-> FALSE] :
        n \in 1 .. Len(f.entries)}

WriteBegins(o) ==
    /\ desk[o] # None /\ desk[o].step = "prepared"
    /\ file' \in Parts(desk[o].file)
    /\ desk' = [desk EXCEPT ![o].step = "writing"]
    /\ UNCHANGED <<confirmed, written>>

Writing(o) == desk[o] # None /\ desk[o].step = "writing"

\* Two writers may leave a mixture.
WriteEnds(o) ==
    /\ Writing(o)
    /\ file' \in {desk[o].file} \cup {Unreadable : other \in {p \in Operators \ {o} : Writing(p)}}
    /\ written' = written \cup {desk[o].review}
    /\ desk' = [desk EXCEPT ![o] = None]
    /\ UNCHANGED confirmed

\* The command is stopped, or the disk is full.
WriteStops(o) ==
    /\ desk[o] # None
    /\ desk' = [desk EXCEPT ![o] = None]
    /\ UNCHANGED <<file, confirmed, written>>

Review(o) ==
    \/ \E m \in Manufacturers, domains \in SUBSET Hosts : Confirm(o, m, domains)
    \/ WriteBegins(o) \/ WriteEnds(o) \/ WriteStops(o)

------------------------------------------------------------------------------
(* Properties *)

ConfirmedIn(f) ==
    \A r \in ReviewsIn(f) : [key |-> r.key, by |-> r.by, domains |-> Domains[r.key]] \in confirmed

\* A review on file is that of a person who confirmed all of the entry's
\* domains, however operators overlap, stop half way through a write or start
\* from a file that somebody else left half written (review.py:352-387).
ReviewsWereConfirmed == file # Unreadable => ConfirmedIn(file)

\* "Overwriting someone else's audit record is not something this tool does"
\* (review.py:368-369): a review that was reported as written is on file
\* whenever no write is under way or broken off.  It does not hold.
AuditRecordsAreKept ==
    file # Unreadable /\ file.hosts => written \subseteq ReviewsIn(file)
==============================================================================

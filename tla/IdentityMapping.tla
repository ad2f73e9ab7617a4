-------------------------- MODULE IdentityMapping --------------------------
(***************************************************************************)
(* The identity mapper (core/identity): SVN user to Git identity and back. *)
(* The scheduler makes one and shares it between the cycles of all the     *)
(* repositories, which run at the same time: the two caches and the LDAP   *)
(* resolver have a lock each, and a lookup takes them one after the other. *)
(*                                                                         *)
(* A Git identity is its e-mail address; an SVN user's fallback address is *)
(* Fallback[u], whose local part is u again.                               *)
(***************************************************************************)
EXTENDS Naturals, FiniteSets

CONSTANTS
    Users, Emails,
    Fallback,       \* user@domain of every user
    Lookups,        \* lookups of concurrent cycles
    Nobody,         \* no user, no address
    MaxLookups, MaxEdits    \* bounds: lookups made, changes to the directory

ASSUME IdentityAssumption ==
    /\ Nobody \notin Users \cup Emails \cup Lookups
    /\ Fallback \in [Users -> Emails]
    /\ \A u, v \in Users : Fallback[u] = Fallback[v] => u = v
    /\ MaxLookups \in Nat /\ MaxEdits \in Nat

Addresses == Emails \cup {Nobody}
People    == Users \cup {Nobody}

VARIABLES
    configured,         \* which of "ldap" and "domain" the configuration has
    cache, reverse,     \* user to address, address to user
    resolver,           \* the lookup that holds the LDAP resolver
    directory,          \* LDAP: everyone's mail attribute
    lookup,             \* the lookups
    known,              \* history: the first owners of every address
    changed,            \* history: users and addresses edited since
    lookups, edits

idVars == <<configured, cache, reverse, resolver, directory, lookup, known,
            changed, lookups, edits>>

Rest == [pc |-> "free", user |-> Nobody, mail |-> Nobody]

Owners(entries, e) == {u \in Users : entries[u] = e}

\* build_reverse_cache: of two users with one address, one wins.
ReversesOf(entries) ==
    {r \in [Emails -> People] : \A e \in Emails :
        IF Owners(entries, e) = {} THEN r[e] = Nobody
        ELSE r[e] \in Owners(entries, e)}

IdentityInit ==
    /\ configured \in SUBSET {"ldap", "domain"}
    /\ cache \in [Users -> Addresses] /\ reverse \in ReversesOf(cache)
    /\ directory \in IF "ldap" \in configured THEN [Users -> Addresses]
                      ELSE {[u \in Users |-> Nobody]}
    /\ resolver = Nobody
    /\ lookup = [t \in Lookups |-> Rest]
    /\ known = [e \in Emails |-> Owners(cache, e) \cup Owners(directory, e)]
    /\ changed = {} /\ lookups = 0 /\ edits = 0

\* Somebody's mail attribute changes.
EditDirectory(u, e) ==
    /\ "ldap" \in configured /\ edits < MaxEdits /\ edits' = edits + 1
    /\ directory' = [directory EXCEPT ![u] = e]
    /\ changed' = changed \cup {u, e, directory[u]}
    /\ UNCHANGED <<configured, cache, reverse, resolver, lookup, known, lookups>>

stable == <<configured, known, changed>>

Onto(t, r) == lookup' = [lookup EXCEPT ![t] = r]
At(t, step) == lookup[t].pc = step

-----------------------------------------------------------------------------
(* svn_to_git: the cache, then LDAP, then user@domain, else an error that  *)
(* fails the caller's cycle.                                               *)

\* What a lookup ends with: its question and its answer stay to be read.
Answers(u, e) == [pc |-> "mapped", user |-> u, mail |-> e]

WithoutLdap(u) ==
    IF "domain" \in configured THEN Answers(u, Fallback[u]) ELSE Rest

AskIdentity(t, u) ==
    /\ lookup[t].pc \in {"free", "mapped", "found"}
    /\ lookups < MaxLookups /\ lookups' = lookups + 1
    /\ Onto(t, IF cache[u] # Nobody THEN Answers(u, cache[u])
               ELSE IF "ldap" \in configured
                    THEN [Rest EXCEPT !.pc = "by_uid", !.user = u]
               ELSE WithoutLdap(u))
    /\ UNCHANGED <<stable, cache, reverse, resolver, directory, edits>>

\* The resolver is locked, and a connection opened for this one question.
Connect(t) ==
    /\ lookup[t].pc \in {"by_uid", "by_mail"} /\ resolver = Nobody
    /\ resolver' = t
    /\ UNCHANGED <<stable, cache, reverse, directory, lookup, lookups, edits>>

\* Variant for mutation testing: an unreachable server knows nobody.
UnreachableKnowsNobody(t) ==
    IF At(t, "by_uid") THEN WithoutLdap(lookup[t].user) ELSE Rest

Unreachable(t) == Rest

\* connect, bind or search fails: the lookup fails.
LdapFails(t) ==
    /\ resolver = t /\ resolver' = Nobody
    /\ Onto(t, Unreachable(t))
    /\ UNCHANGED <<stable, cache, reverse, directory, lookups, edits>>

HasMail(u) == directory[u] # Nobody

FoundByUid(t) ==
    LET u == lookup[t].user IN
    /\ resolver = t /\ resolver' = Nobody /\ At(t, "by_uid")
    /\ Onto(t, IF HasMail(u)
               THEN [pc |-> "insert", user |-> u, mail |-> directory[u]]
               ELSE WithoutLdap(u))
    /\ UNCHANGED <<stable, cache, reverse, directory, lookups, edits>>

\* add_to_cache: the two maps, one lock after the other.
Insert(t) ==
    /\ At(t, "insert")
    /\ cache' = [cache EXCEPT ![lookup[t].user] = lookup[t].mail]
    /\ Onto(t, [lookup[t] EXCEPT !.pc = "insert_reverse"])
    /\ UNCHANGED <<stable, reverse, resolver, directory, lookups, edits>>

ReverseWith(t) == [reverse EXCEPT ![lookup[t].mail] = lookup[t].user]

InsertReverse(t) ==
    /\ At(t, "insert_reverse")
    /\ reverse' = ReverseWith(t)
    /\ Onto(t, Answers(lookup[t].user, lookup[t].mail))
    /\ UNCHANGED <<stable, cache, resolver, directory, lookups, edits>>

-----------------------------------------------------------------------------
(* git_to_svn: the reverse map, then LDAP, then the local part; what LDAP  *)
(* answers is not kept.                                                    *)

Found(u, e) == [pc |-> "found", user |-> u, mail |-> e]

\* The local part of another address is no user here, or empty: an error.
LocalPart(e) ==
    IF \E u \in Users : Fallback[u] = e
    THEN CHOOSE u \in Users : Fallback[u] = e ELSE Nobody

AskUser(t, e) ==
    /\ lookup[t].pc \in {"free", "mapped", "found"}
    /\ lookups < MaxLookups /\ lookups' = lookups + 1
    /\ Onto(t, IF reverse[e] # Nobody THEN Found(reverse[e], e)
               ELSE IF "ldap" \in configured
                    THEN [Rest EXCEPT !.pc = "by_mail", !.mail = e]
               ELSE Found(LocalPart(e), e))
    /\ UNCHANGED <<stable, cache, reverse, resolver, directory, edits>>

Matches(e) == Owners(directory, e)

FoundByMail(t) ==
    LET e == lookup[t].mail IN
    /\ resolver = t /\ resolver' = Nobody /\ At(t, "by_mail")
    /\ \E u \in IF Matches(e) = {} THEN {LocalPart(e)} ELSE Matches(e) :
          Onto(t, Found(u, e))
    /\ UNCHANGED <<stable, cache, reverse, directory, lookups, edits>>

-----------------------------------------------------------------------------
IdentityNext ==
    \/ \E u \in Users, e \in Addresses : EditDirectory(u, e)
    \/ \E t \in Lookups :
          \/ \E u \in Users : AskIdentity(t, u)
          \/ \E e \in Emails : AskUser(t, e)
          \/ Connect(t) \/ LdapFails(t) \/ FoundByUid(t) \/ FoundByMail(t)
          \/ Insert(t) \/ InsertReverse(t)

IdentitySpec == IdentityInit /\ [][IdentityNext]_idVars

-----------------------------------------------------------------------------
\* Every variable has its type; only real addresses enter the cache, and the
\* resolver is held by a lookup that is asking LDAP.
IdentityTypeOK ==
    /\ configured \subseteq {"ldap", "domain"}
    /\ cache \in [Users -> Addresses] /\ reverse \in [Emails -> People]
    /\ directory \in [Users -> Addresses]
    /\ resolver \in Lookups \cup {Nobody}
    /\ lookup \in [Lookups -> [pc : {"free", "by_uid", "by_mail", "insert",
                                    "insert_reverse", "mapped", "found"},
                              user : People, mail : Addresses]]
    /\ \A t \in Lookups :
          /\ lookup[t].pc \in {"by_uid", "insert", "insert_reverse", "mapped"} =>
                lookup[t].user \in Users
          /\ lookup[t].pc \in {"by_mail", "insert", "insert_reverse", "mapped", "found"} =>
                lookup[t].mail \in Emails
          /\ resolver = t => lookup[t].pc \in {"by_uid", "by_mail"}
    /\ known \in [Emails -> SUBSET Users]
    /\ changed \subseteq Users \cup Addresses
    /\ lookups \in 0..MaxLookups /\ edits \in 0..MaxEdits

\* svn_to_git: concurrent cycles give an SVN user one Git identity, whatever
\* is cached, and an LDAP server that cannot be reached does not change it.
OneIdentityPerUser ==
    \A s, t \in Lookups :
        /\ At(s, "mapped") /\ At(t, "mapped")
        /\ lookup[s].user = lookup[t].user
        /\ lookup[s].user \notin changed
        => lookup[s].mail = lookup[t].mail

\* git_to_svn: an address leads to one of its owners, and to its local part
\* only if it has none; so what svn_to_git made of a user leads back to that
\* user or to one who shares the address.
AddressesLeadToTheirOwners ==
    \A t \in Lookups :
        At(t, "found") /\ lookup[t].mail \notin changed =>
            IF known[lookup[t].mail] = {}
            THEN lookup[t].user = LocalPart(lookup[t].mail)
            ELSE lookup[t].user \in known[lookup[t].mail]

\* add_to_cache: whoever is cached can be found by the address without LDAP,
\* except while a lookup is between the two maps.
CachedBothWays ==
    \A u \in Users :
        \/ cache[u] = Nobody
        \/ reverse[cache[u]] # Nobody
        \/ \E t \in Lookups : At(t, "insert_reverse") /\ lookup[t].user = u
=============================================================================

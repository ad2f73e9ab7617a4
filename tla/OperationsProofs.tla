-------------------------- MODULE OperationsProofs --------------------------
(***************************************************************************)
(* Proofs about what works beside the engines: Credentials, Schema,        *)
(* IdentityMapping, LiveUpdates and PrListing, for any choice of their     *)
(* constants.                                                              *)
(***************************************************************************)
EXTENDS Credentials, IdentityMapping, Schema, LiveUpdates, PrListing,
        SequenceTheorems, FiniteSetTheorems, TLAPS

-----------------------------------------------------------------------------
(* Credentials: any number of repositories, branch pairs, saves, deaths.   *)
(*                                                                         *)
(* The invariant adds where the global key comes from (GlobalOK), what a   *)
(* save has already written before its second statement (SavingOK), that   *)
(* what was saved last for a repository is its own key (LatestOK), and     *)
(* that a running cycle has a clone (ClonedOK).                            *)

SavedFor(v) == \E q \in rows : v \in savedFor[q]

RowsOK == \A r \in rows : Parent[r] \in rows \cup {None}

GlobalOK == global \in Secrets => SavedFor(global)

SavingOK ==
    /\ \A v \in Secrets : saving = <<v>> => SavedFor(v)
    /\ saving = <<Blank>> => sealed \in Values
    /\ boot = "seal" => sealed \in Values

LatestOK ==
    \A r \in Repos :
        /\ savedFor[r] # {} => r \in rows
        /\ latest[r] # None => own[r] = latest[r] /\ r \in rows

ClonedOK == \A r \in Repos : client[r] # "idle" => url[r] # "no clone"

CInv ==
    /\ CredTypeOK /\ RowsOK /\ GlobalOK /\ SavingOK /\ LatestOK /\ ClonedOK
    /\ KeysStayInTheFamily

-----------------------------------------------------------------------------
(* Chains of keys.                                                         *)

\* The chains have one, two or three links.
LEMMA OneLink ==
    ASSUME NEW x PROVE FirstSet(<<x>>) = IF x \in Values THEN x ELSE None
<1>1. CASE x \in Values
  <2>1. \A i \in DOMAIN <<x>> : i = 1 OBVIOUS
  <2>2. (CHOOSE i \in DOMAIN <<x>> : /\ <<x>>[i] \in Values
             /\ \A j \in 1..(i - 1) : <<x>>[j] \notin Values) = 1
    BY <1>1, <2>1
  <2> QED BY <1>1, <2>2 DEF FirstSet
<1>2. CASE x \notin Values BY <1>2 DEF FirstSet
<1> QED BY <1>1, <1>2

LEMMA TwoLinks ==
    ASSUME NEW x, NEW y
    PROVE  FirstSet(<<x, y>>) =
               IF x \in Values THEN x ELSE IF y \in Values THEN y ELSE None
<1> DEFINE chain == <<x, y>>
           P(i) == chain[i] \in Values /\ \A j \in 1..(i - 1) : chain[j] \notin Values
<1>0. DOMAIN chain = {1, 2} /\ chain[1] = x /\ chain[2] = y OBVIOUS
<1> HIDE DEF chain
<1>1. CASE x \in Values
  <2>1. (CHOOSE i \in DOMAIN chain : P(i)) = 1
    <3>1. P(1) BY <1>0, <1>1
    <3>2. \A i \in DOMAIN chain : P(i) => i = 1 BY <1>0, <1>1
    <3> HIDE DEF P
    <3> QED BY <3>1, <3>2, <1>0
  <2> QED BY <1>0, <1>1, <2>1 DEF FirstSet, chain
<1>2. CASE x \notin Values /\ y \in Values
  <2>1. (CHOOSE i \in DOMAIN chain : P(i)) = 2
    <3>1. P(2) BY <1>0, <1>2
    <3>2. \A i \in DOMAIN chain : P(i) => i = 2 BY <1>0, <1>2
    <3> HIDE DEF P
    <3> QED BY <3>1, <3>2, <1>0
  <2> QED BY <1>0, <1>2, <2>1 DEF FirstSet, chain
<1>3. CASE x \notin Values /\ y \notin Values
  BY <1>0, <1>3 DEF FirstSet, chain
<1> QED BY <1>1, <1>2, <1>3

LEMMA ThreeLinks ==
    ASSUME NEW x, NEW y, NEW z
    PROVE  /\ x \in Values => FirstSet(<<x, y, z>>) = x
           /\ FirstSet(<<x, y, z>>) \in Values \cup {None}
<1> DEFINE chain == <<x, y, z>>
           P(i) == chain[i] \in Values /\ \A j \in 1..(i - 1) : chain[j] \notin Values
<1>0. DOMAIN chain = {1, 2, 3} /\ chain[1] = x /\ chain[2] = y /\ chain[3] = z
  OBVIOUS
<1> HIDE DEF chain
<1>1. ASSUME \E i \in DOMAIN chain : chain[i] \in Values
      PROVE  \E i \in DOMAIN chain : P(i)
  BY <1>0, <1>1
<1>2. x \in Values => P(1) /\ \A i \in DOMAIN chain : P(i) => i = 1
  BY <1>0
<1>3. FirstSet(chain) \in Values \cup {None}
  <2>1. CASE \E i \in DOMAIN chain : chain[i] \in Values
    BY <1>1, <2>1 DEF FirstSet
  <2> QED BY <2>1 DEF FirstSet
<1>4. ASSUME x \in Values PROVE FirstSet(chain) = x
  <2>1. (CHOOSE i \in DOMAIN chain : P(i)) = 1
    <3>1. P(1) /\ \A i \in DOMAIN chain : P(i) => i = 1 BY <1>2, <1>4
    <3> HIDE DEF P
    <3> QED BY <3>1, <1>0
  <2> QED BY <1>0, <1>4, <2>1 DEF FirstSet
<1> QED BY <1>3, <1>4 DEF chain

LEMMA ChainTypes ==
    ASSUME CredTypeOK, NEW r \in Repos
    PROVE  /\ Chain(r) \in Values \cup {None} /\ CopySource(r) \in Values \cup {None}
           /\ Embedded(Chain(r)) \in {"bare", "blank", "token"}
           /\ ImportToken(r) \in Slots
           /\ Embedded(ImportToken(r)) \in {"bare", "blank", "token"}
<1>1. Chain(r) \in Values \cup {None} BY ThreeLinks DEF Chain
<1>2. CopySource(r) \in Values \cup {None} BY OneLink DEF CopySource
<1>3. ImportToken(r) \in Slots BY DEF ImportToken, CredTypeOK, Slots
<1> QED BY <1>1, <1>2, <1>3 DEF Embedded

-----------------------------------------------------------------------------
(* The steps.                                                              *)

LEMMA CredInitOK ==
    ASSUME CredInit PROVE CInv
<1>1. CredTypeOK
  <2>1. own \in [Repos -> Values \cup {None}] /\ global \in Slots /\ sealed \in Values \cup {None}
    BY DEF CredInit, Values, Slots
  <2>2. client \in [Repos -> Slots \cup {"idle"}] BY DEF CredInit
  <2>3. savedFor \in [Repos -> SUBSET Secrets] /\ latest \in [Repos -> Secrets \cup {None}]
    BY DEF CredInit
  <2>4. deaths \in 0..MaxDeaths
    <3>1. MaxDeaths \in Nat BY CredentialsAssumption
    <3>2. deaths = 0 BY DEF CredInit
    <3> QED BY <3>1, <3>2
  <2>5. url \in [Repos -> {"no clone", "bare", "blank", "token"}] BY DEF CredInit
  <2> QED BY <2>1, <2>2, <2>3, <2>4, <2>5 DEF CredInit, CredTypeOK
<1> QED BY <1>1, CredentialsAssumption
        DEF CredInit, CInv, RowsOK, GlobalOK, SavingOK, LatestOK, ClonedOK,
            KeysStayInTheFamily

\* What decides the keys of a family.
keys == <<rows, own, savedFor, latest>>

LEMMA KeysStable ==
    ASSUME CInv, UNCHANGED keys
    PROVE  RowsOK' /\ LatestOK' /\ KeysStayInTheFamily'
           /\ \A v : SavedFor(v)' <=> SavedFor(v)
BY DEF keys, CInv, RowsOK, LatestOK, KeysStayInTheFamily, SavedFor

LEMMA BootKeeps ==
    ASSUME CInv, ResolveSecrets \/ BlankPlaintext \/ Started \/ Die PROVE CInv'
<1>1. RowsOK' /\ LatestOK' /\ KeysStayInTheFamily'
      /\ \A v : SavedFor(v)' <=> SavedFor(v)
  BY KeysStable DEF keys, ResolveSecrets, BlankPlaintext, Started, Die
<1>2. CASE ResolveSecrets
  <2>1. CredTypeOK' BY <1>2 DEF ResolveSecrets, CInv, CredTypeOK
  <2> QED BY <1>1, <1>2, <2>1
          DEF ResolveSecrets, CInv, GlobalOK, SavingOK, ClonedOK
<1>3. CASE BlankPlaintext
  <2>1. CredTypeOK' BY <1>3 DEF BlankPlaintext, CInv, CredTypeOK, Slots
  <2> QED BY <1>1, <1>3, <2>1, CredentialsAssumption
          DEF BlankPlaintext, CInv, GlobalOK, SavingOK, ClonedOK
<1>4. CASE Started
  <2>1. CredTypeOK' BY <1>4 DEF Started, CInv, CredTypeOK
  <2> QED BY <1>1, <1>4, <2>1 DEF Started, CInv, GlobalOK, SavingOK, ClonedOK
<1>5. CASE Die
  <2>1. CredTypeOK'
    <3>1. deaths' \in 0..MaxDeaths
      <4>1. MaxDeaths \in Nat BY CredentialsAssumption
      <4>2. deaths \in 0..MaxDeaths /\ deaths < MaxDeaths /\ deaths' = deaths + 1
        BY <1>5 DEF Die, CInv, CredTypeOK
      <4> QED BY <4>1, <4>2
    <3>2. client' \in [Repos -> Slots \cup {"idle"}] BY <1>5 DEF Die
    <3> QED BY <1>5, <3>1, <3>2 DEF Die, CInv, CredTypeOK
  <2> QED BY <1>1, <1>5, <2>1 DEF Die, CInv, GlobalOK, SavingOK, ClonedOK
<1> QED BY <1>2, <1>3, <1>4, <1>5

\* A row's key comes from its root's family.
LEMMA CopyKeeps ==
    ASSUME CInv, NEW r \in Repos, CopyKey(r) PROVE CInv'
<1>1. r \in rows BY DEF CopyKey, CInv, CredTypeOK
<1>2. Copied(r) \in Values \cup {None}
  BY ChainTypes DEF Copied, CInv, CredTypeOK
<1>3. CredTypeOK' BY <1>2 DEF CopyKey, CInv, CredTypeOK
<1>4. Copied(r) \in {None, Legacy} \cup UNION {savedFor[q] : q \in Family(r)}
  <2>1. CASE Copied(r) = own[r] BY <2>1 DEF CInv, KeysStayInTheFamily
  <2>2. CASE Copied(r) = CopySource(r) /\ Parent[r] # None
    <3>1. Parent[r] \in Repos BY <2>2, CredentialsAssumption
    <3>2. Family(Parent[r]) = Family(r)
      BY <2>2, CredentialsAssumption DEF Family, Root
    <3>3. CopySource(r) = IF own[Parent[r]] \in Values THEN own[Parent[r]] ELSE None
      BY <2>2, OneLink DEF CopySource
    <3> QED BY <2>2, <3>1, <3>2, <3>3 DEF CInv, KeysStayInTheFamily
  <2>3. CASE Copied(r) = CopySource(r) /\ Parent[r] = None
    <3>1. CASE SoleParent(r) /\ global \in Secrets
      <4>1. PICK q \in rows : global \in savedFor[q]
        BY <3>1 DEF CInv, GlobalOK, SavedFor
      <4>2. q \in Repos BY DEF CInv, CredTypeOK
      <4>3. Root(q) = r
        <5>1. CASE Parent[q] = None BY <3>1, <5>1 DEF SoleParent, Root
        <5>2. CASE Parent[q] # None
          <6>1. Parent[q] \in rows /\ Parent[Parent[q]] = None
            BY <4>2, <5>2, CredentialsAssumption DEF CInv, RowsOK
          <6> QED BY <3>1, <5>2, <6>1 DEF SoleParent, Root
        <5> QED BY <5>1, <5>2
      <4>4. q \in Family(r) BY <2>3, <4>2, <4>3 DEF Family, Root
      <4>5. CopySource(r) = global BY <2>3, <3>1, OneLink DEF CopySource, Values
      <4> QED BY <2>3, <4>1, <4>4, <4>5
    <3>2. CASE ~(SoleParent(r) /\ global \in Secrets)
      BY <2>3, <3>2, OneLink DEF CopySource, Values
    <3> QED BY <3>1, <3>2
  <2> QED BY <2>1, <2>2, <2>3 DEF Copied
<1>5. KeysStayInTheFamily'
  <2>1. own' = [own EXCEPT ![r] = Copied(r)] /\ savedFor' = savedFor BY DEF CopyKey
  <2>2. \A q \in Repos : own'[q] = IF q = r THEN Copied(r) ELSE own[q]
    BY <2>1 DEF CInv, CredTypeOK
  <2> QED BY <1>4, <2>1, <2>2 DEF CInv, KeysStayInTheFamily
<1>6. LatestOK'
  <2>1. ASSUME latest[r] # None PROVE Copied(r) = own[r]
    BY <2>1 DEF CInv, LatestOK, CredTypeOK, Copied, Values
  <2> QED BY <2>1 DEF CopyKey, CInv, LatestOK, CredTypeOK
<1> QED BY <1>3, <1>5, <1>6 DEF CopyKey, CInv, RowsOK, GlobalOK, SavingOK, ClonedOK, SavedFor

\* The first repository gets what the earlier version has left.
LEMMA MigrateKeeps ==
    ASSUME CInv, NEW r \in Repos, MigrateConfig(r) PROVE CInv'
<1>1. \A q \in Repos : savedFor[q] = {} /\ latest[q] = None
  BY DEF MigrateConfig, CInv, LatestOK
<1>2. global \notin Secrets BY DEF MigrateConfig, CInv, GlobalOK, SavedFor
<1>3. FirstSet(<<global>>) \in {None, Legacy} BY <1>2, OneLink DEF Values
<1>4. CredTypeOK' BY <1>3 DEF MigrateConfig, CInv, CredTypeOK, Values
<1>5. KeysStayInTheFamily'
  <2>1. /\ own' = [own EXCEPT ![r] = FirstSet(<<global>>)]
        /\ savedFor' = savedFor /\ own \in [Repos -> Values \cup {None}]
    BY DEF MigrateConfig, CInv, CredTypeOK
  <2>2. \A q \in Repos : own'[q] = IF q = r THEN FirstSet(<<global>>) ELSE own[q]
    BY <2>1
  <2> QED BY <1>3, <2>1, <2>2 DEF CInv, KeysStayInTheFamily
<1>6. SavingOK'
  BY DEF MigrateConfig, CInv, SavingOK, SavedFor
<1> QED BY <1>1, <1>2, <1>4, <1>5, <1>6
        DEF MigrateConfig, CInv, RowsOK, GlobalOK, LatestOK, ClonedOK

LEMMA AddKeeps ==
    ASSUME CInv, NEW r \in Repos, AddRepository(r) PROVE CInv'
<1>1. CredTypeOK' BY DEF AddRepository, CInv, CredTypeOK
<1>2. RowsOK' BY DEF AddRepository, CInv, RowsOK
<1>3. \A v : SavedFor(v) => SavedFor(v)' BY DEF AddRepository, SavedFor
<1>4. GlobalOK' /\ SavingOK' BY <1>3 DEF AddRepository, CInv, GlobalOK, SavingOK
<1>5. LatestOK' BY DEF AddRepository, CInv, LatestOK
<1>6. ClonedOK' /\ KeysStayInTheFamily'
  BY DEF AddRepository, CInv, ClonedOK, KeysStayInTheFamily
<1> QED BY <1>1, <1>2, <1>4, <1>5, <1>6 DEF CInv

LEMMA SaveKeeps ==
    ASSUME CInv, NEW r \in Repos, NEW v \in Unused, SaveCredentials(r, v) PROVE CInv'
<1>1. v \in Secrets /\ v \in Values /\ v # None /\ v # Blank
  BY CredentialsAssumption DEF Unused, Values
<1>2. CredTypeOK' BY <1>1 DEF SaveCredentials, CInv, CredTypeOK
<1>3. /\ \A q \in Repos : savedFor'[q] = IF q = r THEN savedFor[r] \cup {v} ELSE savedFor[q]
      /\ \A q \in Repos : own'[q] = IF q = r THEN v ELSE own[q]
      /\ \A q \in Repos : latest'[q] = IF q = r THEN v ELSE latest[q]
      /\ r \in rows /\ rows' = rows /\ rows \subseteq Repos
  BY DEF SaveCredentials, CInv, CredTypeOK
<1>4. SavedFor(v)' /\ \A w : SavedFor(w) => SavedFor(w)' BY <1>3 DEF SavedFor
<1>5. GlobalOK' BY <1>4 DEF SaveCredentials, CInv, GlobalOK
<1>6. SavingOK'
  <2>1. saving' = <<v>> /\ boot' = boot /\ boot # "seal" BY DEF SaveCredentials
  <2>2. \A w : <<w>> = <<v>> => w = v OBVIOUS
  <2> QED BY <1>1, <1>4, <2>1, <2>2 DEF SavingOK
<1>7. LatestOK' BY <1>3 DEF CInv, LatestOK
<1>8. KeysStayInTheFamily'
  <2> SUFFICES ASSUME NEW q \in Repos
               PROVE  own'[q] \in {None, Legacy} \cup UNION {savedFor'[p] : p \in Family(q)}
    BY DEF KeysStayInTheFamily
  <2>1. CASE q = r
    <3>1. r \in Family(r) BY DEF Family
    <3> QED BY <2>1, <3>1, <1>3
  <2>2. CASE q # r
    <3>1. own[q] \in {None, Legacy} \cup UNION {savedFor[p] : p \in Family(q)}
      BY DEF CInv, KeysStayInTheFamily
    <3>2. \A p \in Family(q) : savedFor[p] \subseteq savedFor'[p]
      BY <1>3 DEF Family
    <3> QED BY <1>3, <2>2, <3>1, <3>2
  <2> QED BY <2>1, <2>2
<1> QED BY <1>2, <1>3, <1>5, <1>6, <1>7, <1>8 DEF SaveCredentials, CInv, RowsOK, ClonedOK

LEMMA OtherSavesKeep ==
    ASSUME CInv, FinishSaving \/ \E v \in Unused : ApplyConfig(v) PROVE CInv'
<1>1. RowsOK' /\ LatestOK' /\ KeysStayInTheFamily'
      /\ \A v : SavedFor(v)' <=> SavedFor(v)
  BY KeysStable DEF keys, FinishSaving, ApplyConfig
<1>2. CASE FinishSaving
  <2>1. PICK v \in Secrets \cup {Blank} : saving = <<v>>
    BY <1>2 DEF FinishSaving, CInv, CredTypeOK
  <2>2. global' = v /\ saving' = <<>> BY <1>2, <2>1 DEF FinishSaving
  <2>3. CredTypeOK' BY <1>2, <2>2 DEF FinishSaving, CInv, CredTypeOK, Slots, Values
  <2>4. GlobalOK' BY <1>1, <2>1, <2>2 DEF CInv, SavingOK, GlobalOK
  <2>5. \A w : <<>> # <<w>> OBVIOUS
  <2>6. SavingOK' BY <1>2, <2>2, <2>5 DEF FinishSaving, CInv, SavingOK
  <2> QED BY <1>1, <1>2, <2>3, <2>4, <2>6 DEF FinishSaving, CInv, ClonedOK
<1>3. ASSUME NEW v \in Unused, ApplyConfig(v) PROVE CInv'
  <2>1. v \in Values BY DEF Unused, Values
  <2>2. CredTypeOK' BY <1>3, <2>1 DEF ApplyConfig, CInv, CredTypeOK
  <2>3. \A w \in Secrets : <<w>> # <<Blank>> BY CredentialsAssumption
  <2>4. SavingOK' BY <1>3, <2>1, <2>3 DEF ApplyConfig, SavingOK
  <2> QED BY <1>1, <1>3, <2>2, <2>4 DEF ApplyConfig, CInv, GlobalOK, ClonedOK
<1> QED BY <1>2, <1>3

LEMMA ReadersKeep ==
    ASSUME CInv, NEW r \in Repos,
           StartCycle(r) \/ RunCycle(r) \/ \E reset \in BOOLEAN : RepoImport(r, reset)
    PROVE  CInv'
<1>1. RowsOK' /\ LatestOK' /\ KeysStayInTheFamily'
      /\ \A v : SavedFor(v)' <=> SavedFor(v)
  BY KeysStable DEF keys, StartCycle, RunCycle, RepoImport
<1>2. UNCHANGED <<global, saving, sealed, boot>>
  BY DEF StartCycle, RunCycle, RepoImport
<1>3. GlobalOK' /\ SavingOK' BY <1>1, <1>2 DEF CInv, GlobalOK, SavingOK
<1>4. \A v \in Slots : Embedded(v) \in {"bare", "blank", "token"} BY DEF Embedded
<1>5. url[r] \in {"no clone", "bare", "blank", "token"} BY DEF CInv, CredTypeOK
<1>6. CASE StartCycle(r)
  <2>1. Chain(r) \in Slots BY ChainTypes DEF CInv, Slots
  <2>2. Remote(r, Chain(r)) \in {"bare", "blank", "token"}
    BY <1>4, <1>5, <2>1 DEF Remote, Ensured
  <2>3. CredTypeOK' BY <1>6, <2>1, <2>2 DEF StartCycle, CInv, CredTypeOK
  <2>4. ClonedOK' BY <1>6, <2>2 DEF StartCycle, CInv, ClonedOK, CredTypeOK
  <2> QED BY <1>1, <1>3, <2>3, <2>4 DEF CInv
<1>7. CASE RunCycle(r)
  <2>1. FirstSet(<<own[r], global>>) \in Slots BY TwoLinks DEF Slots
  <2>2. Ensured(url[r], FirstSet(<<own[r], global>>)) \in {"no clone", "bare", "blank", "token"}
    BY <1>4, <1>5, <2>1 DEF Ensured
  <2>3. CredTypeOK' BY <1>7, <2>2 DEF RunCycle, CInv, CredTypeOK
  <2>4. ClonedOK' BY <1>7 DEF RunCycle, CInv, ClonedOK, CredTypeOK
  <2> QED BY <1>1, <1>3, <2>3, <2>4 DEF CInv
<1>8. ASSUME NEW reset \in BOOLEAN, RepoImport(r, reset) PROVE CInv'
  <2>1. ImportToken(r) \in Slots BY ChainTypes DEF CInv
  <2>2. PICK u \in {"bare", "blank", "token"} : url' = [url EXCEPT ![r] = u]
    BY <1>4, <1>5, <1>8, <2>1 DEF RepoImport, Remote, Ensured
  <2>5. UNCHANGED <<env, rows, own, global, sealed, boot, uncopied, saving,
                    client, deaths, savedFor, latest>>
    BY <1>8 DEF RepoImport
  <2>3. CredTypeOK' BY <2>2, <2>5 DEF CInv, CredTypeOK
  <2>4. ClonedOK' BY <2>2, <2>5 DEF CInv, ClonedOK, CredTypeOK
  <2> QED BY <1>1, <1>3, <2>3, <2>4 DEF CInv
<1> QED BY <1>6, <1>7, <1>8

-----------------------------------------------------------------------------
(* The theorems.                                                           *)

LEMMA NextKeeps ==
    ASSUME CInv, [CredNext]_credVars PROVE CInv'
<1>1. CASE UNCHANGED credVars
  <2>1. /\ RowsOK' /\ LatestOK' /\ KeysStayInTheFamily'
        /\ \A v : SavedFor(v)' <=> SavedFor(v)
    BY <1>1, KeysStable DEF keys, credVars
  <2>2. CredTypeOK' /\ ClonedOK' BY <1>1 DEF credVars, CInv, CredTypeOK, ClonedOK
  <2>3. GlobalOK' /\ SavingOK' BY <1>1, <2>1 DEF credVars, CInv, GlobalOK, SavingOK
  <2> QED BY <2>1, <2>2, <2>3 DEF CInv
<1>2. CASE CredNext
  BY <1>2, BootKeeps, CopyKeeps, MigrateKeeps, AddKeeps, SaveKeeps,
     OtherSavesKeep, ReadersKeep DEF CredNext, Boot
<1> QED BY <1>1, <1>2

\* What the other theorems of this module rest on.
THEOREM CredInvariant == CredSpec => []CInv
<1>1. CredInit => CInv BY CredInitOK
<1>2. CInv /\ [CredNext]_credVars => CInv' BY NextKeeps
<1> QED BY <1>1, <1>2, PTL DEF CredSpec

\* Every variable has its type.
THEOREM CredTypeCorrect == CredSpec => []CredTypeOK
<1>1. CInv => CredTypeOK BY DEF CInv
<1> QED BY <1>1, CredInvariant, PTL

\* However many repositories and branch pairs share the global key, start-up
\* never gives one of them the key of another family.
THEOREM KeysStay == CredSpec => []KeysStayInTheFamily
<1>1. CInv => KeysStayInTheFamily BY DEF CInv
<1> QED BY <1>1, CredInvariant, PTL

\* A cycle reads the secret saved last for its repository.
THEOREM LastSavedUsed == CredSpec => []CyclesUseTheLastSaved
<1>1. ASSUME CInv PROVE CyclesUseTheLastSaved
  <2> SUFFICES ASSUME NEW r \in Repos, latest[r] # None PROVE Reloaded(r) = latest[r]
    BY DEF CyclesUseTheLastSaved
  <2>1. own[r] = latest[r] /\ latest[r] \in Values
    BY <1>1 DEF CInv, LatestOK, CredTypeOK, Values
  <2> QED BY <2>1, ThreeLinks DEF Reloaded
<1> QED BY <1>1, CredInvariant, PTL

Blanked == global \in Values /\ global' = Blank => sealed' \in Values

\* The plaintext is blanked only after the secret has been sealed.
THEOREM SecretsAreKept == CredSpec => SecretsSurvive
<1>1. ASSUME CInv, [CredNext]_credVars PROVE Blanked
  <2>1. CASE BlankPlaintext BY <1>1, <2>1 DEF BlankPlaintext, Blanked, CInv, SavingOK
  <2>2. CASE FinishSaving
    <3>1. PICK v \in Secrets \cup {Blank} : saving = <<v>>
      BY <1>1, <2>2 DEF FinishSaving, CInv, CredTypeOK
    <3>2. global' = v /\ sealed' = sealed BY <2>2, <3>1 DEF FinishSaving
    <3> QED BY <1>1, <3>1, <3>2 DEF CInv, SavingOK, Blanked
  <2>3. CASE UNCHANGED global
    BY <2>3, CredentialsAssumption DEF Blanked, Values
  <2> QED BY <1>1, <2>1, <2>2, <2>3
          DEF CredNext, Boot, ResolveSecrets, CopyKey, MigrateConfig, Started, Die,
              AddRepository, SaveCredentials, ApplyConfig, StartCycle, RunCycle,
              RepoImport, credVars
<1>2. CInv /\ [CredNext]_credVars => [Blanked]_credVars BY <1>1
<1>3. CredSpec => [][Blanked]_credVars BY <1>2, CredInvariant, PTL DEF CredSpec
<1> QED BY <1>3 DEF SecretsSurvive, Blanked

TokenLeft ==
    \A r \in Repos :
        client[r] # "idle" /\ client'[r] = "idle" /\ boot' = "up" /\ latest[r] # None
            => url'[r] \notin {"no clone", "bare"}

\* A finished cycle of a repository with a secret leaves a remote with a token,
\* whatever an import or a failed clone has done to it meanwhile.
THEOREM TokensAreLeft == CredSpec => CyclesLeaveAToken
<1>1. ASSUME CInv, [CredNext]_credVars PROVE TokenLeft
  <2> SUFFICES ASSUME NEW r \in Repos, client[r] # "idle", client'[r] = "idle",
                      boot' = "up", latest[r] # None
               PROVE  url'[r] \notin {"no clone", "bare"}
    BY DEF TokenLeft
  <2>1. RunCycle(r)
    <3>1. ~Die BY DEF Die
    <3>2. client' # client OBVIOUS
    <3>3. ASSUME NEW q \in Repos, StartCycle(q) PROVE FALSE
      <4>1. q # r BY <3>3 DEF StartCycle
      <4> QED BY <3>3, <4>1, <1>1 DEF StartCycle, CInv, CredTypeOK
    <3>4. ASSUME NEW q \in Repos, RunCycle(q) PROVE q = r
      BY <3>4, <1>1 DEF RunCycle, CInv, CredTypeOK
    <3> QED BY <1>1, <3>1, <3>2, <3>3, <3>4
            DEF CredNext, Boot, ResolveSecrets, BlankPlaintext, CopyKey,
                MigrateConfig, Started, AddRepository, SaveCredentials, ApplyConfig,
                FinishSaving, RepoImport, credVars
  <2>2. own[r] \in Values /\ own[r] \notin {None, Blank}
    <3>1. latest[r] \in Secrets /\ own[r] = latest[r]
      BY <1>1 DEF CInv, LatestOK, CredTypeOK
    <3> QED BY <3>1, CredentialsAssumption DEF Values
  <2>3. FirstSet(<<own[r], global>>) = own[r] BY <2>2, TwoLinks
  <2>4. url'[r] = Ensured(url[r], own[r])
    BY <1>1, <2>1, <2>3 DEF RunCycle, CInv, CredTypeOK
  <2>5. url[r] # "no clone" BY <1>1 DEF CInv, ClonedOK
  <2> QED BY <2>2, <2>4, <2>5 DEF Ensured, Embedded
<1>2. CInv /\ [CredNext]_credVars => [TokenLeft]_credVars BY <1>1
<1>3. CredSpec => [][TokenLeft]_credVars BY <1>2, CredInvariant, PTL DEF CredSpec
<1> QED BY <1>3 DEF CyclesLeaveAToken, TokenLeft

-----------------------------------------------------------------------------
(* IdentityMapping: any number of users, addresses and concurrent lookups. *)
(*                                                                         *)
(* The properties speak of users and addresses nobody has edited.  For     *)
(* such a user there is one answer, whoever asks and whenever (AnswersOK); *)
(* for such an address the directory has no owner it had not at first,     *)
(* and all of them as long as no reverse entry answers (OwnersOK).         *)

Steps == {"free", "by_uid", "by_mail", "insert", "insert_reverse", "mapped", "found"}

LookupRec == [pc : Steps, user : People, mail : Addresses]

\* The one answer about a user.
Answer(u) ==
    IF cache[u] # Nobody THEN cache[u]
    ELSE IF directory[u] # Nobody THEN directory[u] ELSE Fallback[u]

\* The cache knows what the directory says of a user, or nothing.
Agree(u) == cache[u] \in {Nobody, directory[u]}

AnswersOK ==
    /\ "ldap" \notin configured => \A u \in Users : directory[u] = Nobody
    /\ \A t \in Lookups : lookup[t].user \notin changed =>
          /\ At(t, "by_uid") => Agree(lookup[t].user)
          /\ lookup[t].pc \in {"insert", "insert_reverse"} =>
                Agree(lookup[t].user) /\ lookup[t].mail = directory[lookup[t].user]
          /\ At(t, "mapped") => lookup[t].mail = Answer(lookup[t].user)

LeadsToOwner(t) ==
    IF known[lookup[t].mail] = {} THEN lookup[t].user = LocalPart(lookup[t].mail)
    ELSE lookup[t].user \in known[lookup[t].mail]

OwnersOK ==
    /\ \A e \in Emails \ changed :
          /\ Owners(directory, e) \subseteq known[e]
          /\ IF reverse[e] = Nobody THEN known[e] = Owners(directory, e)
             ELSE reverse[e] \in known[e]
    /\ \A t \in Lookups : lookup[t].mail \notin changed =>
          /\ At(t, "by_mail") =>
                known[lookup[t].mail] = Owners(directory, lookup[t].mail)
          /\ lookup[t].pc \in {"insert", "insert_reverse"} =>
                lookup[t].user \in known[lookup[t].mail]
          /\ At(t, "found") => LeadsToOwner(t)

BothWays ==
    \A u \in Users :
        \/ cache[u] = Nobody
        \/ reverse[cache[u]] # Nobody
        \/ \E t \in Lookups : /\ At(t, "insert_reverse")
                              /\ lookup[t].user = u /\ lookup[t].mail = cache[u]

IdInv == IdentityTypeOK /\ AnswersOK /\ OwnersOK /\ BothWays

-----------------------------------------------------------------------------

LEMMA IdentityTypes ==
    ASSUME IdentityTypeOK
    PROVE  /\ lookup \in [Lookups -> LookupRec]
           /\ cache \in [Users -> Addresses] /\ directory \in [Users -> Addresses]
           /\ reverse \in [Emails -> People] /\ known \in [Emails -> SUBSET Users]
BY DEF IdentityTypeOK, LookupRec, Steps

LEMMA LocalPartIsPerson ==
    ASSUME NEW e PROVE LocalPart(e) \in People
BY DEF LocalPart, People

LEMMA IdentityInitOK ==
    ASSUME IdentityInit PROVE IdInv
<1>1. /\ cache \in [Users -> Addresses] /\ directory \in [Users -> Addresses]
      /\ reverse \in [Emails -> People] /\ known \in [Emails -> SUBSET Users]
      /\ reverse \in ReversesOf(cache)
  BY DEF IdentityInit, ReversesOf, Addresses, Owners
<1>2. \A t \in Lookups : lookup[t] = Rest BY DEF IdentityInit
<1>3. IdentityTypeOK
  <2>1. lookup \in [Lookups -> LookupRec]
    BY DEF IdentityInit, Rest, LookupRec, Steps, People, Addresses
  <2>2. lookups \in 0..MaxLookups /\ edits \in 0..MaxEdits
    BY IdentityAssumption DEF IdentityInit
  <2>3. resolver = Nobody /\ changed = {} /\ configured \subseteq {"ldap", "domain"}
    BY DEF IdentityInit
  <2> QED BY <1>1, <1>2, <2>1, <2>2, <2>3, IdentityAssumption
          DEF IdentityTypeOK, Rest, LookupRec, Steps
<1>4. AnswersOK
  BY <1>2 DEF IdentityInit, AnswersOK, Rest, At
<1>5. OwnersOK
  <2>1. \A e \in Emails : known[e] = Owners(cache, e) \cup Owners(directory, e)
    BY DEF IdentityInit
  <2>2. \A e \in Emails : IF Owners(cache, e) = {} THEN reverse[e] = Nobody
                          ELSE reverse[e] \in Owners(cache, e)
    BY <1>1 DEF ReversesOf
  <2>3. \A e \in Emails : Nobody \notin Owners(cache, e)
    BY IdentityAssumption DEF Owners
  <2>4. ASSUME NEW e \in Emails
        PROVE  /\ Owners(directory, e) \subseteq known[e]
               /\ reverse[e] = Nobody => known[e] = Owners(directory, e)
               /\ reverse[e] # Nobody => reverse[e] \in known[e]
    <3>1. CASE Owners(cache, e) = {} BY <2>1, <2>2, <3>1
    <3>2. CASE Owners(cache, e) # {}
      <4>1. reverse[e] \in Owners(cache, e) /\ reverse[e] # Nobody BY <2>2, <2>3, <3>2
      <4> QED BY <2>1, <4>1
    <3> QED BY <3>1, <3>2
  <2>5. \A t \in Lookups : lookup[t].pc = "free" BY <1>2 DEF Rest
  <2> QED BY <2>4, <2>5 DEF OwnersOK, At
<1>6. BothWays
  <2> SUFFICES ASSUME NEW u \in Users, cache[u] # Nobody PROVE reverse[cache[u]] # Nobody
    BY DEF BothWays
  <2>1. cache[u] \in Emails /\ u \in Owners(cache, cache[u])
    BY <1>1 DEF Addresses, Owners
  <2> QED BY <1>1, <2>1, IdentityAssumption DEF ReversesOf, Owners
<1> QED BY <1>3, <1>4, <1>5, <1>6 DEF IdInv

\* Somebody's entry changes: what is said of the others stays.
LEMMA EditKeeps ==
    ASSUME IdInv, NEW u \in Users, NEW e \in Addresses, EditDirectory(u, e)
    PROVE  IdInv'
<1>1. /\ cache \in [Users -> Addresses] /\ directory \in [Users -> Addresses]
      /\ lookup \in [Lookups -> LookupRec]
  BY IdentityTypes DEF IdInv
<1>2. /\ directory' = [directory EXCEPT ![u] = e]
      /\ changed' = changed \cup {u, e, directory[u]}
      /\ "ldap" \in configured
      /\ UNCHANGED <<configured, cache, reverse, resolver, lookup, known, lookups>>
  BY DEF EditDirectory
<1>3. \A v \in Users : v \notin changed' => v \notin changed /\ directory'[v] = directory[v]
  BY <1>1, <1>2
<1>4. \A f \in Emails \ changed' : f \notin changed /\ Owners(directory', f) = Owners(directory, f)
  BY <1>1, <1>2 DEF Owners
<1>5. IdentityTypeOK'
  <2>1. edits' \in 0..MaxEdits
    BY IdentityAssumption DEF EditDirectory, IdInv, IdentityTypeOK
  <2>2. changed' \subseteq Users \cup Addresses
    BY <1>1, <1>2 DEF IdInv, IdentityTypeOK
  <2> QED BY <1>1, <1>2, <2>1, <2>2 DEF IdInv, IdentityTypeOK, At
<1>6. AnswersOK'
  <2>1. ASSUME NEW t \in Lookups, lookup[t].user \notin changed',
               lookup[t].pc \in {"by_uid", "insert", "insert_reverse", "mapped"}
        PROVE  lookup[t].user \in Users /\ directory'[lookup[t].user] = directory[lookup[t].user]
               /\ lookup[t].user \notin changed
    BY <1>2, <1>3, <2>1 DEF IdInv, IdentityTypeOK
  <2> QED BY <1>2, <2>1 DEF IdInv, AnswersOK, Agree, Answer, At
<1>7. OwnersOK'
  <2>1. ASSUME NEW t \in Lookups, lookup[t].mail \notin changed', At(t, "by_mail")
        PROVE  Owners(directory', lookup[t].mail) = Owners(directory, lookup[t].mail)
               /\ lookup[t].mail \notin changed
    BY <1>2, <1>4, <2>1 DEF IdInv, IdentityTypeOK, At
  <2>2. \A f \in Emails \ changed' :
            /\ Owners(directory', f) \subseteq known[f]
            /\ IF reverse[f] = Nobody THEN known[f] = Owners(directory', f)
               ELSE reverse[f] \in known[f]
    BY <1>4 DEF IdInv, OwnersOK
  <2>3. \A t \in Lookups : lookup[t].mail \notin changed' => lookup[t].mail \notin changed
    BY <1>2
  <2> QED BY <1>2, <2>1, <2>2, <2>3 DEF IdInv, OwnersOK, At, LeadsToOwner
<1>8. BothWays' BY <1>2 DEF IdInv, BothWays, At
<1> QED BY <1>5, <1>6, <1>7, <1>8 DEF IdInv

-----------------------------------------------------------------------------
(* Lookups.                                                                *)

\* A lookup goes to another step and leaves everything else as it is.
SafeAnswer(r) ==
    /\ r \in LookupRec
    /\ r.pc \in {"by_uid", "insert", "insert_reverse", "mapped"} => r.user \in Users
    /\ r.pc \in {"by_mail", "insert", "insert_reverse", "mapped", "found"} => r.mail \in Emails
    /\ r.user \notin changed =>
          /\ r.pc = "by_uid" => Agree(r.user)
          /\ r.pc = "insert" => Agree(r.user) /\ r.mail = directory[r.user]
          /\ r.pc = "mapped" => r.mail = Answer(r.user)
    /\ r.mail \notin changed =>
          /\ r.pc = "by_mail" => known[r.mail] = Owners(directory, r.mail)
          /\ r.pc = "insert" => r.user \in known[r.mail]
          /\ r.pc = "found" => IF known[r.mail] = {} THEN r.user = LocalPart(r.mail)
                               ELSE r.user \in known[r.mail]
    /\ r.pc # "insert_reverse"

LEMMA LookupMoves ==
    ASSUME IdInv, NEW t \in Lookups, NEW r, SafeAnswer(r), Onto(t, r),
           lookup[t].pc # "insert_reverse",
           UNCHANGED <<stable, cache, reverse, directory, edits>>,
           resolver' \in Lookups \cup {Nobody}, resolver' # t,
           resolver' = resolver \/ resolver' = Nobody,
           lookups' \in 0..MaxLookups
    PROVE  IdInv'
<1>1. lookup \in [Lookups -> LookupRec] BY IdentityTypes DEF IdInv
<1>2. lookup' = [lookup EXCEPT ![t] = r] BY DEF Onto
<1>3. \A x \in Lookups : lookup'[x] = IF x = t THEN r ELSE lookup[x] BY <1>1, <1>2
<1>4. IdentityTypeOK'
  <2>1. lookup' \in [Lookups -> LookupRec] BY <1>1, <1>2 DEF SafeAnswer
  <2>2. \A x \in Lookups :
          /\ lookup'[x].pc \in {"by_uid", "insert", "insert_reverse", "mapped"} =>
                lookup'[x].user \in Users
          /\ lookup'[x].pc \in {"by_mail", "insert", "insert_reverse", "mapped", "found"} =>
                lookup'[x].mail \in Emails
          /\ resolver' = x => lookup'[x].pc \in {"by_uid", "by_mail"}
    BY <1>3, IdentityAssumption DEF IdInv, IdentityTypeOK, SafeAnswer
  <2> QED BY <2>1, <2>2 DEF IdInv, IdentityTypeOK, LookupRec, Steps, stable
<1>5. AnswersOK'
  BY <1>3 DEF IdInv, AnswersOK, SafeAnswer, stable, At, Agree, Answer
<1>6. OwnersOK'
  BY <1>3 DEF IdInv, OwnersOK, SafeAnswer, stable, At, LeadsToOwner
<1>7. BothWays'
  BY <1>3 DEF IdInv, BothWays, At, stable
<1> QED BY <1>4, <1>5, <1>6, <1>7 DEF IdInv

LEMMA RestIsFresh == SafeAnswer(Rest)
BY DEF SafeAnswer, Rest, LookupRec, Steps, People, Addresses

LEMMA FallbackIsFresh ==
    ASSUME IdInv, NEW u \in Users, directory[u] = Nobody,
           u \notin changed => cache[u] = Nobody
    PROVE  SafeAnswer(WithoutLdap(u))
<1>1. Fallback[u] \in Emails BY IdentityAssumption
<1>2. CASE "domain" \in configured
  <2>1. WithoutLdap(u) = [pc |-> "mapped", user |-> u, mail |-> Fallback[u]]
    BY <1>2 DEF WithoutLdap, Answers
  <2> QED BY <1>1, <2>1 DEF SafeAnswer, LookupRec, Steps, People, Addresses, Answer
<1>3. CASE "domain" \notin configured
  BY <1>3, RestIsFresh DEF WithoutLdap
<1> QED BY <1>2, <1>3

LEMMA AskIdentityKeeps ==
    ASSUME IdInv, NEW t \in Lookups, NEW u \in Users, AskIdentity(t, u) PROVE IdInv'
<1> DEFINE r == IF cache[u] # Nobody THEN Answers(u, cache[u])
                ELSE IF "ldap" \in configured
                     THEN [Rest EXCEPT !.pc = "by_uid", !.user = u]
                ELSE WithoutLdap(u)
<1>1. cache[u] \in Addresses BY IdentityTypes DEF IdInv
<1>2. SafeAnswer(r)
  <2>1. CASE cache[u] # Nobody
    <3>1. r = [pc |-> "mapped", user |-> u, mail |-> cache[u]] BY <2>1 DEF Answers
    <3>2. cache[u] \in Emails BY <1>1, <2>1 DEF Addresses
    <3> HIDE DEF r
    <3> QED BY <2>1, <3>1, <3>2 DEF SafeAnswer, LookupRec, Steps, People, Addresses, Answer
  <2>2. CASE cache[u] = Nobody /\ "ldap" \in configured
    <3>1. r = [pc |-> "by_uid", user |-> u, mail |-> Nobody] BY <2>2 DEF Rest
    <3> HIDE DEF r
    <3> QED BY <2>2, <3>1 DEF SafeAnswer, LookupRec, Steps, People, Addresses, Agree
  <2>3. CASE cache[u] = Nobody /\ "ldap" \notin configured
    <3>1. directory[u] = Nobody BY <2>3 DEF IdInv, AnswersOK
    <3> QED BY <2>3, <3>1, FallbackIsFresh
  <2> QED BY <2>1, <2>2, <2>3
<1>3. lookup[t].pc \in {"free", "mapped", "found"} /\ Onto(t, r)
      /\ UNCHANGED <<stable, cache, reverse, resolver, directory, edits>>
  BY DEF AskIdentity
<1>4. lookups' \in 0..MaxLookups
  BY IdentityAssumption DEF AskIdentity, IdInv, IdentityTypeOK
<1>5. resolver # t /\ resolver \in Lookups \cup {Nobody}
  BY <1>3 DEF IdInv, IdentityTypeOK
<1> HIDE DEF r
<1> QED BY <1>2, <1>3, <1>4, <1>5, LookupMoves

LEMMA AskUserKeeps ==
    ASSUME IdInv, NEW t \in Lookups, NEW e \in Emails, AskUser(t, e) PROVE IdInv'
<1> DEFINE r == IF reverse[e] # Nobody THEN Found(reverse[e], e)
                ELSE IF "ldap" \in configured
                     THEN [Rest EXCEPT !.pc = "by_mail", !.mail = e]
                ELSE Found(LocalPart(e), e)
<1>1. reverse[e] \in People BY IdentityTypes DEF IdInv
<1>0. e # Nobody /\ Nobody \notin Users BY IdentityAssumption
<1>2. SafeAnswer(r)
  <2>1. CASE reverse[e] # Nobody
    <3>1. r = [pc |-> "found", user |-> reverse[e], mail |-> e] BY <2>1 DEF Found
    <3>2. e \notin changed => reverse[e] \in known[e] BY <2>1 DEF IdInv, OwnersOK
    <3> HIDE DEF r
    <3> QED BY <1>1, <3>1, <3>2 DEF SafeAnswer, LookupRec, Steps, Addresses
  <2>2. CASE reverse[e] = Nobody /\ "ldap" \in configured
    <3>1. r = [pc |-> "by_mail", user |-> Nobody, mail |-> e] BY <2>2 DEF Rest
    <3>2. e \notin changed => known[e] = Owners(directory, e) BY <2>2 DEF IdInv, OwnersOK
    <3> HIDE DEF r
    <3> QED BY <3>1, <3>2 DEF SafeAnswer, LookupRec, Steps, People, Addresses
  <2>3. CASE reverse[e] = Nobody /\ "ldap" \notin configured
    <3>1. r = [pc |-> "found", user |-> LocalPart(e), mail |-> e] BY <2>3 DEF Found
    <3>2. Owners(directory, e) = {} BY <1>0, <2>3 DEF IdInv, AnswersOK, Owners
    <3>3. e \notin changed => known[e] = {} BY <2>3, <3>2 DEF IdInv, OwnersOK
    <3> HIDE DEF r
    <3> QED BY <3>1, <3>3, LocalPartIsPerson DEF SafeAnswer, LookupRec, Steps, Addresses
  <2> QED BY <2>1, <2>2, <2>3
<1>3. lookup[t].pc \in {"free", "mapped", "found"} /\ Onto(t, r)
      /\ UNCHANGED <<stable, cache, reverse, resolver, directory, edits>>
  BY DEF AskUser
<1>4. lookups' \in 0..MaxLookups
  BY IdentityAssumption DEF AskUser, IdInv, IdentityTypeOK
<1>5. resolver # t /\ resolver \in Lookups \cup {Nobody}
  BY <1>3 DEF IdInv, IdentityTypeOK
<1> HIDE DEF r
<1> QED BY <1>2, <1>3, <1>4, <1>5, LookupMoves

LEMMA ConnectKeeps ==
    ASSUME IdInv, NEW t \in Lookups, Connect(t) PROVE IdInv'
<1>1. IdentityTypeOK' BY IdentityAssumption DEF Connect, stable, IdInv, IdentityTypeOK, At
<1>2. AnswersOK' BY DEF Connect, stable, IdInv, AnswersOK, At, Agree, Answer
<1>3. OwnersOK' BY DEF Connect, stable, IdInv, OwnersOK, At, LeadsToOwner
<1>4. BothWays' BY DEF Connect, stable, IdInv, BothWays, At
<1> QED BY <1>1, <1>2, <1>3, <1>4 DEF IdInv

\* What LDAP says, or that it says nothing.
LEMMA LdapKeeps ==
    ASSUME IdInv, NEW t \in Lookups, LdapFails(t) \/ FoundByUid(t) \/ FoundByMail(t)
    PROVE  IdInv'
<1>1. /\ resolver = t /\ resolver' = Nobody /\ t # Nobody
      /\ UNCHANGED <<stable, cache, reverse, directory, lookups, edits>>
      /\ lookup[t].pc \in {"by_uid", "by_mail"}
  BY IdentityAssumption
     DEF LdapFails, FoundByUid, FoundByMail, IdInv, IdentityTypeOK
<1>2. PICK r : SafeAnswer(r) /\ Onto(t, r)
  <2>1. CASE LdapFails(t) BY <2>1, RestIsFresh DEF LdapFails, Unreachable
  <2>2. CASE FoundByUid(t)
    <3> DEFINE u == lookup[t].user
    <3>1. u \in Users /\ At(t, "by_uid") BY <2>2 DEF FoundByUid, IdInv, IdentityTypeOK, At
    <3>2. u \notin changed => Agree(u) BY <3>1 DEF IdInv, AnswersOK
    <3>3. directory[u] \in Addresses BY <3>1, IdentityTypes DEF IdInv
    <3>4. CASE HasMail(u)
      <4> DEFINE r == [pc |-> "insert", user |-> u, mail |-> directory[u]]
      <4>1. directory[u] \in Emails BY <3>3, <3>4 DEF HasMail, Addresses
      <4>2. u \in Owners(directory, directory[u]) BY <3>1 DEF Owners
      <4>3. directory[u] \notin changed => u \in known[directory[u]]
        BY <4>1, <4>2 DEF IdInv, OwnersOK
      <4>4. SafeAnswer(r)
        BY <3>1, <3>2, <4>1, <4>3 DEF SafeAnswer, LookupRec, Steps, People, Addresses
      <4>5. Onto(t, r) BY <2>2, <3>4 DEF FoundByUid
      <4> QED BY <4>4, <4>5
    <3>5. CASE ~HasMail(u)
      <4>1. SafeAnswer(WithoutLdap(u))
        BY <3>1, <3>2, <3>5, FallbackIsFresh DEF HasMail, Agree
      <4>2. Onto(t, WithoutLdap(u)) BY <2>2, <3>5 DEF FoundByUid
      <4> QED BY <4>1, <4>2
    <3> QED BY <3>4, <3>5
  <2>3. CASE FoundByMail(t)
    <3> DEFINE e == lookup[t].mail
    <3>1. e \in Emails /\ At(t, "by_mail") BY <2>3 DEF FoundByMail, IdInv, IdentityTypeOK, At
    <3>2. e \notin changed => known[e] = Owners(directory, e) BY <3>1 DEF IdInv, OwnersOK
    <3>3. PICK u \in IF Matches(e) = {} THEN {LocalPart(e)} ELSE Matches(e) : Onto(t, Found(u, e))
      BY <2>3 DEF FoundByMail
    <3>4. u \in People BY <3>3, LocalPartIsPerson DEF Matches, Owners, People
    <3>5. SafeAnswer(Found(u, e))
      BY <3>1, <3>2, <3>3, <3>4 DEF SafeAnswer, Found, Matches, LookupRec, Steps, Addresses
    <3> QED BY <3>3, <3>5
  <2> QED BY <2>1, <2>2, <2>3
<1>3. lookups' \in 0..MaxLookups BY <1>1 DEF IdInv, IdentityTypeOK
<1> QED BY <1>1, <1>2, <1>3, LookupMoves

LEMMA InsertKeeps ==
    ASSUME IdInv, NEW t \in Lookups, Insert(t) PROVE IdInv'
<1> DEFINE u == lookup[t].user
           e == lookup[t].mail
<1>1. /\ lookup \in [Lookups -> LookupRec] /\ cache \in [Users -> Addresses]
      /\ reverse \in [Emails -> People]
  BY IdentityTypes DEF IdInv
<1>2. u \in Users /\ e \in Emails /\ e # Nobody
  BY IdentityAssumption DEF Insert, At, IdInv, IdentityTypeOK
<1>3. /\ lookup' = [lookup EXCEPT ![t] = [lookup[t] EXCEPT !.pc = "insert_reverse"]]
      /\ cache' = [cache EXCEPT ![u] = e] /\ lookup[t].pc = "insert"
      /\ UNCHANGED <<stable, reverse, resolver, directory, lookups, edits>>
  BY DEF Insert, Onto, At
<1>4. \A x \in Lookups : /\ lookup'[x].user = lookup[x].user /\ lookup'[x].mail = lookup[x].mail
                         /\ lookup'[x].pc = IF x = t THEN "insert_reverse" ELSE lookup[x].pc
  BY <1>1, <1>3 DEF LookupRec
<1>5. \A v \in Users : cache'[v] = IF v = u THEN e ELSE cache[v] BY <1>1, <1>3
<1> HIDE DEF u, e
<1>6. IdentityTypeOK'
  <2>1. lookup' \in [Lookups -> LookupRec] BY <1>1, <1>3 DEF LookupRec, Steps
  <2>2. cache' \in [Users -> Addresses] BY <1>1, <1>2, <1>3 DEF Addresses
  <2>3. \A x \in Lookups :
          /\ lookup'[x].pc \in {"by_uid", "insert", "insert_reverse", "mapped"} =>
                lookup'[x].user \in Users
          /\ lookup'[x].pc \in {"by_mail", "insert", "insert_reverse", "mapped", "found"} =>
                lookup'[x].mail \in Emails
          /\ resolver = x => lookup'[x].pc \in {"by_uid", "by_mail"}
    BY <1>2, <1>3, <1>4 DEF IdInv, IdentityTypeOK, u, e
  <2> QED BY <1>3, <2>1, <2>2, <2>3 DEF IdInv, IdentityTypeOK, LookupRec, Steps, stable
<1>7. AnswersOK'
  <2>1. u \notin changed => cache[u] \in {Nobody, directory[u]} /\ e = directory[u]
    BY <1>3 DEF IdInv, AnswersOK, Agree, u, e
  <2>2. \A v \in Users \ changed : /\ Agree(v) => Agree(v)'
                                   /\ Answer(v)' = Answer(v)
    BY <1>2, <1>3, <1>5, <2>1 DEF Agree, Answer, stable
  <2>3. \A x \in Lookups : lookup[x].pc \in {"by_uid", "insert", "insert_reverse", "mapped"} =>
            lookup[x].user \in Users
    BY DEF IdInv, IdentityTypeOK
  <2>4. ASSUME NEW x \in Lookups, lookup[x].user \notin changed
        PROVE  /\ At(x, "by_uid")' => Agree(lookup[x].user)'
               /\ lookup'[x].pc \in {"insert", "insert_reverse"} =>
                     Agree(lookup[x].user)' /\ lookup[x].mail = directory[lookup[x].user]
               /\ At(x, "mapped")' => lookup[x].mail = Answer(lookup[x].user)'
    BY <1>3, <1>4, <2>2, <2>3, <2>4 DEF IdInv, AnswersOK, At
  <2> QED BY <1>3, <1>4, <2>4 DEF IdInv, AnswersOK, At, Agree, Answer, stable
<1>8. OwnersOK'
  BY <1>3, <1>4 DEF IdInv, OwnersOK, At, LeadsToOwner, stable
<1>9. BothWays'
  <2> SUFFICES ASSUME NEW v \in Users
               PROVE  \/ cache'[v] = Nobody
                      \/ reverse'[cache'[v]] # Nobody
                      \/ \E x \in Lookups : /\ lookup'[x].pc = "insert_reverse"
                                            /\ lookup'[x].user = v /\ lookup'[x].mail = cache'[v]
    BY DEF BothWays, At
  <2>1. CASE v = u BY <1>4, <1>5, <2>1 DEF u, e
  <2>2. CASE v # u BY <1>3, <1>4, <1>5, <2>2 DEF IdInv, BothWays, At
  <2> QED BY <2>1, <2>2
<1> QED BY <1>6, <1>7, <1>8, <1>9 DEF IdInv

LEMMA InsertReverseKeeps ==
    ASSUME IdInv, NEW t \in Lookups, InsertReverse(t) PROVE IdInv'
<1> DEFINE u == lookup[t].user
           e == lookup[t].mail
<1>1. /\ lookup \in [Lookups -> LookupRec] /\ cache \in [Users -> Addresses]
      /\ reverse \in [Emails -> People]
  BY IdentityTypes DEF IdInv
<1>2. u \in Users /\ e \in Emails /\ u # Nobody
  BY IdentityAssumption DEF InsertReverse, At, IdInv, IdentityTypeOK
<1>3. /\ lookup' = [lookup EXCEPT ![t] = Answers(u, e)]
      /\ reverse' = [reverse EXCEPT ![e] = u] /\ lookup[t].pc = "insert_reverse"
      /\ UNCHANGED <<stable, cache, resolver, directory, lookups, edits>>
  BY DEF InsertReverse, ReverseWith, Onto, At
<1>4. \A x \in Lookups : lookup'[x] = IF x = t THEN Answers(u, e) ELSE lookup[x]
  BY <1>1, <1>3
<1>5. \A f \in Emails : reverse'[f] = IF f = e THEN u ELSE reverse[f] BY <1>1, <1>3
<1>6. u \notin changed => Agree(u) /\ e = directory[u] BY <1>3 DEF IdInv, AnswersOK
<1>7. e \notin changed => u \in known[e] BY <1>3 DEF IdInv, OwnersOK
<1>8. Answers(u, e).pc = "mapped" /\ Answers(u, e).user = u /\ Answers(u, e).mail = e
  BY DEF Answers
<1>9. resolver # t BY <1>3 DEF IdInv, IdentityTypeOK
<1>10. Answers(u, e) \in LookupRec
  BY <1>2 DEF Answers, LookupRec, Steps, People, Addresses
<1> HIDE DEF u, e
<1>11. IdentityTypeOK'
  <2>1. lookup' \in [Lookups -> LookupRec] BY <1>1, <1>3, <1>10
  <2>2. reverse' \in [Emails -> People] BY <1>1, <1>2, <1>3 DEF People
  <2>3. \A x \in Lookups :
          /\ lookup'[x].pc \in {"by_uid", "insert", "insert_reverse", "mapped"} =>
                lookup'[x].user \in Users
          /\ lookup'[x].pc \in {"by_mail", "insert", "insert_reverse", "mapped", "found"} =>
                lookup'[x].mail \in Emails
          /\ resolver = x => lookup'[x].pc \in {"by_uid", "by_mail"}
    BY <1>2, <1>4, <1>8, <1>9 DEF IdInv, IdentityTypeOK
  <2> QED BY <1>3, <2>1, <2>2, <2>3 DEF IdInv, IdentityTypeOK, LookupRec, Steps, stable
<1>12. AnswersOK'
  <2>1. u \notin changed => e = Answer(u)
    BY <1>2, <1>6, IdentityAssumption DEF Agree, Answer
  <2> QED BY <1>3, <1>4, <1>8, <2>1 DEF IdInv, AnswersOK, At, Agree, Answer, stable
<1>13. OwnersOK'
  <2>1. \A f \in Emails \ changed :
            IF reverse'[f] = Nobody THEN known[f] = Owners(directory, f)
            ELSE reverse'[f] \in known[f]
    BY <1>2, <1>5, <1>7 DEF IdInv, OwnersOK
  <2> QED BY <1>3, <1>4, <1>8, <2>1 DEF IdInv, OwnersOK, At, LeadsToOwner, stable
<1>14. BothWays'
  <2> SUFFICES ASSUME NEW v \in Users, cache[v] # Nobody
               PROVE  \/ reverse'[cache[v]] # Nobody
                      \/ \E x \in Lookups : /\ lookup'[x].pc = "insert_reverse"
                                            /\ lookup'[x].user = v /\ lookup'[x].mail = cache[v]
    BY <1>3 DEF BothWays, At
  <2>1. cache[v] \in Emails BY <1>1 DEF Addresses
  <2>2. CASE reverse[cache[v]] # Nobody BY <1>2, <1>5, <2>1, <2>2
  <2>3. ASSUME NEW x \in Lookups, lookup[x].pc = "insert_reverse", lookup[x].user = v,
               lookup[x].mail = cache[v]
        PROVE  \/ reverse'[cache[v]] # Nobody
               \/ lookup'[x].pc = "insert_reverse" /\ lookup'[x].user = v /\ lookup'[x].mail = cache[v]
    BY <1>2, <1>4, <1>5, <2>1, <2>3 DEF e, u
  <2> QED BY <2>2, <2>3 DEF IdInv, BothWays, At
<1> QED BY <1>11, <1>12, <1>13, <1>14 DEF IdInv

-----------------------------------------------------------------------------
(* The theorems.                                                           *)

\* What the other theorems of this module rest on.
THEOREM IdentityInvariant == IdentitySpec => []IdInv
<1>1. IdentityInit => IdInv BY IdentityInitOK
<1>2. IdInv /\ [IdentityNext]_idVars => IdInv'
  <2> SUFFICES ASSUME IdInv, [IdentityNext]_idVars PROVE IdInv' OBVIOUS
  <2>1. CASE UNCHANGED idVars
    BY <2>1 DEF idVars, IdInv, IdentityTypeOK, AnswersOK, OwnersOK, BothWays, At, Agree,
                Answer, LeadsToOwner
  <2>2. CASE IdentityNext
    BY <2>2, EditKeeps, AskIdentityKeeps, AskUserKeeps, ConnectKeeps, LdapKeeps,
       InsertKeeps, InsertReverseKeeps DEF IdentityNext
  <2> QED BY <2>1, <2>2
<1> QED BY <1>1, <1>2, PTL DEF IdentitySpec

\* Every variable has its type.
THEOREM IdentityTypeCorrect == IdentitySpec => []IdentityTypeOK
<1>1. IdInv => IdentityTypeOK BY DEF IdInv
<1> QED BY <1>1, IdentityInvariant, PTL

\* Any number of cycles that look a user up at the same time get one identity.
THEOREM OneIdentity == IdentitySpec => []OneIdentityPerUser
<1>1. IdInv => OneIdentityPerUser BY DEF IdInv, AnswersOK, OneIdentityPerUser
<1> QED BY <1>1, IdentityInvariant, PTL

\* An address leads to one of its owners, to its local part only without one.
THEOREM AddressesFindOwners == IdentitySpec => []AddressesLeadToTheirOwners
<1>1. IdInv => AddressesLeadToTheirOwners
  BY DEF IdInv, OwnersOK, LeadsToOwner, AddressesLeadToTheirOwners
<1> QED BY <1>1, IdentityInvariant, PTL

\* Whoever is cached is found by the address, or will be as soon as the lookup
\* that has cached the address goes on.
THEOREM CacheReadsBothWays == IdentitySpec => []CachedBothWays
<1>1. IdInv => CachedBothWays BY DEF IdInv, BothWays, CachedBothWays
<1> QED BY <1>1, IdentityInvariant, PTL

-----------------------------------------------------------------------------
(* LiveUpdates: any number of clients and messages, any capacity.          *)

Connections == {"off", "opened", "auth", "welcome", "live", "gone", "closed"}

LiveItems == [kind : {"message", "warning", "nothing"}, n : Nat]

LiveTypeOK ==
    /\ sent \in Nat /\ conn \in [Clients -> Connections]
    /\ next \in [Clients -> Nat \ {0}]
    /\ last \in [Clients -> LiveItems] /\ told \in [Clients -> Nat]

\* As long as nothing is withheld from a client it knows where its receiver is.
CountOK ==
    \A c \in Clients :
        conn[c] \notin {"gone", "closed"} => next[c] = told[c] + 1

LiveInv == LiveTypeOK /\ CountOK /\ NothingLostSilently

LEMMA OldestType == ASSUME LiveTypeOK PROVE Oldest \in Nat \ {0}
  BY LiveUpdatesAssumption DEF LiveTypeOK, Oldest

\* A client is sent a message, or a warning that it missed some.
LEMMA ShowKeeps ==
    ASSUME LiveInv, NEW c \in Clients, conn[c] \in {"live", "gone"},
           Forward(c) \/ Lagged(c)
    PROVE  LiveInv'
<1>1. /\ sent \in Nat /\ conn \in [Clients -> Connections] /\ next \in [Clients -> Nat \ {0}]
      /\ last \in [Clients -> LiveItems] /\ told \in [Clients -> Nat] /\ sent' = sent
  BY DEF LiveInv, LiveTypeOK, Forward, Lagged
<1>2. Oldest \in Nat \ {0}
  BY OldestType DEF LiveInv
<1>3. conn[c] = "live" => next[c] = told[c] + 1
  BY DEF LiveInv, CountOK
<1>4. \A d \in Clients : /\ conn[d] \notin {"gone", "closed"} => next[d] = told[d] + 1
                         /\ last[d].kind = "message" => last[d].n = told[d]
  BY DEF LiveInv, CountOK, NothingLostSilently
<1>5. CASE conn' = [conn EXCEPT ![c] = "closed"] /\ UNCHANGED <<next, last, told>>
  <2>1. LiveTypeOK'
    BY <1>1, <1>5 DEF LiveTypeOK, Connections
  <2>2. \A d \in Clients : conn'[d] = conn[d] \/ conn'[d] = "closed"
    BY <1>1, <1>5
  <2> QED BY <1>4, <1>5, <2>1, <2>2 DEF LiveInv, CountOK, NothingLostSilently
<1>6. CASE /\ conn[c] = "live" /\ conn' = conn
           /\ Show(c, Message(next[c])) /\ next' = [next EXCEPT ![c] = @ + 1]
  <2> DEFINE item == Message(next[c])
  <2>1. item \in LiveItems /\ item.kind = "message" /\ item.n = next[c] /\ Worth(item) = 1
    BY <1>1 DEF Message, LiveItems, Worth
  <2> HIDE DEF item
  <2>2. /\ last' = [last EXCEPT ![c] = item] /\ told' = [told EXCEPT ![c] = @ + 1]
    BY <1>6, <2>1 DEF Show, item
  <2>3. LiveTypeOK'
    BY <1>1, <1>6, <2>1, <2>2 DEF LiveTypeOK
  <2>4. CountOK' /\ NothingLostSilently'
    BY <1>1, <1>3, <1>4, <1>6, <2>1, <2>2 DEF CountOK, NothingLostSilently
  <2> QED BY <2>3, <2>4 DEF LiveInv
<1>7. CASE /\ conn[c] = "live" /\ conn' = conn /\ next[c] < Oldest
           /\ Show(c, Warning(Missed(c))) /\ next' = [next EXCEPT ![c] = Oldest]
  <2> DEFINE item == Warning(Missed(c))
  <2>1. Missed(c) = Oldest - next[c] /\ Missed(c) \in Nat
    BY <1>1, <1>2, <1>7 DEF Missed
  <2>2. item \in LiveItems /\ item.kind = "warning" /\ Worth(item) = Oldest - next[c]
    BY <2>1 DEF Warning, LiveItems, Worth
  <2> HIDE DEF item
  <2>3. /\ last' = [last EXCEPT ![c] = item]
        /\ told' = [told EXCEPT ![c] = @ + (Oldest - next[c])]
    BY <1>7, <2>2 DEF Show, item
  <2>4. told[c] + (Oldest - next[c]) \in Nat /\ told[c] + (Oldest - next[c]) + 1 = Oldest
    BY <1>1, <1>2, <1>3, <1>7
  <2>5. LiveTypeOK'
    BY <1>1, <1>2, <1>7, <2>2, <2>3, <2>4 DEF LiveTypeOK
  <2>6. CountOK' /\ NothingLostSilently'
    BY <1>1, <1>2, <1>4, <1>7, <2>2, <2>3, <2>4 DEF CountOK, NothingLostSilently
  <2> QED BY <2>5, <2>6 DEF LiveInv
<1>8. CASE /\ conn' = [conn EXCEPT ![c] = "gone"] /\ UNCHANGED <<last, told>>
           /\ next' = [next EXCEPT ![c] = Oldest]
  <2>1. LiveTypeOK'
    BY <1>1, <1>2, <1>8 DEF LiveTypeOK, Connections
  <2>2. CountOK' /\ NothingLostSilently'
    BY <1>1, <1>4, <1>8 DEF CountOK, NothingLostSilently
  <2> QED BY <2>1, <2>2 DEF LiveInv
<1>9. Forward(c) => \/ conn' = [conn EXCEPT ![c] = "closed"] /\ UNCHANGED <<next, last, told>>
                    \/ /\ conn[c] = "live" /\ conn' = conn
                       /\ Show(c, Message(next[c])) /\ next' = [next EXCEPT ![c] = @ + 1]
  BY DEF Forward
<1>10. Lagged(c) => \/ /\ conn[c] = "live" /\ conn' = conn /\ next[c] < Oldest
                       /\ Show(c, Warning(Missed(c))) /\ next' = [next EXCEPT ![c] = Oldest]
                    \/ /\ conn' = [conn EXCEPT ![c] = "gone"] /\ UNCHANGED <<last, told>>
                       /\ next' = [next EXCEPT ![c] = Oldest]
  BY DEF Lagged, Warn
<1> QED BY <1>5, <1>6, <1>7, <1>8, <1>9, <1>10

\* A message is broadcast, a client connects, is let in or goes.
LEMMA OthersKeep ==
    ASSUME LiveInv,
           \/ Broadcast \/ UNCHANGED liveVars
           \/ \E c \in Clients :
                 Upgrade(c) \/ Open(c) \/ Authenticate(c) \/ Greet(c) \/ Leave(c)
    PROVE  LiveInv'
<1>1. /\ sent \in Nat /\ conn \in [Clients -> Connections] /\ next \in [Clients -> Nat \ {0}]
      /\ last \in [Clients -> LiveItems] /\ told \in [Clients -> Nat]
  BY DEF LiveInv, LiveTypeOK
<1>2. \A d \in Clients : /\ conn[d] \notin {"gone", "closed"} => next[d] = told[d] + 1
                         /\ last[d].kind = "message" => last[d].n = told[d]
  BY DEF LiveInv, CountOK, NothingLostSilently
<1>3. CASE Broadcast \/ UNCHANGED liveVars
  <2>1. sent' \in Nat /\ UNCHANGED <<conn, next, last, told>>
    BY <1>1, <1>3 DEF Broadcast, liveVars
  <2> QED BY <2>1 DEF LiveInv, LiveTypeOK, CountOK, NothingLostSilently
<1>4. CASE \E c \in Clients : Upgrade(c)
  <2> PICK c \in Clients : Upgrade(c)
    BY <1>4
  <2>1. /\ conn' = [conn EXCEPT ![c] = "opened"] /\ next' = [next EXCEPT ![c] = sent + 1]
        /\ last' = [last EXCEPT ![c] = Nothing] /\ told' = [told EXCEPT ![c] = sent]
        /\ sent' = sent /\ Nothing \in LiveItems /\ Nothing.kind = "nothing"
    BY DEF Upgrade, Nothing, LiveItems
  <2>2. sent + 1 \in Nat \ {0}
    BY <1>1
  <2>3. LiveTypeOK'
    BY <1>1, <2>1, <2>2 DEF LiveTypeOK, Connections
  <2>4. CountOK' /\ NothingLostSilently'
    BY <1>1, <1>2, <2>1 DEF CountOK, NothingLostSilently
  <2> QED BY <2>3, <2>4 DEF LiveInv
<1>5. CASE \E c \in Clients : Open(c) \/ Authenticate(c) \/ Greet(c) \/ Leave(c)
  <2> PICK c \in Clients : Open(c) \/ Authenticate(c) \/ Greet(c) \/ Leave(c)
    BY <1>5
  <2>1. \/ conn[c] \notin {"gone", "closed"}
        \/ conn' = [conn EXCEPT ![c] = "closed"]
    BY <1>1 DEF Open, Authenticate, Greet, Leave, Goto
  <2>2. PICK to \in {"auth", "welcome", "live", "closed"} :
               conn' = [conn EXCEPT ![c] = to] /\ UNCHANGED <<sent, next, last, told>>
    BY DEF Open, Authenticate, Greet, Leave, Goto
  <2>3. LiveTypeOK'
    BY <1>1, <2>2 DEF LiveTypeOK, Connections
  <2>4. \A d \in Clients : conn'[d] \notin {"gone", "closed"} => next[d] = told[d] + 1
    BY <1>1, <1>2, <2>1, <2>2
  <2> QED BY <1>2, <2>2, <2>3, <2>4 DEF LiveInv, CountOK, NothingLostSilently
<1> QED BY <1>3, <1>4, <1>5

\* However many messages pile up while a client is let in or reads slowly, it
\* always knows which message it is reading.
THEOREM NothingIsLost == LiveSpec => []NothingLostSilently
<1>1. LiveInit => LiveInv
  BY DEF LiveInit, LiveInv, LiveTypeOK, CountOK, NothingLostSilently, Connections, LiveItems, Nothing
<1>2. LiveInv /\ [LiveNext]_liveVars => LiveInv'
  <2> SUFFICES ASSUME LiveInv, [LiveNext]_liveVars PROVE LiveInv'
    OBVIOUS
  <2>1. CASE \E c \in Clients : Forward(c) \/ Lagged(c)
    BY <2>1, ShowKeeps DEF Forward, Lagged
  <2> QED BY <2>1, OthersKeep DEF LiveNext
<1>3. LiveInv => NothingLostSilently
  BY DEF LiveInv
<1> QED BY <1>1, <1>2, <1>3, PTL DEF LiveSpec

-----------------------------------------------------------------------------
(* Schema: any number of processes that open the file, of openings and     *)
(* cuts.                                                                   *)

Copy == "import_progress_new"
FirstColumn == "commit_map.repo_id"

\* Where a column is added.
Place(name) ==
    IF name = "audit_log.success" THEN <<3, 1>>
    ELSE IF name = FirstColumn THEN <<6, 2>>
    ELSE IF name = "sync_records.repo_id" THEN <<6, 3>>
    ELSE IF name = "audit_log.repo_id" THEN <<6, 4>>
    ELSE IF name = "conflicts.repo_id" THEN <<6, 5>>
    ELSE IF name = "repositories.last_svn_rev" THEN <<7, 1>>
    ELSE IF name = "repositories.last_git_sha" THEN <<7, 2>>
    ELSE IF name = "repositories.last_sync_at" THEN <<7, 3>>
    ELSE IF name = "repositories.sync_status" THEN <<7, 4>>
    ELSE IF name = "repositories.total_syncs" THEN <<7, 5>>
    ELSE IF name = "repositories.total_errors" THEN <<7, 6>>
    ELSE IF name = "repositories.parent_id" THEN <<8, 1>>
    ELSE IF name = "conflicts.resolved_content" THEN <<10, 1>>
    ELSE <<0, 0>>

\* Statement j of migration u creates a table, or adds a column at its place.
Plain(u, j, s) ==
    \/ s[1] = "create" /\ Place(s[2]) = <<0, 0>>
    \/ s[1] = "add" /\ Place(s[2]) = <<u, j>>

LEMMA TenMigrations ==
    /\ Latest = 10 /\ DOMAIN Migrations = 1..10
    /\ Migrations[1] = InitialSchema /\ Migrations[2] = PrSyncLog
    /\ Migrations[3] = AuditSuccess /\ Migrations[4] = ImportProgress
    /\ Migrations[5] = MultiUser /\ Migrations[6] = MultiRepository
    /\ Migrations[7] = RepositoryWatermarks /\ Migrations[8] = ParentId
    /\ Migrations[9] = EncryptedSecrets /\ Migrations[10] = ResolvedContent
  BY DEF Latest, Migrations

LEMMA ListOf ==
    ASSUME NEW n \in Nat, NEW list, DOMAIN list = 1..n, list = [i \in 1..n |-> list[i]]
    PROVE  Len(list) = n
<1> DEFINE S == {list[i] : i \in 1..n}
<1>1. list \in [1..n -> S]
  OBVIOUS
<1> HIDE DEF S
<1>2. list \in Seq(S)
  BY <1>1
<1> QED BY <1>1, <1>2, LenProperties

\* The lengths of migrations that only create tables, or only add columns.
LEMMA Lengths ==
    ASSUME NEW n \in Nat, NEW names, DOMAIN names = 1..n
    PROVE  Len(Tables(names)) = n /\ Len(Columns(names)) = n
<1> DEFINE tables == Tables(names)
           columns == Columns(names)
<1>1. /\ DOMAIN tables = 1..n /\ tables = [i \in 1..n |-> tables[i]]
      /\ DOMAIN columns = 1..n /\ columns = [i \in 1..n |-> columns[i]]
  BY DEF Tables, Columns
<1> HIDE DEF tables, columns
<1>2. Len(tables) = n /\ Len(columns) = n
  BY <1>1, ListOf
<1> QED BY <1>2 DEF tables, columns

LEMMA InitialSchemaFacts ==
    /\ DOMAIN InitialSchema = 1..7 /\ Len(InitialSchema) = 7
    /\ \A j \in 1..7 : Plain(1, j, InitialSchema[j]) /\ InitialSchema[j][2] # Copy
<1> DEFINE names == <<"commit_map", "sync_state", "conflicts", "watermarks",
                     "audit_log", "sync_records", "kv_state">>
<1>1. \E n \in Nat : n = 7 /\ DOMAIN names = 1..n
  OBVIOUS
<1>2. InitialSchema = Tables(names)
  BY DEF InitialSchema
<1>3. \A j \in 1..7 : Place(names[j]) = <<0, 0>> /\ names[j] # Copy
  BY DEF Place, FirstColumn, Copy
<1> HIDE DEF names
<1>4. Len(Tables(names)) = 7
  <2> PICK n \in Nat : n = 7 /\ DOMAIN names = 1..n
    BY <1>1
  <2>1. Len(Tables(names)) = n
    BY ONLY n \in Nat, DOMAIN names = 1..n, Lengths
  <2> QED BY <2>1
<1> QED BY <1>1, <1>2, <1>3, <1>4 DEF Plain, Tables

LEMMA PrSyncLogFacts ==
    /\ DOMAIN PrSyncLog = 1..1 /\ Len(PrSyncLog) = 1
    /\ \A j \in 1..1 : Plain(2, j, PrSyncLog[j]) /\ PrSyncLog[j][2] # Copy
<1> DEFINE names == <<"pr_sync_log">>
<1>1. \E n \in Nat : n = 1 /\ DOMAIN names = 1..n
  OBVIOUS
<1>2. PrSyncLog = Tables(names)
  BY DEF PrSyncLog
<1>3. \A j \in 1..1 : Place(names[j]) = <<0, 0>> /\ names[j] # Copy
  BY DEF Place, FirstColumn, Copy
<1> HIDE DEF names
<1>4. Len(Tables(names)) = 1
  <2> PICK n \in Nat : n = 1 /\ DOMAIN names = 1..n
    BY <1>1
  <2>1. Len(Tables(names)) = n
    BY ONLY n \in Nat, DOMAIN names = 1..n, Lengths
  <2> QED BY <2>1
<1> QED BY <1>1, <1>2, <1>3, <1>4 DEF Plain, Tables

LEMMA AuditSuccessFacts ==
    /\ DOMAIN AuditSuccess = 1..1 /\ Len(AuditSuccess) = 1
    /\ \A j \in 1..1 : Plain(3, j, AuditSuccess[j]) /\ AuditSuccess[j][2] # Copy
<1> DEFINE names == <<"audit_log.success">>
<1>1. \E n \in Nat : n = 1 /\ DOMAIN names = 1..n
  OBVIOUS
<1>2. AuditSuccess = Columns(names)
  BY DEF AuditSuccess
<1>3. \A j \in 1..1 : Place(names[j]) = <<3, j>> /\ names[j] # Copy
  BY DEF Place, FirstColumn, Copy
<1> HIDE DEF names
<1>4. Len(Columns(names)) = 1
  <2> PICK n \in Nat : n = 1 /\ DOMAIN names = 1..n
    BY <1>1
  <2>1. Len(Columns(names)) = n
    BY ONLY n \in Nat, DOMAIN names = 1..n, Lengths
  <2> QED BY <2>1
<1> QED BY <1>1, <1>2, <1>3, <1>4 DEF Plain, Columns

LEMMA ImportProgressFacts ==
    /\ DOMAIN ImportProgress = 1..1 /\ Len(ImportProgress) = 1
    /\ \A j \in 1..1 : Plain(4, j, ImportProgress[j]) /\ ImportProgress[j][2] # Copy
<1> DEFINE names == <<"import_progress">>
<1>1. \E n \in Nat : n = 1 /\ DOMAIN names = 1..n
  OBVIOUS
<1>2. ImportProgress = Tables(names)
  BY DEF ImportProgress
<1>3. \A j \in 1..1 : Place(names[j]) = <<0, 0>> /\ names[j] # Copy
  BY DEF Place, FirstColumn, Copy
<1> HIDE DEF names
<1>4. Len(Tables(names)) = 1
  <2> PICK n \in Nat : n = 1 /\ DOMAIN names = 1..n
    BY <1>1
  <2>1. Len(Tables(names)) = n
    BY ONLY n \in Nat, DOMAIN names = 1..n, Lengths
  <2> QED BY <2>1
<1> QED BY <1>1, <1>2, <1>3, <1>4 DEF Plain, Tables

LEMMA MultiUserFacts ==
    /\ DOMAIN MultiUser = 1..3 /\ Len(MultiUser) = 3
    /\ \A j \in 1..3 : Plain(5, j, MultiUser[j]) /\ MultiUser[j][2] # Copy
<1> DEFINE names == <<"users", "user_credentials", "sessions">>
<1>1. \E n \in Nat : n = 3 /\ DOMAIN names = 1..n
  OBVIOUS
<1>2. MultiUser = Tables(names)
  BY DEF MultiUser
<1>3. \A j \in 1..3 : Place(names[j]) = <<0, 0>> /\ names[j] # Copy
  BY DEF Place, FirstColumn, Copy
<1> HIDE DEF names
<1>4. Len(Tables(names)) = 3
  <2> PICK n \in Nat : n = 3 /\ DOMAIN names = 1..n
    BY <1>1
  <2>1. Len(Tables(names)) = n
    BY ONLY n \in Nat, DOMAIN names = 1..n, Lengths
  <2> QED BY <2>1
<1> QED BY <1>1, <1>2, <1>3, <1>4 DEF Plain, Tables

LEMMA RepositoryWatermarksFacts ==
    /\ DOMAIN RepositoryWatermarks = 1..6 /\ Len(RepositoryWatermarks) = 6
    /\ \A j \in 1..6 : Plain(7, j, RepositoryWatermarks[j]) /\ RepositoryWatermarks[j][2] # Copy
<1> DEFINE names == <<"repositories.last_svn_rev", "repositories.last_git_sha",
                     "repositories.last_sync_at", "repositories.sync_status",
                     "repositories.total_syncs", "repositories.total_errors">>
<1>1. \E n \in Nat : n = 6 /\ DOMAIN names = 1..n
  OBVIOUS
<1>2. RepositoryWatermarks = Columns(names)
  BY DEF RepositoryWatermarks
<1>3. \A j \in 1..6 : Place(names[j]) = <<7, j>> /\ names[j] # Copy
  BY DEF Place, FirstColumn, Copy
<1> HIDE DEF names
<1>4. Len(Columns(names)) = 6
  <2> PICK n \in Nat : n = 6 /\ DOMAIN names = 1..n
    BY <1>1
  <2>1. Len(Columns(names)) = n
    BY ONLY n \in Nat, DOMAIN names = 1..n, Lengths
  <2> QED BY <2>1
<1> QED BY <1>1, <1>2, <1>3, <1>4 DEF Plain, Columns

LEMMA ParentIdFacts ==
    /\ DOMAIN ParentId = 1..1 /\ Len(ParentId) = 1
    /\ \A j \in 1..1 : Plain(8, j, ParentId[j]) /\ ParentId[j][2] # Copy
<1> DEFINE names == <<"repositories.parent_id">>
<1>1. \E n \in Nat : n = 1 /\ DOMAIN names = 1..n
  OBVIOUS
<1>2. ParentId = Columns(names)
  BY DEF ParentId
<1>3. \A j \in 1..1 : Place(names[j]) = <<8, j>> /\ names[j] # Copy
  BY DEF Place, FirstColumn, Copy
<1> HIDE DEF names
<1>4. Len(Columns(names)) = 1
  <2> PICK n \in Nat : n = 1 /\ DOMAIN names = 1..n
    BY <1>1
  <2>1. Len(Columns(names)) = n
    BY ONLY n \in Nat, DOMAIN names = 1..n, Lengths
  <2> QED BY <2>1
<1> QED BY <1>1, <1>2, <1>3, <1>4 DEF Plain, Columns

LEMMA EncryptedSecretsFacts ==
    /\ DOMAIN EncryptedSecrets = 1..1 /\ Len(EncryptedSecrets) = 1
    /\ \A j \in 1..1 : Plain(9, j, EncryptedSecrets[j]) /\ EncryptedSecrets[j][2] # Copy
<1> DEFINE names == <<"encrypted_secrets">>
<1>1. \E n \in Nat : n = 1 /\ DOMAIN names = 1..n
  OBVIOUS
<1>2. EncryptedSecrets = Tables(names)
  BY DEF EncryptedSecrets
<1>3. \A j \in 1..1 : Place(names[j]) = <<0, 0>> /\ names[j] # Copy
  BY DEF Place, FirstColumn, Copy
<1> HIDE DEF names
<1>4. Len(Tables(names)) = 1
  <2> PICK n \in Nat : n = 1 /\ DOMAIN names = 1..n
    BY <1>1
  <2>1. Len(Tables(names)) = n
    BY ONLY n \in Nat, DOMAIN names = 1..n, Lengths
  <2> QED BY <2>1
<1> QED BY <1>1, <1>2, <1>3, <1>4 DEF Plain, Tables

LEMMA ResolvedContentFacts ==
    /\ DOMAIN ResolvedContent = 1..1 /\ Len(ResolvedContent) = 1
    /\ \A j \in 1..1 : Plain(10, j, ResolvedContent[j]) /\ ResolvedContent[j][2] # Copy
<1> DEFINE names == <<"conflicts.resolved_content">>
<1>1. \E n \in Nat : n = 1 /\ DOMAIN names = 1..n
  OBVIOUS
<1>2. ResolvedContent = Columns(names)
  BY DEF ResolvedContent
<1>3. \A j \in 1..1 : Place(names[j]) = <<10, j>> /\ names[j] # Copy
  BY DEF Place, FirstColumn, Copy
<1> HIDE DEF names
<1>4. Len(Columns(names)) = 1
  <2> PICK n \in Nat : n = 1 /\ DOMAIN names = 1..n
    BY <1>1
  <2>1. Len(Columns(names)) = n
    BY ONLY n \in Nat, DOMAIN names = 1..n, Lengths
  <2> QED BY <2>1
<1> QED BY <1>1, <1>2, <1>3, <1>4 DEF Plain, Columns

LEMMA SeqOf ==
    ASSUME NEW n \in Nat, NEW list, list = [i \in 1..n |-> list[i]],
           NEW S, \A i \in 1..n : list[i] \in S
    PROVE  list \in Seq(S)
  OBVIOUS

\* The migration that rebuilds a table.
LEMMA ThreeParts ==
    ASSUME NEW S, NEW x \in Seq(S), NEW y \in Seq(S), NEW z \in Seq(S),
           Len(x) = 1, Len(y) = 4, Len(z) = 4
    PROVE  LET all == x \o y \o z IN
           /\ DOMAIN all = 1..9 /\ Len(all) = 9
           /\ all[1] = x[1] /\ all[2] = y[1] /\ all[3] = y[2] /\ all[4] = y[3]
           /\ all[5] = y[4] /\ all[6] = z[1] /\ all[7] = z[2] /\ all[8] = z[3]
           /\ all[9] = z[4]
<1> DEFINE xy == x \o y
           all == xy \o z
<1>1. /\ xy \in Seq(S) /\ Len(xy) = 5
      /\ \A i \in 1..5 : xy[i] = IF i <= 1 THEN x[i] ELSE y[i - 1]
  <2>1. /\ xy \in Seq(S) /\ Len(xy) = Len(x) + Len(y)
        /\ \A i \in 1..Len(xy) : xy[i] = IF i <= Len(x) THEN x[i] ELSE y[i - Len(x)]
    BY ONLY x \in Seq(S), y \in Seq(S), ConcatProperties
  <2> HIDE DEF xy
  <2>2. Len(xy) = 5
    BY <2>1
  <2> QED BY <2>1, <2>2
<1> HIDE DEF xy
<1>2. /\ all \in Seq(S) /\ Len(all) = 9
      /\ \A i \in 1..9 : all[i] = IF i <= 5 THEN xy[i] ELSE z[i - 5]
  <2>1. /\ all \in Seq(S) /\ Len(all) = Len(xy) + Len(z)
        /\ \A i \in 1..Len(all) : all[i] = IF i <= Len(xy) THEN xy[i] ELSE z[i - Len(xy)]
    <3>1. xy \in Seq(S) /\ z \in Seq(S)
      BY <1>1
    <3> QED BY ONLY <3>1, ConcatProperties
  <2> HIDE DEF all
  <2>2. Len(all) = 9
    BY <1>1, <2>1
  <2> QED BY <1>1, <2>1, <2>2
<1> HIDE DEF all
<1>3. DOMAIN all = 1..9
  BY <1>2, LenProperties
<1>4. /\ xy[1] = x[1] /\ xy[2] = y[1] /\ xy[3] = y[2] /\ xy[4] = y[3] /\ xy[5] = y[4]
  BY <1>1
<1>5. /\ all[1] = xy[1] /\ all[2] = xy[2] /\ all[3] = xy[3] /\ all[4] = xy[4]
      /\ all[5] = xy[5] /\ all[6] = z[1] /\ all[7] = z[2] /\ all[8] = z[3] /\ all[9] = z[4]
  BY <1>2
<1> QED BY <1>2, <1>3, <1>4, <1>5 DEF all, xy

LEMMA MultiRepositoryFacts ==
    /\ DOMAIN MultiRepository = 1..9 /\ Len(MultiRepository) = 9
    /\ MultiRepository[1] = <<"create", "repositories">>
    /\ MultiRepository[2] = <<"add", FirstColumn>>
    /\ \A j \in 3..5 : MultiRepository[j][1] = "add"
                       /\ Place(MultiRepository[j][2]) = <<6, j>>
    /\ \A j \in 1..5 : MultiRepository[j][2] # Copy
    /\ MultiRepository[6] = <<"create", Copy>>
    /\ MultiRepository[7] = <<"copy", "import_progress">>
    /\ MultiRepository[8] = <<"drop", "import_progress">>
    /\ MultiRepository[9] = <<"rename", Copy>>
<1> DEFINE r == "repositories"
           c1 == "commit_map.repo_id"
           c2 == "sync_records.repo_id"
           c3 == "audit_log.repo_id"
           c4 == "conflicts.repo_id"
           one == <<r>>
           four == <<c1, c2, c3, c4>>
           x == Tables(one)
           y == RepositoryColumns
           S == {x[1], y[1], y[2], y[3], y[4],
                 Rebuild[1], Rebuild[2], Rebuild[3], Rebuild[4]}
<1>0. /\ x = [i \in DOMAIN one |-> <<"create", one[i]>>]
      /\ y = [i \in DOMAIN four |-> <<"add", four[i]>>]
  BY DEF RepositoryColumns, Tables, Columns
<1>1. /\ x = [i \in 1..1 |-> x[i]] /\ x[1] = <<"create", r>>
      /\ y = [i \in 1..4 |-> y[i]] /\ y[1] = <<"add", c1>>
      /\ y[2] = <<"add", c2>> /\ y[3] = <<"add", c3>>
      /\ y[4] = <<"add", c4>> /\ DOMAIN x = 1..1 /\ DOMAIN y = 1..4
  <2>1. /\ DOMAIN one = 1..1 /\ one[1] = r /\ DOMAIN four = 1..4 /\ four[1] = c1
        /\ four[2] = c2 /\ four[3] = c3 /\ four[4] = c4
    OBVIOUS
  <2> HIDE DEF one, four, x, y, S, r, c1, c2, c3, c4
  <2>2. DOMAIN x = 1..1 /\ DOMAIN y = 1..4
    BY <1>0, <2>1
  <2>3. x = [i \in 1..1 |-> x[i]]
    BY <1>0, <2>1
  <2>6. x[1] = <<"create", one[1]>>
    <3>1. 1 \in DOMAIN one
      BY <2>1
    <3> QED BY ONLY <1>0, <3>1
  <2>4. y = [i \in 1..4 |-> y[i]]
    BY <1>0, <2>1
  <2>5. /\ y[1] = <<"add", four[1]>> /\ y[2] = <<"add", four[2]>>
        /\ y[3] = <<"add", four[3]>> /\ y[4] = <<"add", four[4]>>
    <3>1. 1 \in DOMAIN four /\ 2 \in DOMAIN four /\ 3 \in DOMAIN four /\ 4 \in DOMAIN four
      BY <2>1
    <3> QED BY ONLY <1>0, <3>1
  <2> QED BY <2>1, <2>2, <2>3, <2>4, <2>5, <2>6
<1>2. /\ \A i \in 1..1 : x[i] \in S
      /\ \A i \in 1..4 : y[i] \in S
  OBVIOUS
<1>4. /\ Rebuild[1] = <<"create", Copy>> /\ Rebuild[2] = <<"copy", "import_progress">>
      /\ Rebuild[3] = <<"drop", "import_progress">>
      /\ Rebuild[4] = <<"rename", Copy>> /\ Len(Rebuild) = 4
  BY DEF Rebuild, Copy
<1>5. x \in Seq(S) /\ Len(x) = 1
  BY <1>1, <1>2, ListOf, SeqOf
<1>6. y \in Seq(S) /\ Len(y) = 4
  BY <1>1, <1>2, ListOf, SeqOf
<1>7. Rebuild \in Seq(S)
  BY DEF Rebuild
<1>8. /\ Place(c1) = <<6, 2>> /\ Place(c2) = <<6, 3>> /\ Place(c3) = <<6, 4>>
      /\ Place(c4) = <<6, 5>> /\ c1 = FirstColumn
      /\ r # Copy /\ c1 # Copy /\ c2 # Copy /\ c3 # Copy /\ c4 # Copy
  BY DEF Place, FirstColumn, Copy
<1>9. MultiRepository = x \o y \o Rebuild
  BY DEF MultiRepository
<1> HIDE DEF x, y, S, r, c1, c2, c3, c4
<1>10. /\ DOMAIN MultiRepository = 1..9 /\ Len(MultiRepository) = 9
       /\ MultiRepository[1] = <<"create", r>>
       /\ MultiRepository[2] = <<"add", c1>>
       /\ MultiRepository[3] = <<"add", c2>>
       /\ MultiRepository[4] = <<"add", c3>>
       /\ MultiRepository[5] = <<"add", c4>>
       /\ MultiRepository[6] = <<"create", Copy>>
       /\ MultiRepository[7] = <<"copy", "import_progress">>
       /\ MultiRepository[8] = <<"drop", "import_progress">>
       /\ MultiRepository[9] = <<"rename", Copy>>
  <2> DEFINE z == Rebuild
             all == x \o y \o z
  <2>1. x \in Seq(S) /\ y \in Seq(S) /\ z \in Seq(S) /\ Len(x) = 1 /\ Len(y) = 4 /\ Len(z) = 4
    BY <1>4, <1>5, <1>6, <1>7
  <2>2. /\ DOMAIN all = 1..9 /\ Len(all) = 9
        /\ all[1] = x[1] /\ all[2] = y[1] /\ all[3] = y[2] /\ all[4] = y[3]
        /\ all[5] = y[4] /\ all[6] = z[1] /\ all[7] = z[2] /\ all[8] = z[3]
        /\ all[9] = z[4]
    BY ONLY <2>1, ThreeParts
  <2>3. MultiRepository = all
    BY <1>9
  <2> HIDE DEF all
  <2> QED BY <1>1, <1>4, <2>2, <2>3
<1> DEFINE m == MultiRepository
<1>11. /\ m[1][2] = r /\ m[2][2] = c1 /\ m[3][2] = c2 /\ m[4][2] = c3 /\ m[5][2] = c4
       /\ m[3][1] = "add" /\ m[4][1] = "add" /\ m[5][1] = "add"
  <2> HIDE DEF m
  <2>1. /\ m[1] = <<"create", r>> /\ m[2] = <<"add", c1>>
        /\ m[3] = <<"add", c2>> /\ m[4] = <<"add", c3>>
        /\ m[5] = <<"add", c4>>
    BY <1>10 DEF m
  <2>2. m[1][2] = r
    BY ONLY <2>1
  <2>3. m[2][2] = c1
    BY ONLY <2>1
  <2>4. m[3][1] = "add" /\ m[3][2] = c2
    BY ONLY <2>1
  <2>5. m[4][1] = "add" /\ m[4][2] = c3
    BY ONLY <2>1
  <2>6. m[5][1] = "add" /\ m[5][2] = c4
    BY ONLY <2>1
  <2> QED BY <2>2, <2>3, <2>4, <2>5, <2>6
<1>12. \A j \in 3..5 : m[j][1] = "add" /\ Place(m[j][2]) = <<6, j>>
  <2> SUFFICES ASSUME NEW j \in 3..5 PROVE m[j][1] = "add" /\ Place(m[j][2]) = <<6, j>>
    OBVIOUS
  <2>1. j = 3 \/ j = 4 \/ j = 5
    OBVIOUS
  <2> HIDE DEF m
  <2> QED BY <1>8, <1>11, <2>1
<1>13. \A j \in 1..5 : m[j][2] # Copy
  <2> SUFFICES ASSUME NEW j \in 1..5 PROVE m[j][2] # Copy
    OBVIOUS
  <2>1. j = 1 \/ j = 2 \/ j = 3 \/ j = 4 \/ j = 5
    OBVIOUS
  <2> HIDE DEF m
  <2> QED BY <1>8, <1>11, <2>1
<1> QED BY <1>8, <1>10, <1>12, <1>13 DEF r

\* What the proofs need of the statements: only the last three of migration 6
\* do anything but create tables and add columns.
StatementOK(u, j, s) ==
    /\ s[1] \in {"create", "add"} \/ (u = 6 /\ j \in 7..9)
    /\ s[1] = "add" => Place(s[2]) = <<u, j>>
    /\ s[1] = "create" => Place(s[2]) = <<0, 0>>
    /\ s[1] \in {"create", "add"} /\ s[2] = Copy => u = 6 /\ j = 6

LEMMA PlainIsOK ==
    ASSUME NEW u, NEW j, NEW s, Plain(u, j, s), s[2] # Copy
    PROVE  StatementOK(u, j, s)
  BY DEF Plain, StatementOK

LEMMA MultiRepositoryIsOK ==
    \A j \in 1..9 : StatementOK(6, j, MultiRepository[j])
<1> DEFINE m == MultiRepository
<1>1. /\ m[1] = <<"create", "repositories">> /\ m[2] = <<"add", FirstColumn>>
      /\ \A j \in 3..5 : m[j][1] = "add" /\ Place(m[j][2]) = <<6, j>>
      /\ \A j \in 1..5 : m[j][2] # Copy
      /\ m[6] = <<"create", Copy>> /\ m[7] = <<"copy", "import_progress">>
      /\ m[8] = <<"drop", "import_progress">> /\ m[9] = <<"rename", Copy>>
  BY MultiRepositoryFacts
<1>2. /\ Place("repositories") = <<0, 0>> /\ Place(FirstColumn) = <<6, 2>>
      /\ Place(Copy) = <<0, 0>>
  BY DEF Place, FirstColumn, Copy
<1> HIDE DEF m
<1>3. StatementOK(6, 1, m[1]) /\ StatementOK(6, 2, m[2])
  <2>1. m[1][2] # Copy /\ m[2][2] # Copy
    BY <1>1
  <2> QED BY <1>1, <1>2, <2>1 DEF StatementOK
<1>4. \A j \in 3..5 : StatementOK(6, j, m[j])
  BY <1>1 DEF StatementOK
<1>5. StatementOK(6, 6, m[6])
  BY <1>1, <1>2 DEF StatementOK
<1>6. StatementOK(6, 7, m[7]) /\ StatementOK(6, 8, m[8]) /\ StatementOK(6, 9, m[9])
  BY <1>1 DEF StatementOK
<1> SUFFICES ASSUME NEW j \in 1..9 PROVE StatementOK(6, j, m[j])
  BY DEF m
<1>7. j = 1 \/ j = 2 \/ j \in 3..5 \/ j = 6 \/ j = 7 \/ j = 8 \/ j = 9
  OBVIOUS
<1> QED BY <1>3, <1>4, <1>5, <1>6, <1>7

LEMMA StatementFacts ==
    \A u \in 1..10 :
        /\ Len(Migrations[u]) \in Nat \ {0}
        /\ DOMAIN Migrations[u] = 1..Len(Migrations[u])
        /\ \A j \in 1..Len(Migrations[u]) : StatementOK(u, j, Migrations[u][j])
<1> DEFINE OK(u, list) == /\ Len(list) \in Nat \ {0} /\ DOMAIN list = 1..Len(list)
                          /\ \A j \in 1..Len(list) : StatementOK(u, j, list[j])
<1>1. OK(1, InitialSchema)
  BY InitialSchemaFacts, PlainIsOK
<1>2. OK(2, PrSyncLog)
  BY PrSyncLogFacts, PlainIsOK
<1>3. OK(3, AuditSuccess)
  BY AuditSuccessFacts, PlainIsOK
<1>4. OK(4, ImportProgress)
  BY ImportProgressFacts, PlainIsOK
<1>5. OK(5, MultiUser)
  BY MultiUserFacts, PlainIsOK
<1>6. OK(6, MultiRepository)
  BY MultiRepositoryFacts, MultiRepositoryIsOK
<1>7. OK(7, RepositoryWatermarks)
  BY RepositoryWatermarksFacts, PlainIsOK
<1>8. OK(8, ParentId)
  BY ParentIdFacts, PlainIsOK
<1>9. OK(9, EncryptedSecrets)
  BY EncryptedSecretsFacts, PlainIsOK
<1>10. OK(10, ResolvedContent)
  BY ResolvedContentFacts, PlainIsOK
<1> HIDE DEF OK
<1>11. \A u \in 1..10 : OK(u, Migrations[u])
  <2> SUFFICES ASSUME NEW u \in 1..10 PROVE OK(u, Migrations[u])
    OBVIOUS
  <2>1. \/ u = 1 \/ u = 2 \/ u = 3 \/ u = 4 \/ u = 5 \/ u = 6 \/ u = 7 \/ u = 8
        \/ u = 9 \/ u = 10
    OBVIOUS
  <2> QED BY <1>1, <1>2, <1>3, <1>4, <1>5, <1>6, <1>7, <1>8, <1>9, <1>10, <2>1,
             TenMigrations
<1> QED BY <1>11 DEF OK

\* The statements of the rebuild, and the migration that made the table.
LEMMA RebuildFacts ==
    /\ Migrations[6][2] = <<"add", FirstColumn>>
    /\ Migrations[6][6] = <<"create", Copy>>
    /\ Migrations[6][7] = <<"copy", "import_progress">>
    /\ Migrations[6][8] = <<"drop", "import_progress">>
    /\ Migrations[6][9] = <<"rename", Copy>>
    /\ Len(Migrations[6]) = 9
  BY MultiRepositoryFacts, TenMigrations

LEMMA RebuiltTable ==
    Len(Migrations[4]) = 1 /\ Migrations[4][1] = <<"create", "import_progress">>
<1> DEFINE names == <<"import_progress">>
<1>1. ImportProgress = [i \in DOMAIN names |-> <<"create", names[i]>>]
  BY DEF ImportProgress, Tables
<1>2. 1 \in DOMAIN names /\ names[1] = "import_progress"
  OBVIOUS
<1> HIDE DEF names
<1> QED BY <1>1, <1>2, ImportProgressFacts, TenMigrations

LEMMA NextVersion ==
    ASSUME NEW c \in 0..10
    PROVE  FirstPending(c) = c + 1
<1> DEFINE P(v) == /\ v <= 10 => v > c
                   /\ \A u \in 1..(v - 1) : ~(u > c)
<1>1. FirstPending(c) = CHOOSE v \in 1..11 : P(v)
  BY TenMigrations DEF FirstPending, Pending
<1>2. c + 1 \in 1..11 /\ P(c + 1)
  OBVIOUS
<1>3. \A v \in 1..11 : P(v) => v = c + 1
  OBVIOUS
<1> HIDE DEF P
<1> QED BY <1>1, <1>2, <1>3

LEMMA NextMigration ==
    ASSUME NEW p, opener[p].at \in 1..10, opener[p].seen \in 0..10,
           opener[p].seen < opener[p].at
    PROVE  NextPending(p) = opener[p].at + 1
<1> DEFINE a == opener[p].at
           c == opener[p].seen
           P(v) == /\ v <= 10 => v > c
                   /\ \A u \in (a + 1)..(v - 1) : ~(u > c)
<1>1. NextPending(p) = CHOOSE v \in (a + 1)..11 : P(v)
  BY TenMigrations DEF NextPending, Pending
<1> HIDE DEF a, c
<1>0. a \in 1..10 /\ c \in 0..10 /\ c < a
  BY DEF a, c
<1>2. a + 1 \in (a + 1)..11 /\ P(a + 1)
  BY <1>0
<1>3. \A v \in (a + 1)..11 : P(v) => v = a + 1
  BY <1>0
<1> HIDE DEF P
<1>4. NextPending(p) = a + 1
  BY <1>1, <1>2, <1>3
<1> QED BY <1>4 DEF a

-----------------------------------------------------------------------------
(* The inductive invariant of the migrations.                              *)

Moments == [pc : {"closed", "ready", "failed", "migrate"}, seen : 0..10,
            at : 1..11, statement : Nat \ {0}]

Migrates(p) == opener[p].pc = "migrate"

SchemaTypeOK ==
    /\ version \in 0..10
    /\ opener \in [Openers -> Moments]
    /\ raced \in BOOLEAN
    /\ opens \in Nat /\ cuts \in Nat

\* A process has further migrations to run, and a place in the present one.
AtAPlace ==
    \A p \in Openers : Migrates(p) =>
        /\ opener[p].at \in 1..10
        /\ opener[p].seen < opener[p].at
        /\ opener[p].statement <= Len(Migrations[opener[p].at]) + 1

Present(S, x) == x \in S \/ (x = "import_progress" /\ Copy \in S)

\* Statement i of migration v makes x.
Makes(v, i, x) ==
    /\ v \in 1..10 /\ i \in 1..Len(Migrations[v])
    /\ Migrations[v][i][1] \in {"create", "add"} /\ Migrations[v][i][2] = x

\* What the statements before statement j of migration u make is there.
Applied(S, u, j) ==
    \A v \in 1..10, i \in Nat : v < u \/ (v = u /\ i < j) =>
        \A x : Makes(v, i, x) /\ x # Copy => Present(S, x)

AppliedOK ==
    /\ Applied(objects, version + 1, 1)
    /\ \A p \in Openers : Migrates(p) =>
           Applied(objects, opener[p].at, opener[p].statement)

\* Past the first column of migration 6.
Rebuilds(p) == Migrates(p) /\ opener[p].at = 6 /\ opener[p].statement > 2

RebuildOK ==
    /\ Copy \in objects => FirstColumn \in objects
    /\ Copy \in progress => Copy \in objects
    /\ \A p, q \in Openers : Rebuilds(p) /\ Rebuilds(q) => p = q
    /\ \A p \in Openers : Rebuilds(p) =>
           /\ FirstColumn \in objects
           /\ opener[p].statement \in 7..9 => Copy \in objects
           /\ opener[p].statement \in 3..8 => "import_progress" \in objects
           /\ opener[p].statement \in 3..7 => Copy \notin progress

\* Without a race one process migrates, and it applies what is missing first.
AloneOK ==
    ~raced =>
        /\ \A p, q \in Openers : Migrates(p) /\ Migrates(q) => p = q
        /\ \A p \in Openers : Migrates(p) =>
               /\ opener[p].at = version + 1
               /\ opener[p].at = 6 /\ opener[p].statement = 9
                      => "import_progress" \notin objects

\* No column is there that statement j of migration u, or one after it, adds.
Fresh(S, u, j) ==
    \A x \in S :
        \/ Place(x)[1] < u
        \/ Place(x)[1] = u /\ Place(x)[2] < j

FreshOK ==
    ~raced /\ cuts = 0 =>
        /\ \A p \in Openers : Migrates(p) => Fresh(objects, opener[p].at, opener[p].statement)
        /\ (\A p \in Openers : ~Migrates(p)) => Fresh(objects, version + 1, 1)

SchemaInv == SchemaTypeOK /\ AtAPlace /\ AppliedOK /\ RebuildOK /\ AloneOK /\ FreshOK

LEMMA Places ==
    \A x : /\ Place(x) = <<Place(x)[1], Place(x)[2]>>
           /\ Place(x)[1] \in 0..10 /\ Place(x)[2] \in 0..6
  BY DEF Place

LEMMA TwoNames ==
    /\ Copy # "import_progress" /\ FirstColumn # Copy
    /\ FirstColumn # "import_progress"
    /\ Place(Copy) = <<0, 0>> /\ Place("import_progress") = <<0, 0>>
    /\ Place(FirstColumn) = <<6, 2>>
  BY DEF Copy, FirstColumn, Place

LEMMA MadeFacts ==
    ASSUME NEW u \in 0..10, NEW x \in MadeBy(u)
    PROVE  x # Copy /\ \E v \in 1..u : \E i \in Nat : Makes(v, i, x)
<1>1. PICK v \in 1..u : x \in Made(v)
  BY DEF MadeBy
<1>2. v \in 1..10 /\ v <= u
  OBVIOUS
<1>3. PICK i \in DOMAIN Migrations[v] :
          /\ Migrations[v][i][1] \in {"create", "add"}
          /\ x = Migrations[v][i][2] /\ x # "import_progress_new"
  BY <1>1 DEF Made
<1>4. i \in 1..Len(Migrations[v])
  BY <1>2, StatementFacts
<1>5. Makes(v, i, x) /\ i \in Nat
  BY <1>2, <1>3, <1>4 DEF Makes
<1> QED BY <1>3, <1>5 DEF Copy

LEMMA SchemaInitOK == SchemaInit => SchemaInv
<1> SUFFICES ASSUME SchemaInit PROVE SchemaInv
  OBVIOUS
<1>1. /\ version \in 0..10 /\ objects = MadeBy(version)
      /\ progress \subseteq {"import_progress"}
      /\ opener = [p \in Openers |-> Closed]
      /\ raced = FALSE /\ opens = 0 /\ cuts = 0
  BY TenMigrations DEF SchemaInit
<1>2. SchemaTypeOK
  <2>1. Closed \in Moments
    BY DEF Moments, Closed
  <2> QED BY <1>1, <2>1 DEF SchemaTypeOK
<1>3. \A p \in Openers : ~Migrates(p)
  BY <1>1 DEF Migrates, Closed
<1>4. Copy \notin objects /\ Copy \notin progress
  BY <1>1, MadeFacts, TwoNames
<1>5. Applied(objects, version + 1, 1)
  <2> SUFFICES ASSUME NEW v \in 1..10, NEW i \in Nat,
                      v < version + 1 \/ (v = version + 1 /\ i < 1),
                      NEW x, Makes(v, i, x), x # Copy
               PROVE  x \in objects
    BY DEF Applied, Present
  <2>1. v \in 1..version
    BY <1>1 DEF Makes
  <2>2. i \in DOMAIN Migrations[v]
    BY StatementFacts DEF Makes
  <2>3. x \in Made(v)
    BY <2>2 DEF Made, Makes, Copy
  <2> QED BY <1>1, <2>1, <2>3 DEF MadeBy
<1>6. Fresh(objects, version + 1, 1)
  <2> SUFFICES ASSUME NEW x \in objects PROVE Place(x)[1] < version + 1
    BY DEF Fresh
  <2>0. x \in MadeBy(version) /\ version \in 0..10
    BY <1>1
  <2>1. PICK v \in 1..version, i \in Nat : Makes(v, i, x)
    BY ONLY <2>0, MadeFacts
  <2>2. Place(x) = <<v, i>> \/ Place(x) = <<0, 0>>
    BY <2>1, StatementFacts DEF StatementOK, Makes
  <2>3. Place(x)[1] = v \/ Place(x)[1] = 0
    BY <2>2
  <2> QED BY <1>1, <2>1, <2>3
<1>7. AtAPlace /\ AppliedOK
  BY <1>3, <1>5 DEF AtAPlace, AppliedOK
<1>8. RebuildOK
  BY <1>3, <1>4 DEF RebuildOK, Rebuilds
<1>9. AloneOK /\ FreshOK
  BY <1>3, <1>6 DEF AloneOK, FreshOK
<1> QED BY <1>2, <1>7, <1>8, <1>9 DEF SchemaInv

-----------------------------------------------------------------------------
(* What the statements do.                                                 *)

LEMMA RenamedFacts ==
    ASSUME NEW S
    PROVE  /\ Copy \notin Renamed(S)
           /\ "import_progress" \in S \/ Copy \in S => "import_progress" \in Renamed(S)
           /\ \A x \in S : x # Copy => x \in Renamed(S)
           /\ \A x \in Renamed(S) : x \in S \/ x = "import_progress"
  BY TwoNames DEF Renamed, Copy

Performs(u, j, s) ==
    \/ /\ s[1] \in {"create", "add"} /\ (s[1] = "add" => s[2] \notin objects)
       /\ objects' = objects \cup {s[2]} /\ progress' = progress
    \/ /\ u = 6 /\ j = 7
       /\ objects' = objects /\ progress' \subseteq progress \cup {Copy}
    \/ /\ u = 6 /\ j = 8
       /\ objects' = objects \ {"import_progress"}
       /\ progress' = progress \ {"import_progress"}
    \/ /\ u = 6 /\ j = 9 /\ Copy \in objects /\ "import_progress" \notin objects
       /\ objects' = Renamed(objects) /\ progress' = Renamed(progress)

\* What a process is at, when it migrates.
LEMMA PlaceFacts ==
    ASSUME SchemaInv, NEW p \in Openers, Migrates(p), ~BatchDone(p)
    PROVE  LET u == opener[p].at
               j == opener[p].statement IN
           /\ u \in 1..10 /\ j \in 1..Len(Migrations[u]) /\ j \in Nat \ {0}
           /\ StatementOK(u, j, Migrations[u][j])
<1>1. opener[p] \in Moments
  BY DEF SchemaInv, SchemaTypeOK
<1>2. opener[p].at \in 1..10 /\ opener[p].statement \in Nat \ {0}
  BY <1>1 DEF Moments, SchemaInv, AtAPlace
<1>3. Len(Migrations[opener[p].at]) \in Nat
  BY <1>2, StatementFacts
<1>4. opener[p].statement <= Len(Migrations[opener[p].at])
  BY <1>2, <1>3 DEF BatchDone
<1>5. opener[p].statement \in 1..Len(Migrations[opener[p].at])
  BY <1>2, <1>3, <1>4
<1> QED BY <1>2, <1>5, StatementFacts

LEMMA ExecuteFacts ==
    ASSUME SchemaInv, NEW p \in Openers, ExecuteStatement(p)
    PROVE  LET u == opener[p].at
               j == opener[p].statement IN
           /\ Migrates(p) /\ ~BatchDone(p)
           /\ opener' \in [Openers -> Moments]
           /\ opener'[p] = [opener[p] EXCEPT !.statement = j + 1]
           /\ \A q \in Openers : q # p => opener'[q] = opener[q]
           /\ version' = version /\ raced' = raced /\ opens' = opens /\ cuts' = cuts
           /\ Performs(u, j, Migrations[u][j])
<1> DEFINE u == opener[p].at
           j == opener[p].statement
           s == Migrations[u][j]
<1>1. /\ Migrates(p) /\ ~BatchDone(p) /\ ~Refused(s) /\ Performed(s)
      /\ opener' = [opener EXCEPT ![p].statement = @ + 1]
      /\ version' = version /\ raced' = raced /\ opens' = opens /\ cuts' = cuts
  BY DEF ExecuteStatement, Migrates, Statement
<1>2. opener \in [Openers -> Moments] /\ j \in Nat
  BY DEF SchemaInv, SchemaTypeOK, Moments
<1>3. /\ opener'[p] = [opener[p] EXCEPT !.statement = j + 1]
      /\ \A q \in Openers : q # p => opener'[q] = opener[q]
      /\ opener' \in [Openers -> Moments]
  BY <1>1, <1>2 DEF Moments
<1>4. /\ u \in 1..10 /\ j \in 1..Len(Migrations[u]) /\ StatementOK(u, j, s)
  BY <1>1, PlaceFacts
<1>5. Performs(u, j, s)
  <2> HIDE DEF u, j
  <2>1. CASE s[1] \in {"create", "add"}
    <3>1. s[1] = "add" => s[2] \notin objects
      BY <1>1 DEF Refused
    <3>2. objects' = objects \cup {s[2]} /\ progress' = progress
      BY <1>1, <2>1 DEF Performed
    <3> QED BY <2>1, <3>1, <3>2 DEF Performs
  <2>2. CASE s[1] \notin {"create", "add"}
    <3>1. u = 6 /\ (j = 7 \/ j = 8 \/ j = 9)
      BY <1>4, <2>2 DEF StatementOK
    <3>2. CASE j = 7
      <4>1. s = <<"copy", "import_progress">>
        BY <3>1, <3>2, RebuildFacts
      <4> HIDE DEF s
      <4>2. objects' = objects /\ progress' \subseteq progress \cup {Copy}
        BY <1>1, <4>1 DEF Performed, Copy
      <4> QED BY <3>1, <3>2, <4>2 DEF Performs
    <3>3. CASE j = 8
      <4>1. s = <<"drop", "import_progress">>
        BY <3>1, <3>3, RebuildFacts
      <4> HIDE DEF s
      <4>2. /\ objects' = objects \ {"import_progress"}
            /\ progress' = progress \ {"import_progress"}
        BY <1>1, <4>1 DEF Performed
      <4> QED BY <3>1, <3>3, <4>2 DEF Performs
    <3>4. CASE j = 9
      <4>1. s = <<"rename", Copy>>
        BY <3>1, <3>4, RebuildFacts
      <4> HIDE DEF s
      <4>2. objects' = Renamed(objects) /\ progress' = Renamed(progress)
        BY <1>1, <4>1 DEF Performed
      <4>3. Copy \in objects /\ "import_progress" \notin objects
        BY <1>1, <4>1 DEF Refused
      <4> QED BY <3>1, <3>4, <4>2, <4>3 DEF Performs
    <3> QED BY <3>1, <3>2, <3>3, <3>4
  <2> QED BY <2>1, <2>2
<1> QED BY <1>1, <1>3, <1>5

\* What is there stays there, the table being rebuilt under one of its names.
LEMMA PresentStays ==
    ASSUME SchemaInv, NEW p \in Openers, ExecuteStatement(p),
           NEW x, x # Copy, Present(objects, x)
    PROVE  Present(objects', x)
<1> DEFINE u == opener[p].at
           j == opener[p].statement
           s == Migrations[u][j]
<1>1. Performs(u, j, s) /\ Migrates(p)
  BY ExecuteFacts
<1>2. u = 6 /\ j = 8 => Copy \in objects
  BY <1>1 DEF SchemaInv, RebuildOK, Rebuilds
<1> HIDE DEF u, j, s
<1>3. CASE s[1] \in {"create", "add"} /\ objects' = objects \cup {s[2]}
  BY <1>3 DEF Present
<1>4. CASE objects' = objects
  BY <1>4
<1>5. CASE u = 6 /\ j = 8 /\ objects' = objects \ {"import_progress"}
  BY <1>2, <1>5, TwoNames DEF Present
<1>6. CASE objects' = Renamed(objects)
  BY <1>6, RenamedFacts DEF Present
<1> QED BY <1>1, <1>3, <1>4, <1>5, <1>6 DEF Performs

LEMMA AppliedStays ==
    ASSUME SchemaInv, NEW p \in Openers, ExecuteStatement(p),
           NEW u, NEW j, Applied(objects, u, j)
    PROVE  Applied(objects', u, j)
  BY PresentStays DEF Applied

-----------------------------------------------------------------------------
(* A statement keeps the invariant.                                        *)

\* Who migrates, and who is in the rebuild, after the statement.
LEMMA ExecutePlaces ==
    ASSUME SchemaInv, NEW p \in Openers, ExecuteStatement(p)
    PROVE  /\ opener'[p].pc = "migrate" /\ opener'[p].at = opener[p].at
           /\ opener'[p].seen = opener[p].seen
           /\ opener'[p].statement = opener[p].statement + 1
           /\ \A q \in Openers : Migrates(q)' <=> Migrates(q)
           /\ \A q \in Openers : q # p => (Rebuilds(q)' <=> Rebuilds(q))
           /\ Rebuilds(p)' <=> (opener[p].at = 6 /\ opener[p].statement > 1)
<1>1. /\ Migrates(p) /\ opener[p] \in Moments
      /\ opener'[p] = [opener[p] EXCEPT !.statement = opener[p].statement + 1]
      /\ \A q \in Openers : q # p => opener'[q] = opener[q]
  BY ExecuteFacts DEF SchemaInv, SchemaTypeOK
<1>2. /\ opener'[p].pc = "migrate" /\ opener'[p].at = opener[p].at
      /\ opener'[p].seen = opener[p].seen
      /\ opener'[p].statement = opener[p].statement + 1
      /\ opener[p].statement \in Nat
  BY <1>1 DEF Moments, Migrates
<1>3. \A q \in Openers : Migrates(q)' <=> Migrates(q)
  BY <1>1, <1>2 DEF Migrates
<1>4. \A q \in Openers : q # p => (Rebuilds(q)' <=> Rebuilds(q))
  BY <1>1, <1>3 DEF Rebuilds
<1>5. Rebuilds(p)' <=> (opener[p].at = 6 /\ opener[p].statement > 1)
  BY <1>1, <1>2, <1>3 DEF Rebuilds
<1> QED BY <1>2, <1>3, <1>4, <1>5

\* Only the rebuild does anything but add to the schema.
LEMMA OnlyAdds ==
    ASSUME SchemaInv, NEW p \in Openers, ExecuteStatement(p),
           ~(opener[p].at = 6 /\ opener[p].statement \in 7..9)
    PROVE  LET s == Statement(p) IN
           /\ s[1] \in {"create", "add"} /\ (s[1] = "add" => s[2] \notin objects)
           /\ objects' = objects \cup {s[2]} /\ progress' = progress
<1> DEFINE u == opener[p].at
           j == opener[p].statement
           s == Migrations[u][j]
<1>1. Performs(u, j, s) /\ s = Statement(p)
  BY ExecuteFacts DEF Statement
<1>2. ~(u = 6 /\ (j = 7 \/ j = 8 \/ j = 9))
  OBVIOUS
<1> HIDE DEF u, j, s
<1>3. /\ s[1] \in {"create", "add"} /\ (s[1] = "add" => s[2] \notin objects)
      /\ objects' = objects \cup {s[2]} /\ progress' = progress
  BY <1>1, <1>2 DEF Performs
<1> QED BY <1>1, <1>3

LEMMA RebuildSteps ==
    ASSUME SchemaInv, NEW p \in Openers, ExecuteStatement(p), opener[p].at = 6
    PROVE  LET j == opener[p].statement IN
           /\ j = 7 => objects' = objects /\ progress' \subseteq progress \cup {Copy}
           /\ j = 8 => /\ objects' = objects \ {"import_progress"}
                       /\ progress' = progress \ {"import_progress"}
           /\ j = 9 => /\ objects' = Renamed(objects)
                       /\ progress' = Renamed(progress)
<1> DEFINE j == opener[p].statement
           s == Migrations[6][j]
<1>1. Performs(6, j, Migrations[6][j])
  BY ExecuteFacts
<1>2. /\ Migrations[6][7] = <<"copy", "import_progress">>
      /\ Migrations[6][8] = <<"drop", "import_progress">>
      /\ Migrations[6][9] = <<"rename", Copy>>
  BY RebuildFacts
<1> HIDE DEF j
<1>3. CASE j = 7
  <2>1. s[1] = "copy"
    BY <1>2, <1>3
  <2>2. s[1] \notin {"create", "add"}
    BY <2>1
  <2> HIDE DEF s
  <2>3. Performs(6, j, s)
    BY <1>1 DEF s
  <2> QED BY ONLY <1>3, <2>2, <2>3 DEF Performs, j
<1>4. CASE j = 8
  <2>1. s[1] = "drop"
    BY <1>2, <1>4
  <2>2. s[1] \notin {"create", "add"}
    BY <2>1
  <2> HIDE DEF s
  <2>3. Performs(6, j, s)
    BY <1>1 DEF s
  <2> QED BY ONLY <1>4, <2>2, <2>3 DEF Performs, j
<1>5. CASE j = 9
  <2>1. s[1] = "rename"
    BY <1>2, <1>5
  <2>2. s[1] \notin {"create", "add"}
    BY <2>1
  <2> HIDE DEF s
  <2>3. Performs(6, j, s)
    BY <1>1 DEF s
  <2> QED BY ONLY <1>5, <2>2, <2>3 DEF Performs, j
<1> QED BY <1>3, <1>4, <1>5 DEF j

LEMMA ExecuteKeepsTypes ==
    ASSUME SchemaInv, NEW p \in Openers, ExecuteStatement(p)
    PROVE  SchemaTypeOK' /\ AtAPlace'
<1>1. SchemaTypeOK'
  <2>1. /\ opener' \in [Openers -> Moments]
        /\ version' = version /\ raced' = raced /\ opens' = opens /\ cuts' = cuts
    BY ExecuteFacts
  <2> QED BY <2>1 DEF SchemaInv, SchemaTypeOK
<1>2. AtAPlace'
  <2> SUFFICES ASSUME NEW q \in Openers, Migrates(q)'
               PROVE  /\ opener'[q].at \in 1..10 /\ opener'[q].seen < opener'[q].at
                      /\ opener'[q].statement <= Len(Migrations[opener'[q].at]) + 1
    BY DEF AtAPlace
  <2>1. Migrates(q)
    BY ExecutePlaces
  <2>2. CASE q # p
    <3>1. opener'[q] = opener[q]
      BY <2>2, ExecuteFacts
    <3> QED BY <2>1, <3>1 DEF SchemaInv, AtAPlace
  <2>3. CASE q = p
    <3>1. /\ opener'[p].at = opener[p].at /\ opener'[p].seen = opener[p].seen
          /\ opener'[p].statement = opener[p].statement + 1
      BY ExecutePlaces
    <3>2. /\ opener[p].at \in 1..10 /\ opener[p].statement \in 1..Len(Migrations[opener[p].at])
          /\ Len(Migrations[opener[p].at]) \in Nat
      BY ExecuteFacts, PlaceFacts, StatementFacts
    <3>3. opener[p].seen < opener[p].at
      BY <2>1, <2>3 DEF SchemaInv, AtAPlace
    <3>4. opener'[p].statement <= Len(Migrations[opener[p].at]) + 1
      BY <3>1, <3>2
    <3> QED BY <2>3, <3>1, <3>2, <3>3, <3>4
  <2> QED BY <2>2, <2>3
<1> QED BY <1>1, <1>2

LEMMA ExecuteKeepsApplied ==
    ASSUME SchemaInv, NEW p \in Openers, ExecuteStatement(p)
    PROVE  AppliedOK'
<1> DEFINE u == opener[p].at
           j == opener[p].statement
<1>1. Migrates(p) /\ u \in 1..10 /\ j \in Nat /\ version' = version
  BY ExecuteFacts, PlaceFacts
<1>2. /\ \A q \in Openers : Migrates(q)' <=> Migrates(q)
      /\ opener'[p].at = u /\ opener'[p].statement = j + 1
  BY ExecutePlaces
<1>3. \A q \in Openers : q # p => opener'[q] = opener[q]
  BY ExecuteFacts
<1>5. Applied(objects', version' + 1, 1)
  BY <1>1, AppliedStays DEF SchemaInv, AppliedOK
<1>6. \A q \in Openers : Migrates(q) => Applied(objects', opener[q].at, opener[q].statement)
  BY AppliedStays DEF SchemaInv, AppliedOK
<1>7. Applied(objects', u, j + 1)
  <2> HIDE DEF u, j
  <2> SUFFICES ASSUME NEW v \in 1..10, NEW i \in Nat, v < u \/ (v = u /\ i < j + 1),
                      NEW x, Makes(v, i, x), x # Copy
               PROVE  Present(objects', x)
    BY DEF Applied
  <2>1. CASE v < u \/ (v = u /\ i < j)
    <3>1. Applied(objects', u, j)
      BY <1>1, <1>6 DEF u, j
    <3> QED BY <2>1, <3>1 DEF Applied
  <2>2. CASE v = u /\ i = j
    <3>1. x = Statement(p)[2] /\ Statement(p)[1] \in {"create", "add"}
      BY <2>2 DEF Makes, Statement, u, j
    <3>2. ~(u = 6 /\ j \in 7..9)
      <4>1. \/ Statement(p)[1] = "create"
            \/ Statement(p)[1] = "add"
        BY <3>1
      <4>2. /\ Migrations[6][7] = <<"copy", "import_progress">>
            /\ Migrations[6][8] = <<"drop", "import_progress">>
            /\ Migrations[6][9] = <<"rename", Copy>>
        BY RebuildFacts
      <4>3. Statement(p) = Migrations[u][j]
        BY DEF Statement, u, j
      <4>4. u = 6 /\ j = 7 => Statement(p)[1] = "copy"
        BY <4>2, <4>3
      <4>5. u = 6 /\ j = 8 => Statement(p)[1] = "drop"
        BY <4>2, <4>3
      <4>6. u = 6 /\ j = 9 => Statement(p)[1] = "rename"
        BY <4>2, <4>3
      <4>7. j \in 7..9 => j = 7 \/ j = 8 \/ j = 9
        BY <1>1
      <4> QED BY <4>1, <4>4, <4>5, <4>6, <4>7
    <3>3. objects' = objects \cup {Statement(p)[2]}
      BY <3>2, OnlyAdds DEF u, j
    <3> QED BY <3>1, <3>3 DEF Present
  <2>3. i < j + 1 => i < j \/ i = j
    BY <1>1
  <2> QED BY <2>1, <2>2, <2>3
<1>8. \A q \in Openers : Migrates(q)' => Applied(objects', opener'[q].at, opener'[q].statement)
  BY <1>2, <1>3, <1>6, <1>7
<1> QED BY <1>5, <1>8 DEF AppliedOK

\* The step of migration 6 that only one process can ever get past.
LEMMA FirstColumnFacts ==
    ASSUME SchemaInv, NEW p \in Openers, ExecuteStatement(p),
           opener[p].at = 6, opener[p].statement = 2
    PROVE  /\ FirstColumn \notin objects /\ Copy \notin objects /\ Copy \notin progress
           /\ \A q \in Openers : ~Rebuilds(q)
           /\ objects' = objects \cup {FirstColumn} /\ progress' = progress
           /\ "import_progress" \in objects
<1>1. Statement(p) = <<"add", FirstColumn>>
  BY RebuildFacts DEF Statement
<1>2. ~(opener[p].at = 6 /\ opener[p].statement \in 7..9)
  OBVIOUS
<1>3. /\ FirstColumn \notin objects
      /\ objects' = objects \cup {FirstColumn} /\ progress' = progress
  <2> DEFINE s == Statement(p)
  <2>1. s[1] = "add" /\ s[2] = FirstColumn
    BY <1>1
  <2>2. /\ s[1] = "add" => s[2] \notin objects
        /\ objects' = objects \cup {s[2]} /\ progress' = progress
    BY <1>2, OnlyAdds
  <2> HIDE DEF s
  <2> QED BY <2>1, <2>2
<1>4. Copy \notin objects /\ Copy \notin progress /\ \A q \in Openers : ~Rebuilds(q)
  BY <1>3 DEF SchemaInv, RebuildOK
<1>5. "import_progress" \in objects
  <2>1. Applied(objects, 6, 2)
    <3>1. Migrates(p)
      BY ExecuteFacts
    <3> QED BY <3>1 DEF SchemaInv, AppliedOK
  <2>2. Makes(4, 1, "import_progress")
    <3>1. Migrations[4][1][1] = "create" /\ Migrations[4][1][2] = "import_progress"
      BY RebuiltTable
    <3>2. 1 \in 1..Len(Migrations[4])
      BY RebuiltTable
    <3> QED BY <3>1, <3>2 DEF Makes
  <2>3. \A v \in 1..10, i \in Nat : v < 6 \/ (v = 6 /\ i < 2) =>
            \A x : Makes(v, i, x) /\ x # Copy => Present(objects, x)
    BY <2>1 DEF Applied
  <2>4. Present(objects, "import_progress")
    <3>1. PICK v \in 1..10, i \in Nat : v = 4 /\ i = 1
      OBVIOUS
    <3> QED BY <2>2, <2>3, <3>1, TwoNames
  <2> QED BY <1>4, <2>4 DEF Present
<1> QED BY <1>3, <1>4, <1>5

\* The table the rebuild makes.
LEMMA CopyFacts ==
    ASSUME SchemaInv, NEW p \in Openers, ExecuteStatement(p),
           opener[p].at = 6, opener[p].statement = 6
    PROVE  objects' = objects \cup {Copy} /\ progress' = progress
<1>1. Statement(p) = <<"create", Copy>>
  BY RebuildFacts DEF Statement
<1>2. ~(opener[p].at = 6 /\ opener[p].statement \in 7..9)
  OBVIOUS
<1> DEFINE s == Statement(p)
<1>3. s[2] = Copy
  BY <1>1
<1>4. objects' = objects \cup {s[2]} /\ progress' = progress
  BY <1>2, OnlyAdds
<1> HIDE DEF s
<1> QED BY <1>3, <1>4

LEMMA FirstColumnStays ==
    ASSUME SchemaInv, NEW p \in Openers, ExecuteStatement(p), FirstColumn \in objects
    PROVE  FirstColumn \in objects'
<1>1. Present(objects, FirstColumn)
  BY DEF Present
<1>2. Present(objects', FirstColumn)
  BY <1>1, PresentStays, TwoNames
<1> QED BY <1>2, TwoNames DEF Present

LEMMA ExecuteKeepsCopy ==
    ASSUME SchemaInv, NEW p \in Openers, ExecuteStatement(p)
    PROVE  /\ Copy \in objects' => FirstColumn \in objects'
           /\ Copy \in progress' => Copy \in objects'
<1> DEFINE u == opener[p].at
           j == opener[p].statement
<1>0. Migrates(p) /\ j \in Nat /\ StatementOK(u, j, Migrations[u][j])
  BY ExecuteFacts, PlaceFacts
<1>1. CASE ~(u = 6 /\ j \in 7..9)
  <2> DEFINE s == Statement(p)
  <2>1. s[1] \in {"create", "add"} /\ objects' = objects \cup {s[2]} /\ progress' = progress
    BY <1>1, OnlyAdds
  <2>2. s[2] = Copy => u = 6 /\ j = 6
    <3>1. s = Migrations[u][j]
      BY DEF Statement
    <3> QED BY <1>0, <2>1, <3>1 DEF StatementOK
  <2>3. s[2] = Copy => FirstColumn \in objects
    <3>1. u = 6 /\ j = 6 => Rebuilds(p)
      BY <1>0 DEF Rebuilds
    <3> HIDE DEF s
    <3> QED BY <2>2, <3>1 DEF SchemaInv, RebuildOK
  <2>4. /\ Copy \in objects => FirstColumn \in objects
        /\ Copy \in progress => Copy \in objects
    BY DEF SchemaInv, RebuildOK
  <2> HIDE DEF s
  <2> QED BY <2>1, <2>3, <2>4
<1>2. CASE u = 6 /\ j \in 7..9
  <2>1. Rebuilds(p)
    BY <1>0, <1>2 DEF Rebuilds
  <2>2. FirstColumn \in objects'
    BY <2>1, FirstColumnStays DEF SchemaInv, RebuildOK
  <2>3. Copy \in objects /\ (Copy \in progress => Copy \in objects)
    BY <1>2, <2>1 DEF SchemaInv, RebuildOK
  <2>4. CASE j = 7
    <3>1. objects' = objects
      BY <1>2, <2>4, RebuildSteps
    <3> QED BY <2>2, <2>3, <3>1
  <2>5. CASE j = 8
    <3>1. objects' = objects \ {"import_progress"}
      BY <1>2, <2>5, RebuildSteps
    <3> QED BY <2>2, <2>3, <3>1, TwoNames
  <2>6. CASE j = 9
    <3>1. progress' = Renamed(progress)
      BY <1>2, <2>6, RebuildSteps
    <3> QED BY <2>2, <3>1, RenamedFacts
  <2>7. j = 7 \/ j = 8 \/ j = 9
    BY <1>2
  <2> QED BY <2>4, <2>5, <2>6, <2>7
<1> QED BY <1>1, <1>2

LEMMA ExecuteKeepsRebuild ==
    ASSUME SchemaInv, NEW p \in Openers, ExecuteStatement(p)
    PROVE  RebuildOK'
<1> DEFINE j == opener[p].statement
<1>0. /\ Migrates(p) /\ j \in Nat
      /\ \A q \in Openers : q # p => opener'[q] = opener[q]
  BY ExecuteFacts, PlaceFacts
<1>1. /\ opener'[p].statement = j + 1
      /\ \A q \in Openers : q # p => (Rebuilds(q)' <=> Rebuilds(q))
      /\ Rebuilds(p)' <=> (opener[p].at = 6 /\ j > 1)
  BY ExecutePlaces
<1>2. Rebuilds(p) <=> (opener[p].at = 6 /\ j > 2)
  BY <1>0 DEF Rebuilds
<1>3. opener[p].at = 6 /\ j = 2 => \A q \in Openers : ~Rebuilds(q)
  BY FirstColumnFacts
<1>4. \A q, r \in Openers : Rebuilds(q)' /\ Rebuilds(r)' => q = r
  <2> SUFFICES ASSUME NEW q \in Openers, NEW r \in Openers, Rebuilds(q)', Rebuilds(r)', q # r
               PROVE FALSE
    OBVIOUS
  <2>1. \A a, b \in Openers : Rebuilds(a) /\ Rebuilds(b) => a = b
    BY DEF SchemaInv, RebuildOK
  <2>2. Rebuilds(p)' => Rebuilds(p) \/ \A a \in Openers : ~Rebuilds(a)
    BY <1>0, <1>1, <1>2, <1>3
  <2> QED BY <1>1, <2>1, <2>2
<1>5. ASSUME NEW q \in Openers, Rebuilds(q)', q # p
      PROVE  /\ FirstColumn \in objects'
             /\ opener'[q].statement \in 7..9 => Copy \in objects'
             /\ opener'[q].statement \in 3..8 => "import_progress" \in objects'
             /\ opener'[q].statement \in 3..7 => Copy \notin progress'
  <2>1. Rebuilds(q) /\ opener'[q] = opener[q]
    BY <1>0, <1>1, <1>5
  <2>2. /\ FirstColumn \in objects
        /\ opener[q].statement \in 7..9 => Copy \in objects
        /\ opener[q].statement \in 3..8 => "import_progress" \in objects
        /\ opener[q].statement \in 3..7 => Copy \notin progress
        /\ ~Rebuilds(p)
    BY <1>5, <2>1 DEF SchemaInv, RebuildOK
  <2>3. ~(opener[p].at = 6 /\ opener[p].statement \in 7..9)
    BY <1>2, <2>2
  <2>4. objects \subseteq objects' /\ progress' = progress
    BY <2>3, OnlyAdds
  <2> QED BY <2>1, <2>2, <2>4
<1>6. ASSUME Rebuilds(p)'
      PROVE  /\ FirstColumn \in objects'
             /\ j + 1 \in 7..9 => Copy \in objects'
             /\ j + 1 \in 3..8 => "import_progress" \in objects'
             /\ j + 1 \in 3..7 => Copy \notin progress'
  <2>1. opener[p].at = 6 /\ j > 1
    BY <1>1, <1>6
  <2>2. CASE j = 2
    <3>1. /\ objects' = objects \cup {FirstColumn} /\ progress' = progress
          /\ Copy \notin progress /\ "import_progress" \in objects
      BY <2>1, <2>2, FirstColumnFacts
    <3> QED BY <2>2, <3>1
  <2>3. CASE j > 2
    <3>1. /\ FirstColumn \in objects
          /\ j \in 7..9 => Copy \in objects
          /\ j \in 3..8 => "import_progress" \in objects
          /\ j \in 3..7 => Copy \notin progress
      BY <1>2, <2>1, <2>3 DEF SchemaInv, RebuildOK
    <3>2. FirstColumn \in objects'
      BY <3>1, FirstColumnStays
    <3>3. j + 1 \in 7..9 => Copy \in objects'
      <4>1. j = 6 => Copy \in objects'
        BY <2>1, CopyFacts
      <4>2. j = 7 => Copy \in objects'
        BY <2>1, <3>1, RebuildSteps
      <4>3. j = 8 => Copy \in objects'
        <5> SUFFICES ASSUME j = 8 PROVE Copy \in objects'
          OBVIOUS
        <5>1. objects' = objects \ {"import_progress"}
          BY <2>1, RebuildSteps
        <5> QED BY <3>1, <5>1, TwoNames
      <4> QED BY <1>0, <4>1, <4>2, <4>3
    <3>4. j + 1 \in 3..8 => "import_progress" \in objects'
      <4>1. j \in 3..6 => objects \subseteq objects'
        BY <2>1, OnlyAdds
      <4>2. j = 7 => objects' = objects
        BY <2>1, RebuildSteps
      <4> QED BY <1>0, <2>3, <3>1, <4>1, <4>2
    <3>5. j + 1 \in 3..7 => Copy \notin progress'
      <4>1. j \in 3..6 => progress' = progress
        BY <2>1, OnlyAdds
      <4> QED BY <1>0, <2>3, <3>1, <4>1
    <3> QED BY <3>2, <3>3, <3>4, <3>5
  <2> QED BY <1>0, <2>1, <2>2, <2>3
<1>7. \A q \in Openers : Rebuilds(q)' =>
          /\ FirstColumn \in objects'
          /\ opener'[q].statement \in 7..9 => Copy \in objects'
          /\ opener'[q].statement \in 3..8 => "import_progress" \in objects'
          /\ opener'[q].statement \in 3..7 => Copy \notin progress'
  BY <1>1, <1>5, <1>6
<1>8. /\ Copy \in objects' => FirstColumn \in objects'
      /\ Copy \in progress' => Copy \in objects'
  BY ExecuteKeepsCopy
<1> QED BY <1>4, <1>7, <1>8 DEF RebuildOK

LEMMA ExecuteKeepsAlone ==
    ASSUME SchemaInv, NEW p \in Openers, ExecuteStatement(p)
    PROVE  AloneOK'
<1> SUFFICES ASSUME ~raced'
             PROVE  /\ \A q, r \in Openers : Migrates(q)' /\ Migrates(r)' => q = r
                    /\ \A q \in Openers : Migrates(q)' =>
                           /\ opener'[q].at = version' + 1
                           /\ opener'[q].at = 6 /\ opener'[q].statement = 9
                                  => "import_progress" \notin objects'
  BY DEF AloneOK
<1>1. /\ Migrates(p) /\ version' = version /\ raced' = raced
      /\ opener[p].statement \in Nat
  BY ExecuteFacts, PlaceFacts
<1>2. /\ \A q, r \in Openers : Migrates(q) /\ Migrates(r) => q = r
      /\ opener[p].at = version + 1
  BY <1>1 DEF SchemaInv, AloneOK
<1>3. /\ \A q \in Openers : Migrates(q)' <=> Migrates(q)
      /\ opener'[p].at = opener[p].at
      /\ opener'[p].statement = opener[p].statement + 1
  BY ExecutePlaces
<1>4. opener[p].at = 6 /\ opener[p].statement = 8 => "import_progress" \notin objects'
  BY RebuildSteps
<1>5. opener'[p].at = 6 /\ opener'[p].statement = 9 => "import_progress" \notin objects'
  BY <1>1, <1>3, <1>4
<1> QED BY <1>1, <1>2, <1>3, <1>5

LEMMA ExecuteKeepsFresh ==
    ASSUME SchemaInv, NEW p \in Openers, ExecuteStatement(p)
    PROVE  FreshOK'
<1> DEFINE u == opener[p].at
           j == opener[p].statement
           s == Migrations[u][j]
<1>1. /\ Migrates(p) /\ version' = version /\ raced' = raced /\ cuts' = cuts
      /\ u \in 1..10 /\ j \in Nat \ {0} /\ StatementOK(u, j, s) /\ Performs(u, j, s)
  BY ExecuteFacts, PlaceFacts
<1>2. /\ \A q \in Openers : Migrates(q)' <=> Migrates(q)
      /\ opener'[p].at = u /\ opener'[p].statement = j + 1
  BY ExecutePlaces
<1> SUFFICES ASSUME ~raced, cuts = 0 PROVE Fresh(objects', u, j + 1)
  <2>1. ~raced => \A q \in Openers : Migrates(q) => q = p
    BY <1>1 DEF SchemaInv, AloneOK
  <2> HIDE DEF u, j
  <2> QED BY <1>1, <1>2, <2>1 DEF FreshOK
<1>3. Fresh(objects, u, j)
  BY <1>1 DEF SchemaInv, FreshOK
<1> HIDE DEF u, j, s
<1> SUFFICES ASSUME NEW x \in objects'
             PROVE  Place(x)[1] < u \/ (Place(x)[1] = u /\ Place(x)[2] < j + 1)
  BY DEF Fresh
<1>4. CASE x \in objects
  <2>1. Place(x)[1] < u \/ (Place(x)[1] = u /\ Place(x)[2] < j)
    BY <1>3, <1>4 DEF Fresh
  <2>2. Place(x)[2] \in Nat
    BY Places
  <2> QED BY <1>1, <2>1, <2>2
<1>5. CASE x = s[2] /\ s[1] \in {"create", "add"}
  <2>1. Place(x) = <<u, j>> \/ Place(x) = <<0, 0>>
    BY <1>1, <1>5 DEF StatementOK
  <2>2. (Place(x)[1] = u /\ Place(x)[2] = j) \/ Place(x)[1] = 0
    BY <2>1
  <2> QED BY <1>1, <2>2
<1>6. CASE x = "import_progress"
  <2>1. Place(x)[1] = 0
    BY <1>6, TwoNames
  <2> QED BY <1>1, <2>1
<1>7. x \in objects \/ (x = s[2] /\ s[1] \in {"create", "add"}) \/ x = "import_progress"
  BY <1>1, RenamedFacts DEF Performs
<1> QED BY <1>4, <1>5, <1>6, <1>7

-----------------------------------------------------------------------------
(* The other steps.                                                        *)

\* SQLite refuses nothing but a column that is there already, if nobody races.
LEMMA RefusedFacts ==
    ASSUME SchemaInv, NEW p \in Openers, MigrationFails(p)
    PROVE  raced \/ (cuts > 0 /\ TornFor(p))
<1> SUFFICES ASSUME ~raced PROVE cuts > 0 /\ TornFor(p)
  OBVIOUS
<1> DEFINE u == opener[p].at
           j == opener[p].statement
           s == Statement(p)
<1>1. Migrates(p) /\ ~BatchDone(p) /\ Refused(s) /\ cuts \in Nat
  BY DEF MigrationFails, Migrates, SchemaInv, SchemaTypeOK
<1>2. /\ u \in 1..10 /\ j \in Nat \ {0} /\ StatementOK(u, j, s)
  BY <1>1, PlaceFacts DEF Statement
<1>3. CASE u = 6 /\ j \in 7..9
  <2>1. Rebuilds(p)
    BY <1>1, <1>3 DEF Rebuilds
  <2>2. /\ Copy \in objects
        /\ j \in 3..8 => "import_progress" \in objects
        /\ j \in 3..7 => Copy \notin progress
        /\ j = 9 => "import_progress" \notin objects
    BY <1>1, <1>3, <2>1 DEF SchemaInv, RebuildOK, AloneOK
  <2>3. \/ j = 7 /\ s = <<"copy", "import_progress">>
        \/ j = 8 /\ s = <<"drop", "import_progress">>
        \/ j = 9 /\ s = <<"rename", Copy>>
    <3>1. j = 7 \/ j = 8 \/ j = 9
      BY <1>3
    <3> QED BY <1>3, <3>1, RebuildFacts DEF Statement
  <2> HIDE DEF s, j, u
  <2>4. CASE j = 7 /\ s = <<"copy", "import_progress">>
    <3>1. s[1] = "copy" /\ s[2] = "import_progress"
      BY <2>4
    <3>2. "import_progress" \in objects /\ Copy \notin progress
      BY <2>2, <2>4
    <3> QED BY <1>1, <2>2, <3>1, <3>2 DEF Refused, Copy
  <2>5. CASE j = 8 /\ s = <<"drop", "import_progress">>
    <3>1. s[1] = "drop" /\ s[2] = "import_progress"
      BY <2>5
    <3>2. "import_progress" \in objects
      BY <2>2, <2>5
    <3> QED BY <1>1, <3>1, <3>2 DEF Refused
  <2>6. CASE j = 9 /\ s = <<"rename", Copy>>
    <3>1. s[1] = "rename" /\ s[2] = Copy
      BY <2>6
    <3>2. "import_progress" \notin objects
      BY <2>2, <2>6
    <3> QED BY <1>1, <2>2, <3>1, <3>2 DEF Refused
  <2> QED BY <2>3, <2>4, <2>5, <2>6
<1>4. CASE ~(u = 6 /\ j \in 7..9)
  <2>1. s[1] \in {"create", "add"}
    BY <1>2, <1>4 DEF StatementOK
  <2>2. s[1] = "add" /\ s[2] \in objects
    <3> HIDE DEF s
    <3>1. s[1] = "create" \/ s[1] = "add"
      BY <2>1
    <3> QED BY <1>1, <3>1 DEF Refused
  <2>3. cuts # 0
    <3> SUFFICES ASSUME cuts = 0 PROVE FALSE
      OBVIOUS
    <3>1. Fresh(objects, u, j)
      BY <1>1 DEF SchemaInv, FreshOK
    <3>2. Place(s[2]) = <<u, j>>
      BY <1>2, <2>2 DEF StatementOK
    <3> HIDE DEF u, j, s
    <3>3. Place(s[2])[1] = u /\ Place(s[2])[2] = j
      BY <3>2
    <3>4. Place(s[2])[1] < u \/ (Place(s[2])[1] = u /\ Place(s[2])[2] < j)
      BY <2>2, <3>1 DEF Fresh
    <3> QED BY <1>2, <3>3, <3>4
  <2> QED BY <1>1, <2>2, <2>3 DEF TornFor
<1> QED BY <1>3, <1>4

\* A step after which nobody migrates who has not been there before.
LEMMA FewerMigrate ==
    ASSUME SchemaInv, SchemaTypeOK',
           \A q \in Openers : Migrates(q)' => Migrates(q) /\ opener'[q] = opener[q],
           version' = version, objects' = objects, progress' = progress, raced' = raced
    PROVE  AtAPlace' /\ AppliedOK' /\ RebuildOK' /\ AloneOK'
<1>1. AtAPlace'
  BY DEF SchemaInv, AtAPlace
<1>2. AppliedOK'
  BY DEF SchemaInv, AppliedOK
<1>3. \A q \in Openers : Rebuilds(q)' => Rebuilds(q) /\ opener'[q] = opener[q]
  BY DEF Rebuilds
<1>4. RebuildOK'
  BY <1>3 DEF SchemaInv, RebuildOK
<1>5. AloneOK'
  BY DEF SchemaInv, AloneOK
<1> QED BY <1>1, <1>2, <1>4, <1>5

LEMMA DoesFacts ==
    ASSUME SchemaInv, NEW p \in Openers, NEW pc \in {"closed", "ready", "failed"},
           Does(p, pc)
    PROVE  /\ opener' \in [Openers -> Moments]
           /\ \A q \in Openers : Migrates(q)' => Migrates(q) /\ opener'[q] = opener[q]
           /\ \A q \in Openers : q # p => opener'[q] = opener[q]
<1>1. opener \in [Openers -> Moments] /\ opener' = [opener EXCEPT ![p].pc = pc]
  BY DEF SchemaInv, SchemaTypeOK, Does
<1>2. opener' \in [Openers -> Moments] /\ opener'[p].pc = pc
  BY <1>1 DEF Moments
<1>3. \A q \in Openers : q # p => opener'[q] = opener[q]
  BY <1>1
<1>4. pc # "migrate"
  OBVIOUS
<1> QED BY <1>2, <1>3, <1>4 DEF Migrates

LEMMA FailKeepsInv ==
    ASSUME SchemaInv, NEW p \in Openers, MigrationFails(p)
    PROVE  SchemaInv'
<1>1. /\ version' = version /\ objects' = objects /\ progress' = progress
      /\ raced' = raced /\ opens' = opens /\ cuts' = cuts /\ Does(p, "failed")
  BY DEF MigrationFails
<1>2. /\ opener' \in [Openers -> Moments]
      /\ \A q \in Openers : Migrates(q)' => Migrates(q) /\ opener'[q] = opener[q]
  BY <1>1, DoesFacts
<1>3. SchemaTypeOK'
  BY <1>1, <1>2 DEF SchemaInv, SchemaTypeOK
<1>4. AtAPlace' /\ AppliedOK' /\ RebuildOK' /\ AloneOK'
  BY <1>1, <1>2, <1>3, FewerMigrate
<1>5. FreshOK'
  <2>1. raced \/ cuts > 0
    BY RefusedFacts
  <2> QED BY <1>1, <2>1 DEF FreshOK
<1> QED BY <1>3, <1>4, <1>5 DEF SchemaInv

LEMMA CutKeepsInv ==
    ASSUME SchemaInv, NEW p \in Openers, CutOff(p)
    PROVE  SchemaInv'
<1>1. /\ version' = version /\ objects' = objects /\ progress' = progress
      /\ raced' = raced /\ opens' = opens /\ cuts' = cuts + 1 /\ Does(p, "closed")
  BY DEF CutOff
<1>2. /\ opener' \in [Openers -> Moments]
      /\ \A q \in Openers : Migrates(q)' => Migrates(q) /\ opener'[q] = opener[q]
  BY <1>1, DoesFacts
<1>3. SchemaTypeOK'
  BY <1>1, <1>2 DEF SchemaInv, SchemaTypeOK
<1>4. AtAPlace' /\ AppliedOK' /\ RebuildOK' /\ AloneOK'
  BY <1>1, <1>2, <1>3, FewerMigrate
<1>5. FreshOK'
  <2>1. cuts' # 0
    BY <1>1 DEF SchemaInv, SchemaTypeOK
  <2> QED BY <2>1 DEF FreshOK
<1> QED BY <1>3, <1>4, <1>5 DEF SchemaInv

LEMMA CloseKeepsInv ==
    ASSUME SchemaInv, NEW p \in Openers, CloseDatabase(p)
    PROVE  SchemaInv'
<1>1. /\ version' = version /\ objects' = objects /\ progress' = progress
      /\ raced' = raced /\ opens' = opens /\ cuts' = cuts /\ Does(p, "closed")
      /\ ~Migrates(p)
  BY DEF CloseDatabase, Migrates
<1>2. /\ opener' \in [Openers -> Moments]
      /\ \A q \in Openers : Migrates(q)' => Migrates(q) /\ opener'[q] = opener[q]
      /\ \A q \in Openers : q # p => opener'[q] = opener[q]
  BY <1>1, DoesFacts
<1>3. SchemaTypeOK'
  BY <1>1, <1>2 DEF SchemaInv, SchemaTypeOK
<1>4. AtAPlace' /\ AppliedOK' /\ RebuildOK' /\ AloneOK'
  BY <1>1, <1>2, <1>3, FewerMigrate
<1>5. FreshOK'
  <2>1. \A q \in Openers : Migrates(q) => Migrates(q)'
    BY <1>1, <1>2 DEF Migrates
  <2> QED BY <1>1, <1>2, <2>1 DEF SchemaInv, FreshOK
<1> QED BY <1>3, <1>4, <1>5 DEF SchemaInv

LEMMA OpenKeepsInv ==
    ASSUME SchemaInv, NEW p \in Openers, OpenDatabase(p)
    PROVE  SchemaInv'
<1> DEFINE starts == p \in Migrating /\ version < 10
<1>0. version \in 0..10 /\ opener \in [Openers -> Moments] /\ opens \in Nat
  BY DEF SchemaInv, SchemaTypeOK
<1>1. /\ FirstPending(version) = version + 1
      /\ AllApplied(version + 1) <=> version = 10
  BY <1>0, NextVersion, TenMigrations DEF AllApplied
<1>2. /\ opener[p].pc = "closed" /\ opens' = opens + 1
      /\ version' = version /\ objects' = objects /\ progress' = progress /\ cuts' = cuts
      /\ opener' = [opener EXCEPT ![p] =
             [pc |-> IF starts THEN "migrate" ELSE "ready",
              seen |-> version, at |-> version + 1, statement |-> 1]]
      /\ raced' = (raced \/ (starts /\ \E q \in Openers : Migrates(q)))
  <2>1. starts <=> p \in Migrating /\ ~AllApplied(FirstPending(version))
    BY <1>0, <1>1
  <2> HIDE DEF starts
  <2>2. /\ opener[p].pc = "closed" /\ opens' = opens + 1
        /\ version' = version /\ objects' = objects /\ progress' = progress /\ cuts' = cuts
        /\ opener' = [opener EXCEPT ![p] =
               [pc |-> IF p \notin Migrating \/ AllApplied(FirstPending(version))
                       THEN "ready" ELSE "migrate",
                seen |-> version, at |-> FirstPending(version), statement |-> 1]]
    BY DEF OpenDatabase
  <2>3. raced' = ( \/ raced
                   \/ /\ p \in Migrating /\ ~AllApplied(FirstPending(version))
                      /\ \E q \in Openers : Migrates(q) )
    BY DEF OpenDatabase, Migrates
  <2>4. opener' = [opener EXCEPT ![p] =
             [pc |-> IF starts THEN "migrate" ELSE "ready",
              seen |-> version, at |-> version + 1, statement |-> 1]]
    BY <1>1, <2>1, <2>2
  <2>5. raced' = (raced \/ (starts /\ \E q \in Openers : Migrates(q)))
    BY <2>1, <2>3, Zenon
  <2> QED BY <2>2, <2>4, <2>5
<1> HIDE DEF starts
<1>3. /\ opener' \in [Openers -> Moments]
      /\ opener'[p].pc = (IF starts THEN "migrate" ELSE "ready")
      /\ opener'[p].seen = version /\ opener'[p].at = version + 1
      /\ opener'[p].statement = 1
      /\ \A q \in Openers : q # p => opener'[q] = opener[q]
  BY <1>0, <1>2 DEF Moments
<1>4. /\ Migrates(p)' <=> starts
      /\ ~Migrates(p)
      /\ \A q \in Openers : q # p => (Migrates(q)' <=> Migrates(q))
  BY <1>2, <1>3 DEF Migrates
<1>5. SchemaTypeOK'
  <2>1. raced' \in BOOLEAN /\ opens' \in Nat
    BY <1>0, <1>2 DEF SchemaInv, SchemaTypeOK
  <2> QED BY <1>2, <1>3, <2>1 DEF SchemaInv, SchemaTypeOK
<1>6. AtAPlace'
  <2> SUFFICES ASSUME NEW q \in Openers, Migrates(q)'
               PROVE  /\ opener'[q].at \in 1..10 /\ opener'[q].seen < opener'[q].at
                      /\ opener'[q].statement <= Len(Migrations[opener'[q].at]) + 1
    BY DEF AtAPlace
  <2>1. CASE q # p
    BY <1>3, <1>4, <2>1 DEF SchemaInv, AtAPlace
  <2>2. CASE q = p
    <3>1. version + 1 \in 1..10
      BY <1>0, <1>4, <2>2 DEF starts
    <3>2. Len(Migrations[version + 1]) \in Nat
      BY <3>1, StatementFacts
    <3>3. 1 <= Len(Migrations[version + 1]) + 1
      BY <3>2
    <3> QED BY <1>0, <1>3, <2>2, <3>1, <3>3
  <2> QED BY <2>1, <2>2
<1>7. AppliedOK'
  <2>1. Applied(objects', version' + 1, 1)
    BY <1>2 DEF SchemaInv, AppliedOK
  <2>2. \A q \in Openers : Migrates(q)' =>
            Applied(objects', opener'[q].at, opener'[q].statement)
    BY <1>2, <1>3, <1>4, <2>1 DEF SchemaInv, AppliedOK
  <2> QED BY <2>1, <2>2 DEF AppliedOK
<1>8. RebuildOK'
  <2>1. \A q \in Openers : Rebuilds(q)' => Rebuilds(q) /\ opener'[q] = opener[q]
    BY <1>3, <1>4 DEF Rebuilds
  <2> QED BY <1>2, <2>1 DEF SchemaInv, RebuildOK
<1>9. AloneOK'
  <2> SUFFICES ASSUME ~raced'
               PROVE  /\ \A q, r \in Openers : Migrates(q)' /\ Migrates(r)' => q = r
                      /\ \A q \in Openers : Migrates(q)' =>
                             /\ opener'[q].at = version' + 1
                             /\ opener'[q].at = 6 /\ opener'[q].statement = 9
                                    => "import_progress" \notin objects'
    BY DEF AloneOK
  <2>1. /\ ~raced /\ (starts => \A q \in Openers : ~Migrates(q))
    BY <1>2
  <2> QED BY <1>2, <1>3, <1>4, <2>1 DEF SchemaInv, AloneOK
<1>10. FreshOK'
  <2> SUFFICES ASSUME ~raced', cuts' = 0
               PROVE  /\ \A q \in Openers : Migrates(q)' =>
                             Fresh(objects', opener'[q].at, opener'[q].statement)
                      /\ (\A q \in Openers : ~Migrates(q)') =>
                             Fresh(objects', version' + 1, 1)
    BY DEF FreshOK
  <2>1. /\ ~raced /\ cuts = 0 /\ (starts => \A q \in Openers : ~Migrates(q))
    BY <1>2
  <2>2. /\ \A q \in Openers : Migrates(q) =>
               Fresh(objects, opener[q].at, opener[q].statement)
        /\ (\A q \in Openers : ~Migrates(q)) => Fresh(objects, version + 1, 1)
    BY <2>1 DEF SchemaInv, FreshOK
  <2> QED BY <1>2, <1>3, <1>4, <2>1, <2>2
<1> QED BY <1>5, <1>6, <1>7, <1>8, <1>9, <1>10 DEF SchemaInv

LEMMA SetVersionKeepsInv ==
    ASSUME SchemaInv, NEW p \in Openers, SetSchemaVersion(p)
    PROVE  SchemaInv'
<1> DEFINE u == opener[p].at
<1>0. /\ opener \in [Openers -> Moments] /\ Migrates(p) /\ BatchDone(p)
      /\ opener[p] \in Moments
  BY DEF SchemaInv, SchemaTypeOK, SetSchemaVersion, Migrates
<1>1. u \in 1..10 /\ opener[p].seen \in 0..10 /\ opener[p].seen < u
  BY <1>0 DEF SchemaInv, AtAPlace, Moments
<1>2. NextPending(p) = u + 1 /\ (AllApplied(u + 1) <=> u = 10)
  BY <1>1, NextMigration, TenMigrations DEF AllApplied
<1>3. /\ version' = u /\ objects' = objects /\ progress' = progress /\ raced' = raced
      /\ opens' = opens /\ cuts' = cuts
      /\ opener' = [opener EXCEPT ![p].at = u + 1, ![p].statement = 1,
                        ![p].pc = IF u = 10 THEN "ready" ELSE @]
  BY <1>2 DEF SetSchemaVersion
<1>4. /\ opener' \in [Openers -> Moments]
      /\ opener'[p].pc = (IF u = 10 THEN "ready" ELSE "migrate")
      /\ opener'[p].seen = opener[p].seen /\ opener'[p].at = u + 1
      /\ opener'[p].statement = 1
      /\ \A q \in Openers : q # p => opener'[q] = opener[q]
  <2>1. opener'[p] = [opener[p] EXCEPT !.at = u + 1, !.statement = 1,
                          !.pc = IF u = 10 THEN "ready" ELSE opener[p].pc]
    BY <1>0, <1>3
  <2>2. \A q \in Openers : q # p => opener'[q] = opener[q]
    BY <1>0, <1>3
  <2> HIDE DEF u
  <2>3. opener[p].pc = "migrate"
    BY <1>0 DEF Migrates
  <2>4. /\ opener'[p].pc = (IF u = 10 THEN "ready" ELSE "migrate")
        /\ opener'[p].seen = opener[p].seen /\ opener'[p].at = u + 1
        /\ opener'[p].statement = 1 /\ opener'[p] \in Moments
    <3> DEFINE m == opener[p]
               n == opener'[p]
    <3>1. m \in Moments /\ m.pc = "migrate"
      BY <1>0, <2>3
    <3>2. n = [m EXCEPT !.at = u + 1, !.statement = 1, !.pc = IF u = 10 THEN "ready" ELSE m.pc]
      BY <2>1
    <3> HIDE DEF m, n
    <3>3. /\ m = [pc |-> m.pc, seen |-> m.seen, at |-> m.at, statement |-> m.statement]
          /\ m.seen \in 0..10
      BY <3>1 DEF Moments
    <3>4. n = [pc |-> IF u = 10 THEN "ready" ELSE "migrate", seen |-> m.seen,
               at |-> u + 1, statement |-> 1]
      BY <3>1, <3>2, <3>3
    <3>5. n \in Moments
      BY <1>1, <3>3, <3>4 DEF Moments
    <3>6. /\ n.pc = (IF u = 10 THEN "ready" ELSE "migrate") /\ n.seen = m.seen
          /\ n.at = u + 1 /\ n.statement = 1
      BY <3>4
    <3> QED BY <3>5, <3>6 DEF m, n
  <2>5. opener' \in [Openers -> Moments]
    <3>1. \A q \in Openers : opener'[q] \in Moments
      BY <1>0, <2>2, <2>4
    <3>2. opener' = [q \in Openers |-> opener'[q]]
      BY <1>0, <1>3
    <3> QED BY <3>1, <3>2
  <2> QED BY <2>2, <2>4, <2>5
<1> HIDE DEF u
<1>5. /\ Migrates(p)' <=> u < 10
      /\ \A q \in Openers : q # p => (Migrates(q)' <=> Migrates(q))
  BY <1>1, <1>4 DEF Migrates
<1>6. SchemaTypeOK'
  BY <1>1, <1>3, <1>4 DEF SchemaInv, SchemaTypeOK
<1>7. AtAPlace'
  <2> SUFFICES ASSUME NEW q \in Openers, Migrates(q)'
               PROVE  /\ opener'[q].at \in 1..10 /\ opener'[q].seen < opener'[q].at
                      /\ opener'[q].statement <= Len(Migrations[opener'[q].at]) + 1
    BY DEF AtAPlace
  <2>1. CASE q # p
    BY <1>4, <1>5, <2>1 DEF SchemaInv, AtAPlace
  <2>2. CASE q = p
    <3>1. u + 1 \in 1..10
      BY <1>1, <1>5, <2>2
    <3>2. Len(Migrations[u + 1]) \in Nat
      BY <3>1, StatementFacts
    <3>3. 1 <= Len(Migrations[u + 1]) + 1
      BY <3>2
    <3> QED BY <1>1, <1>4, <2>2, <3>1, <3>3
  <2> QED BY <2>1, <2>2
<1>8. Applied(objects, u + 1, 1)
  <2>1. Applied(objects, u, opener[p].statement)
    BY <1>0 DEF SchemaInv, AppliedOK, u
  <2>2. opener[p].statement \in Nat /\ opener[p].statement > Len(Migrations[u])
    BY <1>0 DEF BatchDone, Moments, u
  <2> SUFFICES ASSUME NEW v \in 1..10, NEW i \in Nat,
                      v < u + 1 \/ (v = u + 1 /\ i < 1),
                      NEW x, Makes(v, i, x), x # Copy
               PROVE  Present(objects, x)
    BY DEF Applied
  <2>3. i \in 1..Len(Migrations[v]) /\ Len(Migrations[v]) \in Nat
    BY StatementFacts DEF Makes
  <2>4. v < u \/ v = u
    BY <1>1, <2>3
  <2>5. v = u => i < opener[p].statement
    BY <2>2, <2>3
  <2> QED BY <2>1, <2>4, <2>5 DEF Applied
<1>9. AppliedOK'
  <2>1. Applied(objects', version' + 1, 1)
    BY <1>3, <1>8
  <2>2. \A q \in Openers : Migrates(q)' =>
            Applied(objects', opener'[q].at, opener'[q].statement)
    BY <1>3, <1>4, <1>5, <1>8 DEF SchemaInv, AppliedOK
  <2> QED BY <2>1, <2>2 DEF AppliedOK
<1>10. RebuildOK'
  <2>1. \A q \in Openers : Rebuilds(q)' => Rebuilds(q) /\ opener'[q] = opener[q]
    BY <1>4, <1>5 DEF Rebuilds
  <2> QED BY <1>3, <2>1 DEF SchemaInv, RebuildOK
<1>11. ~raced => /\ u = version + 1
                 /\ \A q \in Openers : Migrates(q) => q = p
  BY <1>0 DEF SchemaInv, AloneOK, u
<1>12. AloneOK'
  BY <1>3, <1>4, <1>5, <1>11 DEF AloneOK
<1>13. FreshOK'
  <2> SUFFICES ASSUME ~raced, cuts = 0 PROVE Fresh(objects, u + 1, 1)
    BY <1>3, <1>4, <1>5, <1>11 DEF FreshOK
  <2>1. Fresh(objects, u, opener[p].statement)
    BY <1>0 DEF SchemaInv, FreshOK, u
  <2> SUFFICES ASSUME NEW x \in objects PROVE Place(x)[1] < u + 1
    BY DEF Fresh
  <2>2. Place(x)[1] < u \/ Place(x)[1] = u
    BY <2>1 DEF Fresh
  <2>3. Place(x)[1] \in Nat
    BY Places
  <2> QED BY <1>1, <2>2, <2>3
<1> QED BY <1>6, <1>7, <1>9, <1>10, <1>12, <1>13 DEF SchemaInv

LEMMA ExecuteKeepsInv ==
    ASSUME SchemaInv, NEW p \in Openers, ExecuteStatement(p)
    PROVE  SchemaInv'
  BY ExecuteKeepsTypes, ExecuteKeepsApplied, ExecuteKeepsRebuild,
     ExecuteKeepsAlone, ExecuteKeepsFresh DEF SchemaInv

LEMMA SchemaStutterOK == SchemaInv /\ UNCHANGED schemaVars => SchemaInv'
<1> SUFFICES ASSUME SchemaInv, UNCHANGED schemaVars PROVE SchemaInv'
  OBVIOUS
<1>1. /\ version' = version /\ objects' = objects /\ progress' = progress
      /\ raced' = raced /\ opens' = opens /\ cuts' = cuts /\ opener' = opener
  BY DEF schemaVars
<1>2. SchemaTypeOK'
  BY <1>1 DEF SchemaInv, SchemaTypeOK
<1>3. \A q \in Openers : Migrates(q)' <=> Migrates(q)
  BY <1>1 DEF Migrates
<1>4. AtAPlace' /\ AppliedOK' /\ RebuildOK' /\ AloneOK'
  BY <1>1, <1>2, <1>3, FewerMigrate
<1>5. FreshOK'
  BY <1>1, <1>3 DEF SchemaInv, FreshOK
<1> QED BY <1>2, <1>4, <1>5 DEF SchemaInv

\* Always, whoever opens the file and wherever a process is cut off: the types,
\* the places of the migrations, and what their statements have left.
THEOREM SchemaInvariant == SchemaSpec => []SchemaInv
<1>1. SchemaInit => SchemaInv
  BY SchemaInitOK
<1>2. SchemaInv /\ [SchemaNext]_schemaVars => SchemaInv'
  <2> SUFFICES ASSUME SchemaInv, SchemaNext PROVE SchemaInv'
    BY SchemaStutterOK
  <2> QED BY OpenKeepsInv, ExecuteKeepsInv, FailKeepsInv, SetVersionKeepsInv,
             CutKeepsInv, CloseKeepsInv DEF SchemaNext
<1> QED BY <1>1, <1>2, PTL DEF SchemaSpec

\* user_version never promises a table or a column that is not there, for any
\* number of processes that migrate at once and are cut off anywhere.
THEOREM VersionsAreTrue == SchemaSpec => []VersionMeansApplied
<1>1. SchemaInv => VersionMeansApplied
  <2> SUFFICES ASSUME SchemaInv, NEW x \in MadeBy(version) PROVE Present(objects, x)
    BY DEF VersionMeansApplied, Present, Copy
  <2>1. x \in MadeBy(version) /\ version \in 0..10
    BY DEF SchemaInv, SchemaTypeOK
  <2>2. PICK v \in 1..version, i \in Nat : Makes(v, i, x) /\ x # Copy
    BY ONLY <2>1, MadeFacts
  <2>3. Applied(objects, version + 1, 1)
    BY DEF SchemaInv, AppliedOK
  <2>4. v \in 1..10 /\ v < version + 1
    BY <2>1
  <2> QED BY <2>2, <2>3, <2>4 DEF Applied
<1> QED BY <1>1, SchemaInvariant, PTL

\* A start fails at a migration only if two processes have migrated at once, or
\* if a cut has left the very column it is about to add.
THEOREM FailuresMeanTorn == SchemaSpec => FailsOnlyIfTorn
<1> DEFINE Failure ==
        \A p \in Openers : opener[p].pc = "migrate" /\ opener'[p].pc = "failed"
            => raced \/ (cuts > 0 /\ TornFor(p))
<1>1. SchemaInv /\ [SchemaNext]_schemaVars => [Failure]_schemaVars
  <2> SUFFICES ASSUME SchemaInv, SchemaNext, NEW p \in Openers,
                      opener[p].pc = "migrate", opener'[p].pc = "failed"
               PROVE  raced \/ (cuts > 0 /\ TornFor(p))
    OBVIOUS
  <2>1. PICK q \in Openers :
            \/ OpenDatabase(q) \/ ExecuteStatement(q) \/ MigrationFails(q)
            \/ SetSchemaVersion(q) \/ CutOff(q) \/ CloseDatabase(q)
    BY DEF SchemaNext
  <2>2. opener \in [Openers -> Moments]
    BY DEF SchemaInv, SchemaTypeOK
  <2>3. CASE OpenDatabase(q)
    BY <2>2, <2>3 DEF OpenDatabase
  <2>4. CASE ExecuteStatement(q)
    BY <2>2, <2>4 DEF ExecuteStatement
  <2>5. CASE MigrationFails(q)
    <3>1. p = q
      BY <2>2, <2>5 DEF MigrationFails, Does
    <3> QED BY <2>5, <3>1, RefusedFacts
  <2>6. CASE SetSchemaVersion(q)
    BY <2>2, <2>6 DEF SetSchemaVersion, Moments
  <2>7. CASE CutOff(q)
    BY <2>2, <2>7 DEF CutOff, Does
  <2>8. CASE CloseDatabase(q)
    BY <2>2, <2>8 DEF CloseDatabase, Does
  <2> QED BY <2>1, <2>3, <2>4, <2>5, <2>6, <2>7, <2>8
<1> QED BY <1>1, SchemaInvariant, PTL DEF SchemaSpec, FailsOnlyIfTorn

-----------------------------------------------------------------------------
(* PrListing: any number of pull requests, any page size and page limit.   *)
(*                                                                         *)
(* The invariant says why pages that are computed one after the other miss *)
(* nothing that stays: what has not been touched and is on no page got so  *)
(* far stands behind them (BehindOK), since whatever else happens puts     *)
(* others before it (ClockOK, MergedOK).                                   *)

PrItems == [page : Nat, pr : PullRequests]

PrTypeOK ==
    /\ closed \subseteq PullRequests
    /\ updated \in [PullRequests -> Nat] /\ mergedAt \in [PullRequests -> Nat]
    /\ replayed \subseteq PullRequests /\ since \in Nat
    /\ at \in {"idle", "ask", "work"}
    /\ page \in 1..MaxPages /\ attempt \in Nat /\ got \subseteq PrItems
    /\ wanted \subseteq PullRequests /\ moved \subseteq PullRequests
    /\ reopened \in BOOLEAN /\ truncated \in BOOLEAN
    /\ moves \in Nat /\ bad \in Nat /\ listings \in Nat

\* A merged pull request is closed.
MergedOK == \A p \in PullRequests : mergedAt[p] > 0 => p \in closed

\* The next update is later than every other.
ClockOK == \A p \in PullRequests : updated[p] < LastPr + moves + 1

WantedOK == at = "ask" => \A p \in wanted : mergedAt[p] > since

BehindOK ==
    at = "ask" /\ ~reopened =>
        \A p \in wanted \ moved :
            \/ \E x \in got : x.pr = p
            \/ (page - 1) * PageSize <= Rank(p)

PrInv == PrTypeOK /\ MergedOK /\ ClockOK /\ WantedOK /\ BehindOK

LEMMA PrFinite ==
    ASSUME NEW S, S \subseteq PullRequests
    PROVE  IsFiniteSet(S) /\ Cardinality(S) \in Nat
<1>1. IsFiniteSet(PullRequests)
  BY FS_Interval, PrListingAssumption DEF PullRequests
<1>2. IsFiniteSet(S)
  BY <1>1, FS_Subset
<1> QED BY <1>2, FS_CardinalityType

LEMMA RankType ==
    ASSUME closed \subseteq PullRequests, NEW p
    PROVE  Rank(p) \in Nat
<1>1. {q \in closed : Newer(q, p)} \subseteq PullRequests
  OBVIOUS
<1>2. PICK S : S = {q \in closed : Newer(q, p)}
  OBVIOUS
<1>3. Cardinality(S) \in Nat
  BY <1>1, <1>2, PrFinite
<1> QED BY <1>2, <1>3 DEF Rank

\* A closed pull request stands before the end of what is listed.
LEMMA RankBelow ==
    ASSUME PrTypeOK, NEW p \in closed
    PROVE  Rank(p) < Cardinality(closed)
<1>1. p \in Nat /\ updated[p] \in Nat
  BY PrListingAssumption DEF PrTypeOK, PullRequests
<1>2. ~Newer(p, p)
  BY <1>1 DEF Newer
<1>3. PICK S : S = {q \in closed : Newer(q, p)}
  OBVIOUS
<1>4. S \subseteq closed /\ p \notin S
  BY <1>2, <1>3
<1>5. IsFiniteSet(closed) /\ Cardinality(closed) \in Nat
        /\ IsFiniteSet(S) /\ Cardinality(S) \in Nat
  BY <1>4, PrFinite DEF PrTypeOK
<1>6. Cardinality(S) <= Cardinality(closed)
        /\ (Cardinality(S) = Cardinality(closed) => S = closed)
  BY <1>4, <1>5, FS_Subset
<1>7. S # closed
  BY <1>4
<1> QED BY <1>3, <1>5, <1>6, <1>7 DEF Rank

\* People who touch others leave a pull request no earlier in the list.
LEMMA RankGrows ==
    ASSUME PrTypeOK, closed' \subseteq PullRequests, closed \subseteq closed',
           NEW p \in PullRequests, \A q \in closed : Newer(q, p) => Newer(q, p)'
    PROVE  Rank(p) <= Rank(p)'
<1>1. PICK S, T : S = {q \in closed : Newer(q, p)} /\ T = {q \in closed' : Newer(q, p)'}
  OBVIOUS
<1>2. S \subseteq T /\ T \subseteq PullRequests
  BY <1>1
<1>3. IsFiniteSet(T)
  BY <1>2, PrFinite
<1>4. Cardinality(S) <= Cardinality(T)
  BY <1>2, <1>3, FS_Subset
<1>5. Rank(p)' = Cardinality(T) /\ Rank(p) = Cardinality(S)
  BY <1>1 DEF Rank
<1> QED BY <1>4, <1>5

LEMMA RankKept ==
    ASSUME UNCHANGED <<closed, updated, since>>
    PROVE  /\ \A p : Rank(p)' = Rank(p)
  BY DEF Rank, Newer, ByUpdate

LEMMA PrInvStarts ==
    ASSUME PrInit
    PROVE  PrInv
<1>1. PICK m \in SUBSET closed :
        mergedAt = [p \in PullRequests |->
                        IF p \in m THEN Cardinality({q \in m : q <= p}) ELSE 0]
  BY DEF PrInit
<1>2. closed \subseteq PullRequests /\ m \subseteq closed
  BY DEF PrInit
<1>3. \A p \in PullRequests : Cardinality({q \in m : q <= p}) \in Nat
  <2> TAKE p \in PullRequests
  <2>1. PICK S : S = {q \in m : q <= p}
    OBVIOUS
  <2>2. S \subseteq PullRequests
    BY <1>2, <2>1
  <2> QED BY <2>1, <2>2, PrFinite
<1>4. /\ mergedAt \in [PullRequests -> Nat]
      /\ \A p \in PullRequests : mergedAt[p] > 0 => p \in m
  BY <1>1, <1>3
<1>5. /\ updated \in [PullRequests -> Nat] /\ moves = 0
      /\ \A p \in PullRequests : updated[p] < LastPr + 0 + 1
  <2>1. \A p \in PullRequests : p \in Nat /\ p < LastPr + 0 + 1
    BY PrListingAssumption DEF PullRequests
  <2>2. updated = [p \in PullRequests |-> p] /\ moves = 0
    BY DEF PrInit
  <2> QED BY <2>1, <2>2
<1>6. PrTypeOK
  <2>1. /\ replayed = {} /\ since = 0 /\ page = 1 /\ attempt = 0 /\ got = {}
        /\ wanted = {} /\ moved = {} /\ moves = 0 /\ bad = 0 /\ listings = 0
    BY DEF PrInit
  <2>2. at \in {"idle", "ask", "work"}
    BY DEF PrInit
  <2>3. reopened \in BOOLEAN /\ truncated \in BOOLEAN
    BY Zenon DEF PrInit
  <2>4. 1 \in 1..MaxPages
    BY PrListingAssumption
  <2> QED BY <1>2, <1>4, <1>5, <2>1, <2>2, <2>3, <2>4 DEF PrTypeOK
<1>7. MergedOK /\ ClockOK
  BY <1>2, <1>4, <1>5 DEF MergedOK, ClockOK
<1>8. WantedOK /\ BehindOK
  BY DEF PrInit, WantedOK, BehindOK
<1> QED BY <1>6, <1>7, <1>8 DEF PrInv

\* A change somebody makes to one pull request.
LEMMA TouchStep ==
    ASSUME PrInv, NEW p \in PullRequests, Touch(p),
           closed' \subseteq PullRequests, mergedAt' \in [PullRequests -> Nat],
           \A q \in PullRequests : q # p => mergedAt'[q] = mergedAt[q],
           mergedAt[p] > 0 => mergedAt'[p] = mergedAt[p],
           MergedOK', reopened' \in BOOLEAN,
           reopened' \/ (closed \subseteq closed' /\ reopened' = reopened)
    PROVE  PrInv'
<1>1. /\ moves' = moves + 1
      /\ updated' = [updated EXCEPT ![p] = LastPr + moves + 1]
      /\ moved' = moved \cup {p}
      /\ UNCHANGED <<replayed, since, at, page, attempt, got, wanted, truncated,
                     bad, listings>>
  BY DEF Touch, prLog, listing
<1>2. PrTypeOK /\ MergedOK /\ ClockOK /\ WantedOK /\ BehindOK
  BY DEF PrInv
<1>3. moves \in Nat /\ LastPr \in Nat /\ LastPr + moves + 1 \in Nat
  BY <1>2, PrListingAssumption DEF PrTypeOK
<1>4. updated' \in [PullRequests -> Nat]
  BY <1>1, <1>2, <1>3 DEF PrTypeOK
<1>5. \A q \in PullRequests : updated'[q] = IF q = p THEN LastPr + moves + 1 ELSE updated[q]
  BY <1>1, <1>2 DEF PrTypeOK
<1>6. PrTypeOK'
  <2>1. moves' \in Nat /\ moved' \subseteq PullRequests
    BY <1>1, <1>2, <1>3 DEF PrTypeOK
  <2>2. /\ replayed \subseteq PullRequests /\ since \in Nat
        /\ at \in {"idle", "ask", "work"}
        /\ page \in 1..MaxPages /\ attempt \in Nat /\ got \subseteq PrItems
        /\ wanted \subseteq PullRequests /\ truncated \in BOOLEAN
        /\ bad \in Nat /\ listings \in Nat
    BY <1>2 DEF PrTypeOK
  <2> QED BY <1>1, <1>4, <2>1, <2>2 DEF PrTypeOK
<1>7. ClockOK'
  <2> SUFFICES ASSUME NEW q \in PullRequests
               PROVE  updated'[q] < LastPr + moves' + 1
    BY DEF ClockOK
  <2>1. updated[q] \in Nat /\ updated[q] < LastPr + moves + 1
    BY <1>2 DEF ClockOK, PrTypeOK
  <2> QED BY <1>1, <1>3, <1>5, <2>1
<1>8. WantedOK'
  <2>1. wanted \subseteq PullRequests /\ since \in Nat
    BY <1>2 DEF PrTypeOK
  <2>2. at = "ask" => \A q \in wanted : mergedAt[q] > since
    BY <1>2 DEF WantedOK
  <2>3. ASSUME at = "ask", NEW q \in wanted PROVE mergedAt'[q] > since
    <3>1. q \in PullRequests /\ mergedAt[q] > since /\ mergedAt[q] \in Nat
      BY <1>2, <2>1, <2>2, <2>3 DEF PrTypeOK
    <3>2. mergedAt'[q] = mergedAt[q]
      BY <2>1, <3>1
    <3> QED BY <3>1, <3>2
  <2> QED BY <1>1, <2>3 DEF WantedOK
<1>9. BehindOK'
  <2> SUFFICES ASSUME at = "ask", ~reopened', NEW q \in wanted, q \notin moved'
               PROVE  \/ \E x \in got : x.pr = q
                      \/ (page - 1) * PageSize <= Rank(q)'
    BY <1>1 DEF BehindOK
  <2>1. q \in PullRequests /\ q # p /\ q \notin moved /\ ~reopened
          /\ closed \subseteq closed'
    BY <1>1, <1>2 DEF PrTypeOK
  <2>2. CASE \E x \in got : x.pr = q
    BY <2>2
  <2>3. CASE (page - 1) * PageSize <= Rank(q)
    <3>1. \A r \in closed : Newer(r, q) => Newer(r, q)'
      <4> SUFFICES ASSUME NEW r \in closed, Newer(r, q) PROVE Newer(r, q)'
        OBVIOUS
      <4>1. r \in PullRequests /\ updated[r] \in Nat /\ updated[q] \in Nat
              /\ updated[q] < LastPr + moves + 1
        BY <1>2, <2>1 DEF PrTypeOK, ClockOK
      <4>2. updated'[q] = updated[q]
              /\ updated'[r] = IF r = p THEN LastPr + moves + 1 ELSE updated[r]
        BY <1>5, <2>1, <4>1
      <4>3. since' = since
        BY <1>1
      <4>4. CASE since > 0
        <5>1. updated[r] > updated[q]
          BY <4>4 DEF Newer, ByUpdate
        <5>2. updated'[r] > updated'[q]
          BY <1>3, <4>1, <4>2, <5>1
        <5> QED BY <4>3, <4>4, <5>2 DEF Newer, ByUpdate
      <4>5. CASE ~(since > 0)
        BY <4>3, <4>5 DEF Newer, ByUpdate
      <4> QED BY <4>4, <4>5
    <3>2. Rank(q) <= Rank(q)'
      BY <1>2, <2>1, <3>1, RankGrows
    <3>3. Rank(q) \in Nat
      BY <1>2, RankType DEF PrTypeOK
    <3>4. \A S : S \subseteq PullRequests => Cardinality(S) \in Nat
      BY PrFinite
    <3>5. Rank(q)' \in Nat
      BY <3>4 DEF Rank
    <3>6. (page - 1) * PageSize \in Int
      BY <1>2, PrListingAssumption DEF PrTypeOK
    <3> QED BY <2>3, <3>2, <3>3, <3>5, <3>6
  <2> QED BY <1>2, <2>1, <2>2, <2>3 DEF BehindOK
<1> QED BY <1>6, <1>7, <1>8, <1>9 DEF PrInv

LEMMA PeopleStep ==
    ASSUME PrInv, NEW p \in PullRequests, Close(p) \/ Comment(p) \/ Reopen(p)
    PROVE  PrInv'
<1>1. /\ closed \subseteq PullRequests /\ mergedAt \in [PullRequests -> Nat]
      /\ reopened \in BOOLEAN
      /\ \A q \in PullRequests : mergedAt[q] > 0 => q \in closed
      /\ \A q \in PullRequests : mergedAt[q] \in Nat
  BY DEF PrInv, PrTypeOK, MergedOK
<1>2. CASE Close(p)
  <2>1. /\ p \notin closed /\ Touch(p) /\ closed' = closed \cup {p}
        /\ reopened' = reopened
    BY <1>2 DEF Close
  <2>2. ~(mergedAt[p] > 0)
    BY <1>1, <2>1
  <2>3. PICK n \in Nat : \/ mergedAt' = mergedAt
                         \/ mergedAt' = [mergedAt EXCEPT ![p] = n]
    <3>1. Merged \subseteq PullRequests
      BY DEF Merged
    <3>2. Cardinality(Merged) + 1 \in Nat
      BY <3>1, PrFinite
    <3> QED BY <1>2, <3>2 DEF Close
  <2>4. /\ mergedAt' \in [PullRequests -> Nat]
        /\ \A q \in PullRequests : q # p => mergedAt'[q] = mergedAt[q]
    BY <1>1, <2>3
  <2>5. MergedOK'
    BY <1>1, <2>1, <2>4 DEF MergedOK
  <2> QED BY <1>1, <2>1, <2>2, <2>4, <2>5, TouchStep
<1>3. CASE Comment(p)
  <2>1. Touch(p) /\ UNCHANGED <<closed, mergedAt, reopened>>
    BY <1>3 DEF Comment
  <2>2. MergedOK'
    BY <1>1, <2>1 DEF MergedOK
  <2> QED BY <1>1, <2>1, <2>2, TouchStep
<1>4. CASE Reopen(p)
  <2>1. /\ p \in closed \ Merged /\ Touch(p)
        /\ closed' = closed \ {p} /\ reopened' = TRUE /\ mergedAt' = mergedAt
    BY <1>4 DEF Reopen
  <2>2. ~(mergedAt[p] > 0)
    BY <2>1 DEF Merged
  <2>3. MergedOK'
    BY <1>1, <2>1, <2>2 DEF MergedOK
  <2> QED BY <1>1, <2>1, <2>3, TouchStep
<1> QED BY <1>2, <1>3, <1>4

\* A step that asks for nothing more: the listing is over, or goes on as it was.
LEMMA ListStep ==
    ASSUME PrInv, UNCHANGED <<closed, updated, mergedAt, moves>>,
           replayed' \subseteq PullRequests, since' \in Nat,
           at' \in {"idle", "ask", "work"}, page' \in 1..MaxPages, attempt' \in Nat,
           got' \subseteq PrItems, bad' \in Nat, listings' \in Nat,
           wanted' \subseteq PullRequests, moved' \subseteq PullRequests,
           reopened' \in BOOLEAN, truncated' \in BOOLEAN,
           at' = "ask" =>
               /\ \A p \in wanted' : mergedAt[p] > since
               /\ UNCHANGED since
               /\ ~reopened' => \A p \in wanted' \ moved' :
                    \/ \E x \in got' : x.pr = p
                    \/ (page' - 1) * PageSize <= Rank(p)
    PROVE  PrInv'
<1>1. PrTypeOK'
  <2>1. /\ closed \subseteq PullRequests /\ updated \in [PullRequests -> Nat]
        /\ mergedAt \in [PullRequests -> Nat] /\ moves \in Nat
    BY DEF PrInv, PrTypeOK
  <2> QED BY <2>1 DEF PrTypeOK
<1>2. MergedOK' /\ ClockOK'
  BY DEF PrInv, MergedOK, ClockOK
<1>3. WantedOK'
  BY DEF WantedOK
<1>4. BehindOK'
  <2>1. UNCHANGED since => \A p : Rank(p)' = Rank(p)
    BY RankKept
  <2> QED BY <2>1 DEF BehindOK
<1> QED BY <1>1, <1>2, <1>3, <1>4 DEF PrInv

LEMMA StartListingStep ==
    ASSUME PrInv, StartListing
    PROVE  PrInv'
<1>1. PrTypeOK
  BY DEF PrInv
<1>2. /\ listings' = listings + 1 /\ at' = "ask" /\ page' = 1 /\ attempt' = 0
      /\ got' = {} /\ wanted' = MergedAfter(since) /\ moved' = {}
      /\ reopened' = FALSE /\ truncated' = FALSE
      /\ UNCHANGED <<closed, updated, mergedAt, replayed, since, moves, bad>>
  BY DEF StartListing, onGitHub, prLog
<1>3. /\ replayed' \subseteq PullRequests /\ since' \in Nat
      /\ at' \in {"idle", "ask", "work"} /\ page' \in 1..MaxPages /\ attempt' \in Nat
      /\ got' \subseteq PrItems /\ bad' \in Nat /\ listings' \in Nat
  BY <1>1, <1>2, PrListingAssumption DEF PrTypeOK
<1>4. /\ wanted' \subseteq PullRequests /\ moved' \subseteq PullRequests
      /\ \A p \in wanted' : mergedAt[p] > since
  BY <1>2 DEF MergedAfter
<1>5. reopened' \in BOOLEAN /\ truncated' \in BOOLEAN
  BY <1>2, Zenon
<1>6. \A p : (page' - 1) * PageSize <= Rank(p)
  <2> TAKE p
  <2>1. Rank(p) \in Nat
    BY <1>1, RankType DEF PrTypeOK
  <2>2. (page' - 1) * PageSize = 0
    BY <1>2, PrListingAssumption
  <2> QED BY <2>1, <2>2
<1> QED BY <1>2, <1>3, <1>4, <1>5, <1>6, ListStep

LEMMA BadAnswerStep ==
    ASSUME PrInv, Busy \/ TurnedDown
    PROVE  PrInv'
<1>1. PrTypeOK /\ WantedOK /\ BehindOK
  BY DEF PrInv
<1>2. /\ at = "ask" /\ bad' = bad + 1
      /\ UNCHANGED <<closed, updated, mergedAt, replayed, since, wanted, moved,
                     reopened, truncated, moves, listings>>
      /\ \/ attempt' = attempt + 1 /\ UNCHANGED <<at, page, got>>
         \/ at' = "idle" /\ page' = 1 /\ attempt' = 0 /\ got' = {}
  BY DEF Busy, TurnedDown, onGitHub, prLog, observed
<1>3. /\ replayed' \subseteq PullRequests /\ since' \in Nat
      /\ bad' \in Nat /\ listings' \in Nat
      /\ wanted' \subseteq PullRequests /\ moved' \subseteq PullRequests
      /\ reopened' \in BOOLEAN /\ truncated' \in BOOLEAN
  BY <1>1, <1>2 DEF PrTypeOK
<1>4. /\ at' \in {"idle", "ask", "work"} /\ page' \in 1..MaxPages /\ attempt' \in Nat
      /\ got' \subseteq PrItems
  BY <1>1, <1>2, PrListingAssumption DEF PrTypeOK
<1>5. at' = "ask" =>
        /\ \A p \in wanted' : mergedAt[p] > since
        /\ UNCHANGED since
        /\ ~reopened' => \A p \in wanted' \ moved' :
             \/ \E x \in got' : x.pr = p
             \/ (page' - 1) * PageSize <= Rank(p)
  <2>1. at' = "ask" => UNCHANGED <<page, got>>
    BY <1>2
  <2> QED BY <1>1, <1>2, <2>1 DEF WantedOK, BehindOK
<1> QED BY <1>2, <1>3, <1>4, <1>5, ListStep

\* What is not behind a page and was not before it is on it.
LEMMA OnThePage ==
    ASSUME PrInv, at = "ask", NEW p \in wanted, ~(page * PageSize <= Rank(p)),
           (page - 1) * PageSize <= Rank(p)
    PROVE  \E x \in Items(page) : x.pr = p
<1>1. p \in PullRequests /\ mergedAt[p] > since /\ since \in Nat
        /\ mergedAt[p] \in Nat /\ page \in Nat
  BY PrListingAssumption DEF PrInv, PrTypeOK, WantedOK
<1>2. p \in closed
  BY <1>1 DEF PrInv, MergedOK
<1>3. Rank(p) \in Nat
  BY RankType DEF PrInv, PrTypeOK
<1>4. PICK n \in Nat : n = page * PageSize
  BY <1>1, PrListingAssumption
<1>5. Rank(p) < page * PageSize
  BY <1>3, <1>4
<1>6. p \in Page(page)
  BY <1>2, <1>5 DEF Page
<1>7. [page |-> page, pr |-> p] \in Items(page)
  BY <1>6 DEF Items
<1> QED BY <1>7

LEMMA ItemsType ==
    ASSUME PrTypeOK
    PROVE  Items(page) \subseteq PrItems
<1>1. Page(page) \subseteq PullRequests /\ page \in Nat
  BY PrListingAssumption DEF PrTypeOK, Page
<1> QED BY <1>1 DEF Items, PrItems

LEMMA GetPageStep ==
    ASSUME PrInv, GetPage
    PROVE  PrInv'
<1>1. PrTypeOK /\ WantedOK /\ BehindOK
  BY DEF PrInv
<1>2. /\ at = "ask" /\ attempt' = 0
      /\ UNCHANGED <<closed, updated, mergedAt, replayed, since, wanted, moved,
                     reopened, moves, bad, listings>>
  BY DEF GetPage, onGitHub, prLog
<1>3. /\ replayed' \subseteq PullRequests /\ since' \in Nat /\ attempt' \in Nat
      /\ bad' \in Nat /\ listings' \in Nat
      /\ wanted' \subseteq PullRequests /\ moved' \subseteq PullRequests
      /\ reopened' \in BOOLEAN
  BY <1>1, <1>2 DEF PrTypeOK
<1>4. CASE GoesOn(page)
  <2>1. /\ page' = page + 1 /\ got' = got \cup Items(page)
        /\ at' = "ask" /\ truncated' = truncated
    BY <1>2, <1>4 DEF GetPage
  <2>2. page' \in 1..MaxPages /\ page \in Nat
    BY <1>1, <1>4, <2>1, PrListingAssumption DEF GoesOn, PrTypeOK
  <2>3. got' \subseteq PrItems /\ truncated' \in BOOLEAN
    BY <1>1, <2>1, ItemsType DEF PrTypeOK
  <2>4. ASSUME ~reopened', NEW p \in wanted', p \notin moved'
        PROVE  \/ \E x \in got' : x.pr = p
               \/ (page' - 1) * PageSize <= Rank(p)
    <3>1. \/ \E x \in got : x.pr = p
          \/ (page - 1) * PageSize <= Rank(p)
      BY <1>1, <1>2, <2>4 DEF BehindOK
    <3>2. (page' - 1) * PageSize = page * PageSize
      <4>1. page' - 1 = page
        BY <2>1, <2>2
      <4> QED BY <4>1
    <3>3. ~(page * PageSize <= Rank(p)) /\ (page - 1) * PageSize <= Rank(p)
            => \E x \in Items(page) : x.pr = p
      BY <1>2, OnThePage
    <3> QED BY <2>1, <3>1, <3>2, <3>3
  <2>5. \A p \in wanted' : mergedAt[p] > since
    BY <1>1, <1>2 DEF WantedOK
  <2>6. at' \in {"idle", "ask", "work"}
    BY <2>1
  <2> QED BY <1>2, <1>3, <2>2, <2>3, <2>4, <2>5, <2>6, ListStep
<1>5. CASE ~GoesOn(page)
  <2>1. /\ page' = 1 /\ got' = MergedItems(got \cup Items(page)) /\ at' = "work"
        /\ truncated' = (LinksNext(page) /\ page = MaxPages)
    BY <1>5 DEF GetPage
  <2>2. got' \subseteq PrItems
    BY <1>1, <2>1, ItemsType DEF PrTypeOK, MergedItems
  <2>3. truncated' \in BOOLEAN
    BY <2>1, Zenon
  <2>4. page' \in 1..MaxPages /\ at' \in {"idle", "ask", "work"} /\ at' # "ask"
    BY <2>1, PrListingAssumption
  <2> QED BY <1>2, <1>3, <2>2, <2>3, <2>4, ListStep
<1> QED BY <1>4, <1>5

LEMMA WorkStep ==
    ASSUME PrInv,
           ListDone \/ \E x \in got : SkipItem(x) \/ ReplayItem(x) \/ ItemFails(x)
    PROVE  PrInv'
<1>1. PrTypeOK
  BY DEF PrInv
<1>2. \A p \in PullRequests : p \in replayed => {p} \subseteq PullRequests
  OBVIOUS
<1>3. Cardinality(Merged) \in Nat
  <2>1. Merged \subseteq PullRequests
    BY DEF Merged
  <2> QED BY <2>1, PrFinite
<1>4. CASE ListDone
  <2>1. /\ at' = "idle"
        /\ UNCHANGED <<closed, updated, mergedAt, replayed, since, page, attempt,
                       got, wanted, moved, reopened, truncated, moves, bad, listings>>
    BY <1>4 DEF ListDone, onGitHub, prLog, observed
  <2>2. /\ replayed' \subseteq PullRequests /\ since' \in Nat
        /\ page' \in 1..MaxPages /\ attempt' \in Nat
        /\ got' \subseteq PrItems /\ bad' \in Nat /\ listings' \in Nat
        /\ wanted' \subseteq PullRequests /\ moved' \subseteq PullRequests
        /\ reopened' \in BOOLEAN /\ truncated' \in BOOLEAN
    BY <1>1, <2>1 DEF PrTypeOK
  <2>3. at' \in {"idle", "ask", "work"} /\ at' # "ask"
    BY <2>1
  <2> QED BY <2>1, <2>2, <2>3, ListStep
<1>5. ASSUME NEW x \in got, SkipItem(x) \/ ReplayItem(x) \/ ItemFails(x)
      PROVE  PrInv'
  <2>1. /\ at = "work" /\ got' = got \ {x}
        /\ UNCHANGED <<closed, updated, mergedAt, at, page, attempt, wanted, moved,
                       reopened, truncated, moves, listings>>
    BY <1>5 DEF SkipItem, ReplayItem, ItemFails, IsNext, TakeItem, onGitHub,
                observed
  <2>2. /\ replayed' = replayed \/ replayed' = replayed \cup {x.pr}
        /\ since' = since \/ since' = Cardinality(Merged)
        /\ bad' = bad \/ bad' = bad + 1
    BY <1>5 DEF SkipItem, ReplayItem, ItemFails, prLog
  <2>3. x.pr \in PullRequests
    <3>1. x \in PrItems
      BY <1>1 DEF PrTypeOK
    <3> QED BY <3>1 DEF PrItems
  <2>4. replayed' \subseteq PullRequests
    BY <1>1, <2>2, <2>3 DEF PrTypeOK
  <2>5. since' \in Nat /\ bad' \in Nat
    BY <1>1, <1>3, <2>2 DEF PrTypeOK
  <2>6. /\ page' \in 1..MaxPages /\ attempt' \in Nat
        /\ got' \subseteq PrItems /\ listings' \in Nat
        /\ wanted' \subseteq PullRequests /\ moved' \subseteq PullRequests
        /\ reopened' \in BOOLEAN /\ truncated' \in BOOLEAN
    BY <1>1, <2>1 DEF PrTypeOK
  <2>7. at' \in {"idle", "ask", "work"} /\ at' # "ask"
    BY <2>1
  <2> QED BY <2>1, <2>4, <2>5, <2>6, <2>7, ListStep
<1> QED BY <1>4, <1>5

LEMMA PrInvKept ==
    ASSUME PrInv, [PrNext]_prVars
    PROVE  PrInv'
<1>1. ASSUME NEW p \in PullRequests, Close(p) \/ Comment(p) \/ Reopen(p)
      PROVE  PrInv'
  BY <1>1, PeopleStep
<1>2. CASE StartListing
  BY <1>2, StartListingStep
<1>3. CASE Busy \/ TurnedDown
  BY <1>3, BadAnswerStep
<1>4. CASE GetPage
  BY <1>4, GetPageStep
<1>5. CASE ListDone \/ \E x \in got : SkipItem(x) \/ ReplayItem(x) \/ ItemFails(x)
  BY <1>5, WorkStep
<1>6. CASE UNCHANGED prVars
  <2>1. UNCHANGED <<closed, updated, mergedAt, replayed, since, at, page, attempt,
                    got, wanted, moved, reopened, truncated, moves, bad, listings>>
    BY <1>6 DEF prVars
  <2>2. PrTypeOK'
    BY <2>1 DEF PrInv, PrTypeOK
  <2>3. MergedOK' /\ ClockOK' /\ WantedOK'
    BY <2>1 DEF PrInv, MergedOK, ClockOK, WantedOK
  <2>4. BehindOK'
    <3>1. \A p : Rank(p)' = Rank(p)
      BY <2>1, RankKept
    <3> QED BY <2>1, <3>1 DEF PrInv, BehindOK
  <2> QED BY <2>2, <2>3, <2>4 DEF PrInv
<1> QED BY <1>1, <1>2, <1>3, <1>4, <1>5, <1>6 DEF PrNext

\* The last page answered completes the list.
LEMMA LastPageCompletes ==
    ASSUME PrInv, [PrNext]_prVars, at = "ask", at' = "work", ~reopened, ~truncated'
    PROVE  wanted \ moved \subseteq {x.pr : x \in got'}
<1>1. PrTypeOK
  BY DEF PrInv
<1>2. GetPage /\ ~GoesOn(page)
  <2>1. ASSUME NEW p, Close(p) \/ Comment(p) \/ Reopen(p) PROVE FALSE
    BY <2>1 DEF Close, Comment, Reopen, Touch, listing
  <2>2. ~StartListing /\ ~Busy /\ ~TurnedDown
    BY DEF StartListing, Busy, TurnedDown
  <2>3. ~ListDone /\ ~\E x \in got : SkipItem(x) \/ ReplayItem(x) \/ ItemFails(x)
    BY DEF ListDone, SkipItem, ReplayItem, ItemFails, IsNext
  <2>4. GetPage
    BY <2>1, <2>2, <2>3 DEF PrNext, prVars
  <2>5. ~GoesOn(page)
    BY <2>4 DEF GetPage
  <2> QED BY <2>4, <2>5
<1>3. /\ got' = MergedItems(got \cup Items(page))
      /\ ~(LinksNext(page) /\ page = MaxPages)
  BY <1>2 DEF GetPage
<1>4. ~LinksNext(page)
  <2>1. page \in 1..MaxPages /\ MaxPages \in Nat
    BY <1>1, PrListingAssumption DEF PrTypeOK
  <2>2. ~LinksNext(page) \/ ~(page < MaxPages)
    BY <1>2 DEF GoesOn
  <2> QED BY <1>3, <2>1, <2>2
<1> SUFFICES ASSUME NEW p \in wanted, p \notin moved
             PROVE  \E x \in got' : x.pr = p
  OBVIOUS
<1>5. p \in PullRequests /\ mergedAt[p] > since /\ since \in Nat
        /\ mergedAt[p] \in Nat
  BY DEF PrInv, PrTypeOK, WantedOK
<1>6. p \in closed
  BY <1>5 DEF PrInv, MergedOK
<1>7. Rank(p) < Cardinality(closed) /\ Rank(p) \in Nat /\ Cardinality(closed) \in Nat
  BY <1>1, <1>6, RankBelow, RankType, PrFinite DEF PrTypeOK
<1>8. PICK n \in Nat : n = page * PageSize
  BY <1>1, PrListingAssumption DEF PrTypeOK
<1>9. ~(page * PageSize <= Rank(p))
  <2>1. ~(Cardinality(closed) > n)
    BY <1>4, <1>8 DEF LinksNext
  <2> QED BY <1>7, <1>8, <2>1
<1>10. \/ \E x \in got : x.pr = p
       \/ (page - 1) * PageSize <= Rank(p)
  BY DEF PrInv, BehindOK
<1>11. \E x \in got \cup Items(page) : x.pr = p
  BY <1>9, <1>10, OnThePage
<1> QED BY <1>3, <1>5, <1>11 DEF MergedItems, MergedAfter

\* The listing keeps its type through whatever GitHub answers and people do.
THEOREM PrTypeCorrect == PrSpec => []PrTypeOK
<1>1. PrInv => PrTypeOK
  BY DEF PrInv
<1> QED BY <1>1, PrInvStarts, PrInvKept, PTL DEF PrSpec

\* Page by page, with people closing, merging and commenting between two
\* pages, a listing finds every pull request that was merged when it began and
\* was not touched since, unless one was reopened or the page limit reached.
THEOREM MergedAreListed == PrSpec => ListedUnlessMoved
<1>1. PrInv /\ [PrNext]_prVars =>
        [at = "ask" /\ at' = "work" =>
            reopened \/ truncated' \/ wanted \ moved \subseteq {x.pr : x \in got'}]_prVars
  BY LastPageCompletes
<1> QED BY <1>1, PrInvStarts, PrInvKept, PTL DEF PrSpec, ListedUnlessMoved
=============================================================================

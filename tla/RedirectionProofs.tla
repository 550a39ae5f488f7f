-------------------------- MODULE RedirectionProofs --------------------------
(***************************************************************************)
(* Proofs about a session, for every environment, order of its variables,  *)
(* choice of ports, set of calls, hosts and rival recordings: cached       *)
(* certificates verify, whatever openssl fails at and whoever is killed,   *)
(* usual calls are captured, addresses lead to the servers they led to,    *)
(* and every variable keeps its type.                                      *)
(***************************************************************************)
EXTENDS Redirection, TLAPS, FiniteSetTheorems, WellFoundedInduction

-----------------------------------------------------------------------------
(***************************************************************************)
(* Certificates: CertificateAuthority.                                     *)
(***************************************************************************)

Leaf == [key : Nat, signer : Nat]

Stage == {"off", "ready"} \union Making

CertificateType ==
    /\ keys \in Nat /\ caKey \in Nat /\ caCrt \in Nat
    /\ leafKey \in [SafeHost -> Nat]
    /\ leafCsr \in [SafeHost -> Nat]
    /\ leafCrt \in [SafeHost -> Leaf]
    /\ at \in [Session -> [stage : Stage, host : SafeHost \union {NoHost}]]
    /\ trusted \in [Session -> Nat]
    /\ leafCache \in [Session -> [SafeHost -> [key : Nat, crt : Leaf]]]
    /\ contended \in BOOLEAN

AtTheCa(s) == at[s].stage \in {"ca.key", "ca.crt"}

AtALeaf(s) == at[s].stage \in {"key", "csr", "crt", "read"}

\* What a session is making: the CA has no host, and a leaf needs an app that trusts.
Places ==
    \A s \in Session :
        /\ AtTheCa(s) => at[s].host = NoHost
        /\ AtALeaf(s) => at[s].host \in SafeHost /\ trusted[s] # NoFile
        /\ trusted[s] = NoFile => \A host \in SafeHost : leafCache[s][host] = NotCached

\* The CA: a certificate that is there goes with the key, and nobody makes another.
CaAgrees ==
    /\ caCrt # NoFile => caKey = caCrt
    /\ \A s \in Session : /\ AtTheCa(s) => caCrt = NoFile
                          /\ trusted[s] \in {NoFile, caCrt}

\* A leaf under way: the files written so far belong together.
LeavesAgree ==
    \A s \in Session :
        LET host == at[s].host
        IN  /\ at[s].stage = "crt" => leafCsr[host] = leafKey[host]
            /\ at[s].stage = "read" => leafCrt[host] = [key |-> leafKey[host], signer |-> caKey]

\* What is in a cache is right.
CachesAgree ==
    \A s \in Session, host \in SafeHost :
        LET leaf == leafCache[s][host]
        IN  leaf # NotCached => leaf.key = leaf.crt.key /\ leaf.crt.signer = trusted[s]

Uncontended == ~ Contention(at) /\ CaAgrees /\ LeavesAgree /\ CachesAgree

CertificateInv == CertificateType /\ Places /\ (contended \/ Uncontended)

-----------------------------------------------------------------------------

LEMMA CertificateInitial ==
    CertificateInit => CertificateInv
<1> SUFFICES ASSUME CertificateInit PROVE CertificateInv
    OBVIOUS
<1> USE DEF NoFile, Making
<1>1. NoLeaf \in Leaf /\ NotCached \in [key : Nat, crt : Leaf]
    BY DEF NoLeaf, Leaf, NotCached
<1>2. \A s \in Session : at[s] = [stage |-> "off", host |-> NoHost] /\ trusted[s] = NoFile
    BY DEF CertificateInit
<1>3. CertificateType
    BY <1>1 DEF CertificateInit, CertificateType, Stage
<1>4. Places
    BY <1>2 DEF CertificateInit, Places, AtTheCa, AtALeaf
<1>5. Uncontended
    BY <1>2 DEF CertificateInit, Uncontended, Contention, CaAgrees, LeavesAgree, CachesAgree,
               AtTheCa
<1> QED
    BY <1>3, <1>4, <1>5 DEF CertificateInv

LEMMA CertificateImplies ==
    CertificateInv => LeavesVerify
BY DEF CertificateInv, Uncontended, CachesAgree, LeavesVerify

LEMMA CertificateStutter ==
    CertificateInv /\ UNCHANGED certificateVars => CertificateInv'
BY DEF CertificateInv, CertificateType, Places, Uncontended, CaAgrees, LeavesAgree,
       CachesAgree, Contention, AtTheCa, AtALeaf, certificateVars, files

-----------------------------------------------------------------------------
(***************************************************************************)
(* One step of one session.  Moving is all of Go; a step that is not       *)
(* contended came from a state that was not.                               *)
(***************************************************************************)

LEMMA Moves ==
    ASSUME CertificateType, NEW s \in Session, NEW stage \in Stage,
           NEW host \in SafeHost \union {NoHost}, Go(s, stage, host)
    PROVE  /\ at' \in [Session -> [stage : Stage, host : SafeHost \union {NoHost}]]
           /\ contended' \in BOOLEAN
           /\ at'[s] = [stage |-> stage, host |-> host]
           /\ \A r \in Session : r # s => at'[r] = at[r]
           /\ ~ contended' => ~ contended /\ ~ Contention(at')
<1>1. at' = [at EXCEPT ![s] = [stage |-> stage, host |-> host]]
      /\ contended' = (contended \/ Contention(at'))
    BY DEF Go
<1>2. Contention(at') \in BOOLEAN
    BY DEF Contention
<1> QED
    BY <1>1, <1>2 DEF CertificateType

\* Of two sessions, at most one makes the CA, or the certificate of a host.
LEMMA Alone ==
    ASSUME ~ Contention(at), NEW r \in Session, NEW s \in Session, r # s,
           at[r].stage \in Making, at[s].stage \in Making
    PROVE  at[r].host # at[s].host
BY DEF Contention

LEMMA EnsureStep ==
    ASSUME CertificateInv, NEW s \in Session, Ensure(s)
    PROVE  CertificateInv'
<1> USE CertificateAssumption DEF CertificateInv, Stage, Making, NoFile
<1>1. CASE ensureCertificateAuthority(s)
    <2> DEFINE stage == IF caKey = NoFile \/ caCrt = NoFile THEN "ca.key" ELSE "ready"
    <2>1. Go(s, stage, NoHost) /\ at[s].stage = "off" /\ stage \in Stage
          /\ UNCHANGED <<files, trusted, leafCache>>
        BY <1>1 DEF ensureCertificateAuthority
    <2> HIDE DEF stage
    <2>2. /\ CertificateType' /\ at'[s] = [stage |-> stage, host |-> NoHost]
          /\ \A r \in Session : r # s => at'[r] = at[r]
          /\ ~ contended' => ~ contended /\ ~ Contention(at')
        BY <2>1, Moves DEF CertificateType, files
    <2>3. stage \in {"ca.key", "ready"} /\ (stage = "ca.key" => caKey = NoFile \/ caCrt = NoFile)
        BY DEF stage
    <2>4. Places'
        BY <2>1, <2>2, <2>3 DEF Places, AtTheCa, AtALeaf, files
    <2>5. ASSUME ~ contended' PROVE Uncontended'
        <3>1. Uncontended /\ ~ Contention(at')
            BY <2>2, <2>5
        <3>2. stage = "ca.key" => caCrt = NoFile
            BY <2>3, <3>1 DEF Uncontended, CaAgrees
        <3>3. CaAgrees'
            BY <2>1, <2>2, <2>3, <3>1, <3>2 DEF Uncontended, CaAgrees, AtTheCa, files
        <3>4. LeavesAgree' /\ CachesAgree'
            BY <2>1, <2>2, <2>3, <3>1 DEF Uncontended, LeavesAgree, CachesAgree, files
        <3> QED
            BY <3>1, <3>3, <3>4 DEF Uncontended, Contention
    <2> QED
        BY <2>2, <2>4, <2>5
<1>2. CASE GenerateCaKey(s)
    <2>1. /\ Go(s, "ca.crt", NoHost) /\ at[s].stage = "ca.key"
          /\ keys' = keys + 1 /\ caKey' = keys'
          /\ UNCHANGED <<caCrt, leafKey, leafCsr, leafCrt, trusted, leafCache>>
        BY <1>2 DEF GenerateCaKey
    <2>2. /\ CertificateType' /\ at'[s] = [stage |-> "ca.crt", host |-> NoHost]
          /\ \A r \in Session : r # s => at'[r] = at[r]
          /\ ~ contended' => ~ contended /\ ~ Contention(at')
        BY <2>1, Moves DEF CertificateType
    <2>3. Places'
        BY <2>1, <2>2 DEF Places, AtTheCa, AtALeaf
    <2>4. ASSUME ~ contended' PROVE Uncontended'
        <3>1. Uncontended /\ ~ Contention(at') /\ AtTheCa(s)
            BY <2>1, <2>2, <2>4 DEF AtTheCa
        <3>2. caCrt = NoFile
            BY <3>1 DEF Uncontended, CaAgrees
        <3>3. CaAgrees'
            BY <2>1, <2>2, <3>1, <3>2 DEF Uncontended, CaAgrees, AtTheCa
        <3>4. \A r \in Session : at[r].stage # "read"
            BY <3>1, <3>2 DEF Uncontended, CaAgrees, Places, AtALeaf
        <3>5. LeavesAgree'
            <4>1. \A r \in Session : at'[r].stage # "read" /\ (at'[r].stage = "crt" => at'[r] = at[r])
                BY <2>2, <3>4
            <4>2. leafCsr' = leafCsr /\ leafKey' = leafKey
                BY <2>1
            <4> QED
                BY <3>1, <4>1, <4>2 DEF Uncontended, LeavesAgree
        <3>6. CachesAgree'
            BY <2>1, <3>1 DEF Uncontended, CachesAgree
        <3> QED
            BY <3>1, <3>3, <3>5, <3>6 DEF Uncontended
    <2> QED
        BY <2>2, <2>3, <2>4
<1>3. CASE SignCaCertificate(s)
    <2>1. /\ Go(s, "ready", NoHost) /\ at[s].stage = "ca.crt" /\ caCrt' = caKey
          /\ UNCHANGED <<keys, caKey, leafKey, leafCsr, leafCrt, trusted, leafCache>>
        BY <1>3 DEF SignCaCertificate
    <2>2. /\ CertificateType' /\ at'[s] = [stage |-> "ready", host |-> NoHost]
          /\ \A r \in Session : r # s => at'[r] = at[r]
          /\ ~ contended' => ~ contended /\ ~ Contention(at')
        BY <2>1, Moves DEF CertificateType
    <2>3. Places'
        BY <2>1, <2>2 DEF Places, AtTheCa, AtALeaf
    <2>4. ASSUME ~ contended' PROVE Uncontended'
        <3>1. Uncontended /\ ~ Contention(at') /\ AtTheCa(s)
            BY <2>1, <2>2, <2>4 DEF AtTheCa
        <3>2. caCrt = NoFile /\ \A r \in Session : trusted[r] = NoFile
            BY <3>1 DEF Uncontended, CaAgrees
        <3>3. \A r \in Session : r # s => ~ AtTheCa(r)
            BY <2>1, <3>1, Alone DEF Uncontended, Places, AtTheCa
        <3>4. CaAgrees'
            BY <2>1, <2>2, <3>1, <3>2, <3>3 DEF Uncontended, CaAgrees, AtTheCa
        <3>5. LeavesAgree' /\ CachesAgree'
            BY <2>1, <2>2, <3>1 DEF Uncontended, LeavesAgree, CachesAgree
        <3> QED
            BY <3>1, <3>4, <3>5 DEF Uncontended, Contention
    <2> QED
        BY <2>2, <2>3, <2>4
<1> QED
    BY <1>1, <1>2, <1>3 DEF Ensure

LEMMA TrustStep ==
    ASSUME CertificateInv, NEW s \in Session, Trust(s)
    PROVE  CertificateInv'
<1> USE DEF CertificateInv, Trust, NoFile
<1>1. CertificateType' /\ UNCHANGED <<files, at, leafCache, contended>>
      /\ trusted' = [trusted EXCEPT ![s] = caCrt] /\ trusted[s] = NoFile /\ caCrt # NoFile
    BY DEF CertificateType, files
<1>2. \A r \in Session : trusted'[r] = IF r = s THEN caCrt ELSE trusted[r]
    BY <1>1 DEF CertificateType
<1>3. Places'
    BY <1>1, <1>2 DEF Places, AtTheCa, AtALeaf
<1>4. ASSUME ~ contended' PROVE Uncontended'
    <2>1. Uncontended /\ UNCHANGED <<caKey, caCrt, leafKey, leafCsr, leafCrt, at, leafCache>>
        BY <1>1, <1>4 DEF files
    <2>2. CaAgrees'
        BY <1>2, <2>1 DEF Uncontended, CaAgrees, AtTheCa
    <2>3. LeavesAgree' /\ ~ Contention(at')
        BY <2>1 DEF Uncontended, LeavesAgree
    <2>4. CachesAgree'
        BY <1>1, <1>2, <2>1 DEF Places, Uncontended, CachesAgree
    <2> QED
        BY <2>2, <2>3, <2>4 DEF Uncontended
<1> QED
    BY <1>1, <1>3, <1>4

LEMMA LeafStep ==
    ASSUME CertificateInv, NEW s \in Session,
           MakeLeaf(s) \/ \E host \in SafeHost : leafCertificateFor(s, host)
    PROVE  CertificateInv'
<1> USE CertificateAssumption DEF CertificateInv, Stage, Making
<1>1. CASE \E host \in SafeHost : leafCertificateFor(s, host)
    <2>1. PICK host \in SafeHost : leafCertificateFor(s, host)
        BY <1>1
    <2>2. Go(s, "key", host) /\ trusted[s] # NoFile /\ UNCHANGED <<files, trusted, leafCache>>
        BY <2>1 DEF leafCertificateFor
    <2>3. /\ CertificateType' /\ at'[s] = [stage |-> "key", host |-> host]
          /\ \A r \in Session : r # s => at'[r] = at[r]
          /\ ~ contended' => ~ contended /\ ~ Contention(at')
        BY <2>2, Moves DEF CertificateType, files
    <2>4. Places'
        BY <2>2, <2>3 DEF Places, AtTheCa, AtALeaf
    <2>5. ASSUME ~ contended' PROVE Uncontended'
        <3>1. Uncontended /\ ~ Contention(at')
            BY <2>3, <2>5
        <3>2. CaAgrees'
            BY <2>2, <2>3, <3>1 DEF Uncontended, CaAgrees, AtTheCa, files
        <3>3. LeavesAgree' /\ CachesAgree'
            BY <2>2, <2>3, <3>1 DEF Uncontended, LeavesAgree, CachesAgree, files
        <3> QED
            BY <3>1, <3>2, <3>3 DEF Uncontended
    <2> QED
        BY <2>3, <2>4, <2>5
<1>2. CASE GenerateLeafKey(s)
    <2> DEFINE here == at[s].host
    <2>1. /\ Go(s, "csr", here) /\ at[s].stage = "key" /\ keys' = keys + 1
          /\ leafKey' = [leafKey EXCEPT ![here] = keys']
          /\ UNCHANGED <<caKey, caCrt, leafCsr, leafCrt, trusted, leafCache>>
        BY <1>2 DEF GenerateLeafKey
    <2>2. here \in SafeHost
        BY <2>1 DEF Places, AtALeaf
    <2>3. /\ CertificateType' /\ at'[s] = [stage |-> "csr", host |-> here]
          /\ \A r \in Session : r # s => at'[r] = at[r]
          /\ ~ contended' => ~ contended /\ ~ Contention(at')
        BY <2>1, <2>2, Moves DEF CertificateType
    <2>4. Places'
        BY <2>1, <2>2, <2>3 DEF Places, AtTheCa, AtALeaf
    <2>5. ASSUME ~ contended' PROVE Uncontended'
        <3>1. Uncontended /\ ~ Contention(at')
            BY <2>3, <2>5
        <3>2. CaAgrees'
            BY <2>1, <2>3, <3>1 DEF Uncontended, CaAgrees, AtTheCa
        <3>3. \A r \in Session : r # s /\ at[r].stage \in Making => at[r].host # here
            BY <2>1, <3>1, Alone DEF Uncontended
        <3>4. \A h \in SafeHost : h # here => leafKey'[h] = leafKey[h]
            BY <2>1 DEF CertificateType
        <3>5. LeavesAgree'
            BY <2>1, <2>3, <3>1, <3>3, <3>4 DEF Uncontended, LeavesAgree, Places, AtALeaf
        <3>6. CachesAgree'
            BY <2>1, <3>1 DEF Uncontended, CachesAgree
        <3> QED
            BY <3>1, <3>2, <3>5, <3>6 DEF Uncontended
    <2> QED
        BY <2>3, <2>4, <2>5
<1>3. CASE RequestLeaf(s)
    <2> DEFINE here == at[s].host
    <2>1. /\ Go(s, "crt", here) /\ at[s].stage = "csr"
          /\ leafCsr' = [leafCsr EXCEPT ![here] = leafKey[here]]
          /\ UNCHANGED <<keys, caKey, caCrt, leafKey, leafCrt, trusted, leafCache>>
        BY <1>3 DEF RequestLeaf
    <2>2. here \in SafeHost
        BY <2>1 DEF Places, AtALeaf
    <2>3. /\ CertificateType' /\ at'[s] = [stage |-> "crt", host |-> here]
          /\ \A r \in Session : r # s => at'[r] = at[r]
          /\ ~ contended' => ~ contended /\ ~ Contention(at')
        BY <2>1, <2>2, Moves DEF CertificateType
    <2>4. Places'
        BY <2>1, <2>2, <2>3 DEF Places, AtTheCa, AtALeaf
    <2>5. ASSUME ~ contended' PROVE Uncontended'
        <3>1. Uncontended /\ ~ Contention(at')
            BY <2>3, <2>5
        <3>2. CaAgrees'
            BY <2>1, <2>3, <3>1 DEF Uncontended, CaAgrees, AtTheCa
        <3>3. \A r \in Session : r # s /\ at[r].stage \in Making => at[r].host # here
            BY <2>1, <3>1, Alone DEF Uncontended
        <3>4. leafCsr'[here] = leafKey[here]
              /\ \A h \in SafeHost : h # here => leafCsr'[h] = leafCsr[h]
            BY <2>1, <2>2 DEF CertificateType
        <3>5. LeavesAgree'
            BY <2>1, <2>3, <3>1, <3>3, <3>4 DEF Uncontended, LeavesAgree, Places, AtALeaf
        <3>6. CachesAgree'
            BY <2>1, <3>1 DEF Uncontended, CachesAgree
        <3> QED
            BY <3>1, <3>2, <3>5, <3>6 DEF Uncontended
    <2> QED
        BY <2>3, <2>4, <2>5
<1>4. CASE SignLeaf(s)
    <2> DEFINE here == at[s].host
               leaf == [key |-> leafCsr[here], signer |-> caKey]
    <2>1. /\ Go(s, "read", here) /\ at[s].stage = "crt"
          /\ leafCrt' = [leafCrt EXCEPT ![here] = leaf]
          /\ UNCHANGED <<keys, caKey, caCrt, leafKey, leafCsr, trusted, leafCache>>
        BY <1>4 DEF SignLeaf
    <2>2. here \in SafeHost /\ leaf \in Leaf
        BY <2>1 DEF Places, AtALeaf, CertificateType, Leaf
    <2>3. /\ CertificateType' /\ at'[s] = [stage |-> "read", host |-> here]
          /\ \A r \in Session : r # s => at'[r] = at[r]
          /\ ~ contended' => ~ contended /\ ~ Contention(at')
        BY <2>1, <2>2, Moves DEF CertificateType
    <2>4. Places'
        BY <2>1, <2>2, <2>3 DEF Places, AtTheCa, AtALeaf
    <2>5. ASSUME ~ contended' PROVE Uncontended'
        <3>1. Uncontended /\ ~ Contention(at')
            BY <2>3, <2>5
        <3>2. CaAgrees'
            BY <2>1, <2>3, <3>1 DEF Uncontended, CaAgrees, AtTheCa
        <3>3. \A r \in Session : r # s /\ at[r].stage \in Making => at[r].host # here
            BY <2>1, <3>1, Alone DEF Uncontended
        <3>4. leafCsr[here] = leafKey[here]
            BY <2>1, <3>1 DEF Uncontended, LeavesAgree
        <3>5. leafCrt'[here] = [key |-> leafKey[here], signer |-> caKey]
              /\ \A h \in SafeHost : h # here => leafCrt'[h] = leafCrt[h]
            BY <2>1, <2>2, <3>4 DEF CertificateType
        <3>6. LeavesAgree'
            BY <2>1, <2>3, <3>1, <3>3, <3>5 DEF Uncontended, LeavesAgree, Places, AtALeaf
        <3>7. CachesAgree'
            BY <2>1, <3>1 DEF Uncontended, CachesAgree
        <3> QED
            BY <3>1, <3>2, <3>6, <3>7 DEF Uncontended
    <2> QED
        BY <2>3, <2>4, <2>5
<1>5. CASE ReadLeaf(s)
    <2> DEFINE here == at[s].host
               read == [key |-> leafKey[here], crt |-> leafCrt[here]]
    <2>1. /\ Go(s, "ready", NoHost) /\ at[s].stage = "read"
          /\ leafCache' = [leafCache EXCEPT ![s][here] = read]
          /\ UNCHANGED <<files, trusted>>
        BY <1>5 DEF ReadLeaf
    <2>2. here \in SafeHost /\ read \in [key : Nat, crt : Leaf] /\ trusted[s] # NoFile
        BY <2>1 DEF Places, AtALeaf, CertificateType
    <2>3. /\ CertificateType' /\ at'[s] = [stage |-> "ready", host |-> NoHost]
          /\ \A r \in Session : r # s => at'[r] = at[r]
          /\ ~ contended' => ~ contended /\ ~ Contention(at')
        BY <2>1, <2>2, Moves DEF CertificateType, files
    <2>4. \A r \in Session, h \in SafeHost :
            leafCache'[r][h] = IF r = s /\ h = here THEN read ELSE leafCache[r][h]
        BY <2>1, <2>2 DEF CertificateType
    <2>5. Places'
        BY <2>1, <2>2, <2>3, <2>4 DEF Places, AtTheCa, AtALeaf
    <2>6. ASSUME ~ contended' PROVE Uncontended'
        <3>1. Uncontended /\ ~ Contention(at')
            BY <2>3, <2>6
        <3>2. CaAgrees'
            BY <2>1, <2>3, <3>1 DEF Uncontended, CaAgrees, AtTheCa, files
        <3>3. LeavesAgree'
            BY <2>1, <2>3, <3>1 DEF Uncontended, LeavesAgree, files
        <3>4. trusted[s] = caCrt /\ caKey = caCrt
            BY <2>2, <3>1 DEF Uncontended, CaAgrees
        <3>5. read.key = read.crt.key /\ read.crt.signer = trusted[s]
            <4>1. leafCrt[here] = [key |-> leafKey[here], signer |-> caKey]
                BY <2>1, <3>1 DEF Uncontended, LeavesAgree
            <4> QED
                BY <3>4, <4>1
        <3>6. CachesAgree'
            BY <2>1, <2>4, <3>1, <3>5 DEF Uncontended, CachesAgree
        <3> QED
            BY <3>1, <3>2, <3>3, <3>6 DEF Uncontended
    <2> QED
        BY <2>3, <2>5, <2>6
<1> QED
    BY <1>1, <1>2, <1>3, <1>4, <1>5 DEF MakeLeaf

\* A run of openssl fails, or the session ends: nothing that was being made is used.
LEMMA FailureStep ==
    ASSUME CertificateInv, NEW s \in Session, OpensslFails(s) \/ Ends(s)
    PROVE  CertificateInv'
<1> USE CertificateAssumption DEF CertificateInv, Stage, Making
<1>1. CASE OpensslFails(s)
    <2> DEFINE stage == IF at[s].host = NoHost THEN "off" ELSE "ready"
    <2>1. Go(s, stage, NoHost) /\ stage \in {"off", "ready"}
          /\ UNCHANGED <<files, trusted, leafCache>>
        BY <1>1 DEF OpensslFails
    <2> HIDE DEF stage
    <2>2. /\ CertificateType' /\ at'[s] = [stage |-> stage, host |-> NoHost]
          /\ \A r \in Session : r # s => at'[r] = at[r]
          /\ ~ contended' => ~ contended /\ ~ Contention(at')
        BY <2>1, Moves DEF CertificateType, files
    <2>3. Places'
        BY <2>1, <2>2 DEF Places, AtTheCa, AtALeaf
    <2>4. ASSUME ~ contended' PROVE Uncontended'
        <3>1. Uncontended /\ ~ Contention(at')
            BY <2>2, <2>4
        <3>2. CaAgrees'
            BY <2>1, <2>2, <3>1 DEF Uncontended, CaAgrees, AtTheCa, files
        <3>3. LeavesAgree' /\ CachesAgree'
            BY <2>1, <2>2, <3>1 DEF Uncontended, LeavesAgree, CachesAgree, files
        <3> QED
            BY <3>1, <3>2, <3>3 DEF Uncontended
    <2> QED
        BY <2>2, <2>3, <2>4
<1>2. CASE Ends(s)
    <2>1. /\ Go(s, "off", NoHost) /\ UNCHANGED files
          /\ trusted' = [trusted EXCEPT ![s] = NoFile]
          /\ leafCache' = [leafCache EXCEPT ![s] = [h \in SafeHost |-> NotCached]]
        BY <1>2 DEF Ends
    <2>2. NoFile \in Nat /\ [h \in SafeHost |-> NotCached] \in [SafeHost -> [key : Nat, crt : Leaf]]
        BY DEF NoFile, NotCached, NoLeaf, Leaf
    <2>3. /\ CertificateType' /\ at'[s] = [stage |-> "off", host |-> NoHost]
          /\ \A r \in Session : r # s => at'[r] = at[r]
          /\ ~ contended' => ~ contended /\ ~ Contention(at')
        BY <2>1, <2>2, Moves DEF CertificateType, files
    <2>4. \A r \in Session : /\ trusted'[r] = IF r = s THEN NoFile ELSE trusted[r]
                             /\ r # s => leafCache'[r] = leafCache[r]
                             /\ r = s => \A h \in SafeHost : leafCache'[r][h] = NotCached
        BY <2>1 DEF CertificateType
    <2>5. Places'
        BY <2>1, <2>3, <2>4 DEF Places, AtTheCa, AtALeaf
    <2>6. ASSUME ~ contended' PROVE Uncontended'
        <3>1. Uncontended /\ ~ Contention(at')
            BY <2>3, <2>6
        <3>2. CaAgrees'
            BY <2>1, <2>3, <2>4, <3>1 DEF Uncontended, CaAgrees, AtTheCa, files
        <3>3. LeavesAgree'
            BY <2>1, <2>3, <3>1 DEF Uncontended, LeavesAgree, files
        <3>4. CachesAgree'
            BY <2>4, <3>1 DEF Uncontended, CachesAgree
        <3> QED
            BY <3>1, <3>2, <3>3, <3>4 DEF Uncontended
    <2> QED
        BY <2>3, <2>5, <2>6
<1> QED
    BY <1>1, <1>2

LEMMA RecorderStep ==
    ASSUME CertificateInv, NEW s \in Session, Recorder(s)
    PROVE  CertificateInv'
BY EnsureStep, TrustStep, LeafStep, FailureStep DEF Recorder

-----------------------------------------------------------------------------

\* certificateAuthority.ts:14-16 and :104-108: whatever failed or was killed, and however
\* sessions take turns, a cached certificate goes with its key and with the CA the app
\* trusts, unless two sessions made the same files at a time.
THEOREM LeavesVerifyHolds ==
    CertificateSpec => []LeavesVerify
<1>1. CertificateInv /\ [\E s \in Session : Recorder(s)]_certificateVars => CertificateInv'
    BY RecorderStep, CertificateStutter
<1> QED
    BY <1>1, CertificateInitial, CertificateImplies, PTL DEF CertificateSpec

-----------------------------------------------------------------------------
(***************************************************************************)
(* Calls: Redirection.                                                     *)
(***************************************************************************)

Underway == {"relay", "connect", "handshake", "request"}

\* The call under way is one of the app's, and the recorder is what it was at the start.
CallType ==
    /\ setup \in Setups
    /\ recorder.authority \in BOOLEAN
    /\ outgoing = [stage |-> outgoing.stage, call |-> outgoing.call,
                   line |-> outgoing.line, result |-> outgoing.result]
    /\ outgoing.stage # "none" => outgoing.call \in setup.calls
    /\ phase = "recording" => app.HTTP_PROXY = recorder.egress

\* What the recorder is asked for is what the app asked for.
OnItsWay ==
    outgoing.stage \in Underway /\ Usual(outgoing.call) =>
        LET to == Destination(outgoing.call)
        IN  /\ outgoing.line = [host |-> Bare(to.name), port |-> to.port]
            /\ outgoing.stage = "relay" <=> ~ to.secure
            /\ outgoing.stage \in {"handshake", "request"} => recorder.authority
            /\ outgoing.stage = "request" => sni = outgoing.line.host

CaptureInv == CertificateInv /\ CallType /\ OnItsWay /\ CallsAreCaptured

-----------------------------------------------------------------------------
(***************************************************************************)
(* Usual calls: the shim asks for the server that Node would have gone to. *)
(***************************************************************************)

LEMMA UsualCalls ==
    ASSUME NEW call, call.secure \in BOOLEAN, call.url # NoUrl => call.url.name # NoHost,
           Usual(call)
    PROVE  /\ Destination(call).name # NoHost /\ Destination(call).name \notin Ipv6
           /\ Destination(call).secure = call.secure
           /\ Destination(call).told.port = Destination(call).port
           /\ Destination(call).port # recorder.egress
           /\ hostOf(toOptions(call)) = Bare(Destination(call).name)
           /\ hostOf(toOptions(call)) # NoText
           /\ OrDefault(toOptions(call).port, DefaultPort(call.secure)) = Destination(call).port
<1> DEFINE name == IF call.hostname # NoHost THEN call.hostname
                ELSE IF call.url # NoUrl THEN call.url.name
                ELSE IF call.host # NoHost THEN call.host ELSE "localhost"
<1>1. Destination(call).name = name /\ Destination(call).secure = call.secure
    BY DEF Destination
<1>2. call.hostname # NoHost \/ call.url # NoUrl \/ call.host # NoHost
    BY DEF Usual
<1>3. name # NoHost
    BY <1>2
<1>4. name \notin Ipv6 /\ Destination(call).told.port = Destination(call).port
      /\ Destination(call).port # recorder.egress
    BY <1>1 DEF Usual
<1>5. \A x, y : Bare(x) = Bare(y) <=> x = y
    BY DEF Bare
<1>6. NoText = Bare(NoHost)
    BY DEF NoText, Bare
<1>7. hostOf(toOptions(call)) = Bare(name)
    <2> DEFINE options == toOptions(call)
    <2>1. CASE call.hostname # NoHost
        <3>1. options.hostname = Bare(call.hostname) /\ name = call.hostname
            BY <2>1 DEF toOptions
        <3> QED
            BY <1>5, <1>6, <2>1, <3>1 DEF hostOf
    <2>2. CASE call.hostname = NoHost /\ call.url # NoUrl
        <3>1. name = call.url.name /\ options.hostname = Hostname(call.url)
            BY <2>2 DEF toOptions
        <3>2. (call.url.name \in Ipv6) = FALSE
            BY <1>4, <3>1
        <3>3. Hostname(call.url) = Bare(name)
            BY <3>1, <3>2 DEF Hostname, Bare
        <3> QED
            BY <1>3, <1>5, <1>6, <3>1, <3>3 DEF hostOf
    <2>3. CASE call.hostname = NoHost /\ call.url = NoUrl
        <3>1. name = call.host /\ options.hostname = NoText /\ options.host = Bare(call.host)
            BY <1>2, <1>6, <2>3 DEF toOptions
        <3> QED
            BY <3>1 DEF hostOf
    <2> QED
        BY <2>1, <2>2, <2>3
<1>8. DefaultPort(call.secure) # NoPort
    BY DEF DefaultPort, NoPort
<1>9. OrDefault(toOptions(call).port, DefaultPort(call.secure)) = Destination(call).port
    BY <1>8 DEF OrDefault, toOptions, Destination
<1> QED
    BY <1>1, <1>3, <1>4, <1>5, <1>6, <1>7, <1>9

LEMMA CallsAreKnown ==
    ASSUME CallType, outgoing.stage # "none"
    PROVE  /\ outgoing.call.secure \in BOOLEAN
           /\ outgoing.call.url # NoUrl => outgoing.call.url.name # NoHost
BY SetupAssumption DEF CallType

-----------------------------------------------------------------------------
(***************************************************************************)
(* What a step does to the call.                                           *)
(***************************************************************************)

LEMMA MovesOn ==
    ASSUME CallType, NEW stage, NEW line, At(stage, line)
    PROVE  /\ outgoing'.stage = stage /\ outgoing'.line = line /\ outgoing'.call = outgoing.call
           /\ outgoing' = [stage |-> outgoing'.stage, call |-> outgoing'.call,
                           line |-> outgoing'.line, result |-> outgoing'.result]
BY DEF CallType, At

\* A call that has an outcome: the outcome must be right.
LEMMA Finishes ==
    ASSUME CallType, NEW result, Done(result),
           UNCHANGED <<recorder, setup, phase, app>>, outgoing.stage # "none",
           result.recorded \in {Nowhere, result.reached},
           Usual(outgoing.call) => Captured(outgoing.call, result), contended => contended'
    PROVE  CallType' /\ OnItsWay' /\ CallsAreCaptured'
<1>1. /\ outgoing'.stage = "done" /\ outgoing'.result = result /\ outgoing'.call = outgoing.call
      /\ outgoing' = [stage |-> outgoing'.stage, call |-> outgoing'.call,
                      line |-> outgoing'.line, result |-> outgoing'.result]
    BY DEF CallType, Done
<1>2. CallType'
    BY <1>1 DEF CallType
<1>3. OnItsWay'
    BY <1>1 DEF OnItsWay, Underway
<1>4. CallsAreCaptured'
    <2>1. Usual(outgoing.call)' => Usual(outgoing.call)
        BY <1>1 DEF Usual
    <2>2. Captured(outgoing.call, result) => Captured(outgoing.call, outgoing.result)'
        BY <1>1 DEF Captured, trustsTheRecorder
    <2> QED
        BY <1>1, <2>1, <2>2 DEF CallsAreCaptured
<1> QED
    BY <1>2, <1>3, <1>4

\* A call that gets further.
LEMMA Continues ==
    ASSUME CallType, NEW stage, NEW line, At(stage, line),
           UNCHANGED <<recorder, setup, phase, app>>, outgoing.stage # "none",
           stage \in Underway,
           Usual(outgoing.call) =>
                LET to == Destination(outgoing.call)
                IN  /\ line = [host |-> Bare(to.name), port |-> to.port]
                    /\ stage = "relay" <=> ~ to.secure
                    /\ stage \in {"handshake", "request"} => recorder.authority
                    /\ stage = "request" => sni = line.host /\ outgoing.line = line
    PROVE  CallType' /\ OnItsWay' /\ CallsAreCaptured'
<1>1. /\ outgoing'.stage = stage /\ outgoing'.line = line /\ outgoing'.call = outgoing.call
      /\ outgoing' = [stage |-> outgoing'.stage, call |-> outgoing'.call,
                      line |-> outgoing'.line, result |-> outgoing'.result]
    BY MovesOn
<1>2. CallType'
    BY <1>1 DEF CallType
<1>3. CallsAreCaptured'
    BY <1>1 DEF CallsAreCaptured, Underway
<1>4. OnItsWay'
    <2>1. Usual(outgoing.call)' => Usual(outgoing.call)
        BY <1>1 DEF Usual
    <2>2. outgoing.line = line => sni' = sni
        BY <1>1 DEF sni
    <2> QED
        BY <1>1, <2>1, <2>2 DEF OnItsWay
<1> QED
    BY <1>2, <1>3, <1>4

\* A step that is not of the call.
LEMMA Elsewhere ==
    ASSUME CallType, OnItsWay, CallsAreCaptured, UNCHANGED <<outgoing, recorder, setup>>,
           phase' = "recording" => app'.HTTP_PROXY = recorder.egress, contended => contended'
    PROVE  CallType' /\ OnItsWay' /\ CallsAreCaptured'
<1>1. CallType'
    BY DEF CallType
<1>2. OnItsWay'
    BY DEF OnItsWay, Usual, sni
<1>3. CallsAreCaptured'
    <2>1. Captured(outgoing.call, outgoing.result) => Captured(outgoing.call, outgoing.result)'
        BY DEF Captured, trustsTheRecorder
    <2> QED
        BY <2>1 DEF CallsAreCaptured, Usual
<1> QED
    BY <1>1, <1>2, <1>3

LEMMA ContendedStays ==
    ASSUME NEW s \in Session, Recorder(s)
    PROVE  contended => contended'
BY DEF Recorder, Ensure, ensureCertificateAuthority, GenerateCaKey, SignCaCertificate, Trust,
       leafCertificateFor, MakeLeaf, GenerateLeafKey, RequestLeaf, SignLeaf, ReadLeaf,
       OpensslFails, Ends, Go

-----------------------------------------------------------------------------
(***************************************************************************)
(* The steps of a call.                                                    *)
(***************************************************************************)

\* In the app.
LEMMA RequestStep ==
    ASSUME CaptureInv, HttpRequest(recorder.egress) \/ HttpsRequest \/ ProxiedRequest,
           UNCHANGED <<recorder, setup, phase, app, certificateVars>>
    PROVE  CallType' /\ OnItsWay' /\ CallsAreCaptured'
<1> DEFINE call == outgoing.call
           options == toOptions(call)
           to == Destination(call)
<1> USE DEF CaptureInv
<1>1. outgoing.stage = "made"
    BY DEF HttpRequest, HttpsRequest, ProxiedRequest
<1>2. call.secure \in BOOLEAN /\ (call.url # NoUrl => call.url.name # NoHost)
    BY <1>1, CallsAreKnown
<1>3. Usual(call) => /\ to.name # NoHost /\ to.name \notin Ipv6 /\ to.secure = call.secure
                     /\ to.port # recorder.egress
                     /\ hostOf(options) = Bare(to.name) /\ hostOf(options) # NoText
                     /\ OrDefault(options.port, DefaultPort(call.secure)) = to.port
    BY <1>2, UsualCalls
<1>4. contended' = contended
    BY DEF certificateVars
<1>5. CASE HttpRequest(recorder.egress)
    <2>1. call.client = "node" /\ call.module = "http"
        BY <1>5 DEF HttpRequest
    <2>2. Usual(call) => ~ call.secure
        BY <1>3, <2>1 DEF Usual
    <2>3. Usual(call) => shouldProxy(call, recorder.egress)
        BY <1>3, <2>2 DEF shouldProxy, DefaultPort
    <2>4. CASE shouldProxy(call, recorder.egress)
        <3> DEFINE line == [host |-> hostOf(options), port |-> OrDefault(options.port, 80)]
        <3>1. At("relay", line)
            BY <1>5, <2>4 DEF HttpRequest
        <3>2. Usual(call) => line = [host |-> Bare(to.name), port |-> to.port] /\ ~ to.secure
            BY <1>3, <2>2 DEF DefaultPort
        <3> HIDE DEF line
        <3> QED
            BY <1>1, <3>1, <3>2, Continues DEF Underway
    <2>5. CASE ~ shouldProxy(call, recorder.egress)
        <3>1. Done(NoResult) \/ Done([NoResult EXCEPT !.reached = to])
            BY <1>5, <2>5 DEF HttpRequest, Direct
        <3>2. NoResult.recorded = Nowhere /\ [NoResult EXCEPT !.reached = to].recorded = Nowhere
            BY DEF NoResult
        <3> QED
            BY <1>1, <1>4, <2>3, <2>5, <3>1, <3>2, Finishes
    <2> QED
        BY <2>4, <2>5
<1>6. CASE HttpsRequest
    <2>1. call.client = "node" /\ call.module = "https"
        BY <1>6 DEF HttpsRequest
    <2>2. Usual(call) => call.secure
        BY <1>3, <2>1 DEF Usual
    <2>3. CASE hostOf(options) = NoText
        <3>1. Done([NoResult EXCEPT !.reached = to])
            BY <1>6, <2>3 DEF HttpsRequest, Direct
        <3>2. [NoResult EXCEPT !.reached = to].recorded = Nowhere
            BY DEF NoResult
        <3> QED
            BY <1>1, <1>3, <1>4, <2>3, <3>1, <3>2, Finishes
    <2>4. CASE hostOf(options) # NoText
        <3> DEFINE line == [host |-> hostOf(options), port |-> OrDefault(options.port, 443)]
        <3>1. At("connect", line)
            BY <1>6, <2>4 DEF HttpsRequest
        <3>2. Usual(call) => line = [host |-> Bare(to.name), port |-> to.port] /\ to.secure
            BY <1>3, <2>2 DEF DefaultPort
        <3> HIDE DEF line
        <3> QED
            BY <1>1, <3>1, <3>2, Continues DEF Underway
    <2> QED
        BY <2>3, <2>4
<1>7. CASE ProxiedRequest
    <2> DEFINE line == [host |-> Hostname(to), port |-> to.port]
    <2>1. At(IF to.secure THEN "connect" ELSE "relay", line)
        BY <1>7 DEF ProxiedRequest
    <2>2. Usual(call) => line = [host |-> Bare(to.name), port |-> to.port]
        <3>1. Usual(call) => (to.name \in Ipv6) = FALSE
            BY <1>3
        <3> QED
            BY <3>1 DEF Hostname, Bare
    <2> HIDE DEF line
    <2> QED
        BY <1>1, <2>1, <2>2, Continues DEF Underway
<1> QED
    BY <1>5, <1>6, <1>7

\* In the egress proxy.
LEMMA EgressStep ==
    ASSUME CaptureInv, Relay \/ Tunnel \/ handleConnect,
           UNCHANGED <<recorder, setup, phase, app, certificateVars>>, outgoing'.stage # "crashed"
    PROVE  CallType' /\ OnItsWay' /\ CallsAreCaptured'
<1> DEFINE call == outgoing.call
           line == outgoing.line
           to == Destination(call)
<1> USE DEF CaptureInv
<1>1. outgoing.stage \in {"relay", "connect"}
    BY DEF Relay, Tunnel, handleConnect
<1>2. contended' = contended
    BY DEF certificateVars
<1>3. call.secure \in BOOLEAN /\ (call.url # NoUrl => call.url.name # NoHost)
    BY <1>1, CallsAreKnown
<1>4. Usual(call) => /\ to.name \notin Ipv6 /\ to.secure = call.secure
    BY <1>3, UsualCalls
<1>5. Usual(call) => /\ line.host.name = to.name /\ line.host.brackets = FALSE
                     /\ line.port = to.port /\ (outgoing.stage = "relay" <=> ~ to.secure)
    BY <1>1 DEF OnItsWay, Underway, Bare
<1>6. to = [secure |-> to.secure, name |-> to.name, port |-> to.port, told |-> to.told]
    BY DEF Destination
<1>7. CASE Relay
    <2> DEFINE target == [secure |-> FALSE, name |-> line.host.name, port |-> line.port,
                          told |-> told]
               result == IF line.host.brackets THEN NoResult
                         ELSE [NoResult EXCEPT !.reached = target, !.recorded = target]
    <2>1. Done(result)
        <3>1. At("crashed", line) => outgoing'.stage = "crashed"
            BY MovesOn
        <3> QED
            BY <1>7, <3>1 DEF Relay
    <2>2. Usual(call) => to.secure = FALSE
        BY <1>3, <1>4, <1>5, <1>7 DEF Relay
    <2>3. Usual(call) => told = to.told
        <3>1. CASE call.client = "node"
            <4>1. Usual(call) => call.header = NoUrl
                BY <1>4, <2>2, <3>1 DEF Usual
            <4>2. call.header = NoUrl => to.told = [name |-> to.name, port |-> to.port]
                BY DEF Destination
            <4> QED
                BY <1>5, <3>1, <4>1, <4>2 DEF told
        <3>2. CASE call.client # "node"
            BY <3>2 DEF told
        <3> QED
            BY <3>1, <3>2
    <2>4. Usual(call) => target = to
        BY <1>5, <1>6, <2>2, <2>3
    <2>5. Usual(call) => result.reached = to /\ result.recorded = to /\ result.reason = "none"
        BY <1>5, <2>4 DEF NoResult
    <2>6. result.recorded \in {Nowhere, result.reached}
        BY DEF NoResult
    <2>7. Usual(call) => Captured(call, result)
        BY <2>5 DEF Captured
    <2> HIDE DEF result
    <2> QED
        BY <1>1, <1>2, <2>1, <2>6, <2>7, Finishes
<1>8. CASE Tunnel
    <2> DEFINE server(name, port) == [to EXCEPT !.name = name, !.port = port]
               reached == IF line.host.brackets THEN Nowhere
                          ELSE IF line.host.name \in Ipv6 THEN server("localhost", 443)
                          ELSE server(line.host.name, line.port)
               result == [NoResult EXCEPT !.reached = reached, !.reason = "opaque",
                                 !.named = IF line.host.name \in Ipv6 THEN NoHost
                                           ELSE line.host.name]
    <2>1. Done(result) /\ ~ recorder.authority /\ outgoing.stage = "connect"
        BY <1>8 DEF Tunnel
    <2>2. Usual(call) => server(line.host.name, line.port) = to
        BY <1>5, <1>6
    <2>3. Usual(call) => reached = to
        BY <1>4, <1>5, <2>2
    <2>4. Usual(call) => result.reached = to /\ result.named = to.name
        BY <1>4, <1>5, <2>3 DEF NoResult
    <2>5. result.recorded = Nowhere /\ result.reason = "opaque"
        BY DEF NoResult
    <2>6. Usual(call) => Captured(call, result)
        BY <1>5, <2>1, <2>4, <2>5 DEF Captured
    <2> HIDE DEF result
    <2> QED
        BY <1>1, <1>2, <2>1, <2>5, <2>6, Finishes
<1>9. CASE handleConnect
    <2>1. At("handshake", line) /\ recorder.authority /\ outgoing.stage = "connect"
        BY <1>9 DEF handleConnect
    <2>2. Usual(call) => line = [host |-> Bare(to.name), port |-> to.port] /\ to.secure
        BY <1>5, <2>1 DEF OnItsWay, Underway
    <2> QED
        BY <1>1, <2>1, <2>2, Continues DEF Underway
<1> QED
    BY <1>7, <1>8, <1>9

\* A call that is not intercepted, and is named.
LEMMA NamedStep ==
    ASSUME CaptureInv, outgoing.stage = "handshake", NEW reason, NotIntercepted(reason),
           UNCHANGED <<recorder, setup, phase, app>>, contended => contended',
           reason \notin {"none", "opaque"},
           reason = "refused" => ~ trustsTheRecorder(outgoing.call) \/ contended
    PROVE  CallType' /\ OnItsWay' /\ CallsAreCaptured'
<1> DEFINE call == outgoing.call
           to == Destination(call)
           name == IF sni = NoText THEN "unknown" ELSE sni.name
           result == [NoResult EXCEPT !.named = name, !.reason = reason]
<1> USE DEF CaptureInv
<1>1. call.secure \in BOOLEAN /\ (call.url # NoUrl => call.url.name # NoHost)
    BY CallsAreKnown
<1>2. Usual(call) => to.name # NoHost /\ to.name \notin Ipv6
    BY <1>1, UsualCalls
<1>3. Usual(call) => outgoing.line.host = Bare(to.name) /\ to.secure /\ recorder.authority
    BY DEF OnItsWay, Underway
<1>4. Bare(to.name).name = to.name
    BY DEF Bare
<1>5. Usual(call) => \/ name = to.name
                     \/ call.client = "other" /\ to.name \in Ipv4 /\ name = "unknown"
    <2>1. CASE call.client = "other" /\ outgoing.line.host.name \in Ipv4 \union Ipv6
        BY <1>2, <1>3, <1>4, <2>1 DEF sni
    <2>2. CASE ~ (call.client = "other" /\ outgoing.line.host.name \in Ipv4 \union Ipv6)
        <3>1. sni = outgoing.line.host
            BY <2>2 DEF sni
        <3>2. to.name # NoHost => Bare(to.name) # NoText
            BY DEF Bare, NoText
        <3> QED
            BY <1>2, <1>3, <1>4, <3>1, <3>2
    <2> QED
        BY <2>1, <2>2
<1>6. Done(result)
    BY DEF NotIntercepted
<1>7. /\ result.recorded = Nowhere /\ result.reached = Nowhere
      /\ result.named = name /\ result.reason = reason
    BY DEF NoResult
<1>8. Usual(call) => Captured(call, result)
    BY <1>3, <1>5, <1>7 DEF Captured
<1> HIDE DEF result
<1> QED
    BY <1>6, <1>7, <1>8, Finishes

\* In the interceptor.
LEMMA HandshakeStep ==
    ASSUME CaptureInv, Handshake \/ NoCertificate \/ CertifyFails \/ Intercepted,
           UNCHANGED <<recorder, setup, phase, app>>, contended => contended'
    PROVE  CallType' /\ OnItsWay' /\ CallsAreCaptured'
<1> DEFINE call == outgoing.call
           line == outgoing.line
           to == Destination(call)
<1> USE DEF CaptureInv
<1>1. CASE NoCertificate
    BY <1>1, NamedStep DEF NoCertificate
<1>2. CASE CertifyFails
    BY <1>2, NamedStep DEF CertifyFails
<1>3. CASE Handshake
    <2> DEFINE leaf == leafCache[This][sni.name]
               verifies == leaf.key = leaf.crt.key /\ leaf.crt.signer = trusted[This]
    <2>1. /\ outgoing.stage = "handshake" /\ ~ sni.brackets /\ sni.name \in SafeHost
          /\ leaf # NotCached
        BY <1>3 DEF Handshake, isSafeHostname
    <2>2. contended \/ verifies
        BY <2>1, CertificateImplies, HostAssumption DEF LeavesVerify
    <2>3. CASE verifies /\ trustsTheRecorder(call)
        <3>1. At("request", line)
            BY <1>3, <2>3 DEF Handshake
        <3>2. sni = line.host
            <4>1. NoText.name = NoHost
                BY DEF NoText
            <4> QED
                BY <2>1, <4>1, CertificateAssumption DEF sni
        <3>3. Usual(call) => /\ line = [host |-> Bare(to.name), port |-> to.port]
                             /\ to.secure /\ recorder.authority
            BY <2>1 DEF OnItsWay, Underway
        <3> QED
            BY <2>1, <3>1, <3>2, <3>3, Continues DEF Underway
    <2>4. CASE ~ (verifies /\ trustsTheRecorder(call))
        <3>1. NotIntercepted("refused")
            BY <1>3, <2>4 DEF Handshake
        <3> QED
            BY <2>1, <2>2, <2>4, <3>1, NamedStep
    <2> QED
        BY <2>3, <2>4
<1>4. CASE Intercepted
    <2> DEFINE result == [NoResult EXCEPT !.reached = targetOf, !.recorded = targetOf]
    <2>1. Done(result) /\ outgoing.stage = "request"
        BY <1>4 DEF Intercepted
    <2>2. call.secure \in BOOLEAN /\ (call.url # NoUrl => call.url.name # NoHost)
        BY <2>1, CallsAreKnown
    <2>3. Usual(call) => to.secure = call.secure /\ to.told.port = to.port
        BY <2>2, UsualCalls
    <2>4. Usual(call) => to.secure = TRUE /\ sni = line.host /\ line.host = Bare(to.name)
        BY <2>1, <2>2, <2>3 DEF OnItsWay, Underway
    <2>5. to = [secure |-> to.secure, name |-> to.name, port |-> to.port, told |-> to.told]
        BY DEF Destination
    <2>6. Usual(call) => targetOf = to
        <3>1. targetOf = [secure |-> TRUE, name |-> sni.name, port |-> to.told.port, told |-> to.told]
            BY DEF targetOf
        <3>2. Bare(to.name).name = to.name
            BY DEF Bare
        <3> QED
            BY <2>3, <2>4, <2>5, <3>1, <3>2
    <2>7. result.reached = targetOf /\ result.recorded = targetOf /\ result.reason = "none"
        BY DEF NoResult
    <2>8. Usual(call) => Captured(call, result)
        BY <2>6, <2>7 DEF Captured
    <2> HIDE DEF result
    <2> QED
        BY <2>1, <2>7, <2>8, Finishes
<1> QED
    BY <1>1, <1>2, <1>3, <1>4

-----------------------------------------------------------------------------
(***************************************************************************)
(* The steps of the session.                                               *)
(***************************************************************************)

\* Whoever takes the step, to the certificates it is one of a recorder's, or nothing.
LEMMA RecordersStep ==
    ASSUME setup \in Setups, [Next]_vars
    PROVE  (\E s \in Session : Recorder(s)) \/ UNCHANGED certificateVars
<1>1. setup.rivals \subseteq Session /\ This \in Session
    BY SetupAssumption, HostAssumption
<1>2. CASE Prepare
    BY <1>1, <1>2 DEF Prepare, Recorder
<1>3. CASE Spawn
    BY <1>1, <1>3 DEF Spawn, Recorder
<1>4. CASE AppExits
    BY <1>1, <1>4 DEF AppExits, Recorder
<1>5. CASE Rival
    BY <1>1, <1>5 DEF Rival
<1>6. CASE Call
    <2>1. SNICallback => \E host \in SafeHost : leafCertificateFor(This, host)
        BY DEF SNICallback, isSafeHostname
    <2> QED
        BY <1>1, <1>6, <2>1 DEF Call, CallStep, NoCertificate, Certify, CertifyFails,
                                Handshake, Recorder
<1>7. CASE Listen \/ ListenFails \/ StartReplay \/ startFor \/ SpawnReplayed
    BY <1>7 DEF Listen, ListenFails, StartReplay, startFor, SpawnReplayed
<1>8. CASE \E variable \in DOMAIN app.connections : Interact(variable)
    BY <1>8 DEF Interact
<1>9. CASE UNCHANGED vars
    BY <1>9 DEF vars
<1> QED
    BY <1>2, <1>3, <1>4, <1>5, <1>6, <1>7, <1>8, <1>9 DEF Next
LEMMA CertificatesStep ==
    ASSUME CertificateInv, setup \in Setups, [Next]_vars
    PROVE  CertificateInv' /\ (contended => contended')
<1>1. CASE \E s \in Session : Recorder(s)
    BY <1>1, RecorderStep, ContendedStays
<1>2. CASE UNCHANGED certificateVars
    BY <1>2, CertificateStutter DEF certificateVars
<1> QED
    BY <1>1, <1>2, RecordersStep

LEMMA CaptureInitial ==
    Init => CaptureInv
<1> SUFFICES ASSUME Init PROVE CaptureInv
    OBVIOUS
<1>1. CertificateInv
    BY CertificateInitial DEF Init
<1>2. outgoing = Idle /\ outgoing.stage = "none" /\ phase = "starting"
    BY DEF Init, Idle
<1>3. CallType
    BY <1>2 DEF Init, Idle, CallType
<1>4. OnItsWay /\ CallsAreCaptured
    BY <1>2 DEF OnItsWay, Underway, CallsAreCaptured
<1> QED
    BY <1>1, <1>3, <1>4 DEF CaptureInv

LEMMA CaptureStep ==
    ASSUME CaptureInv, [Next]_vars
    PROVE  CaptureInv'
<1> USE DEF CaptureInv
<1>1. CertificateInv' /\ (contended => contended')
    BY CertificatesStep DEF CallType
<1>2. CASE Call
    <2>1. UNCHANGED <<recorder, setup, app>> /\ app.HTTP_PROXY = recorder.egress
        BY <1>2 DEF Call, given, CallType
    <2>2. CASE outgoing'.stage = "crashed"
        <3>1. phase' = "crashed"
            BY <1>2, <2>2 DEF Call
        <3>2. Relay
            <4>1. \A call : MakeCall(call) => outgoing'.stage = "made"
                BY DEF MakeCall, Idle
            <4>2. \A stage, line : At(stage, line) => outgoing'.stage = stage
                BY MovesOn
            <4>3. \A result : Done(result) => outgoing'.stage = "done"
                BY DEF Done, CallType
            <4> QED
                BY <1>2, <2>2, <4>1, <4>2, <4>3
                   DEF Call, CallStep, HttpRequest, HttpsRequest, ProxiedRequest, Direct, Tunnel,
                       handleConnect, Intercepted, NoCertificate, SNICallback, Certify,
                       CertifyFails, Handshake, NotIntercepted
        <3>3. At("crashed", outgoing.line)
            BY <2>2, <3>2 DEF Relay, Done, CallType
        <3>4. /\ outgoing'.call = outgoing.call
              /\ outgoing' = [stage |-> outgoing'.stage, call |-> outgoing'.call,
                              line |-> outgoing'.line, result |-> outgoing'.result]
            BY <3>3, MovesOn
        <3>5. outgoing.stage = "relay"
            BY <3>2 DEF Relay
        <3>6. CallType' /\ OnItsWay' /\ CallsAreCaptured'
            BY <2>1, <2>2, <3>1, <3>4, <3>5 DEF CallType, OnItsWay, Underway, CallsAreCaptured
        <3> QED
            BY <1>1, <3>6
    <2>3. CASE outgoing'.stage # "crashed"
        <3>1. UNCHANGED phase
            BY <1>2, <2>3 DEF Call
        <3>2. CASE \E call \in setup.calls : MakeCall(call)
            <4>1. PICK call \in setup.calls : MakeCall(call)
                BY <3>2
            <4>2. outgoing' = [Idle EXCEPT !.stage = "made", !.call = call]
                BY <4>1 DEF MakeCall
            <4>3. outgoing'.stage = "made" /\ outgoing'.call = call
                  /\ outgoing' = [stage |-> outgoing'.stage, call |-> outgoing'.call,
                                  line |-> outgoing'.line, result |-> outgoing'.result]
                BY <4>2 DEF Idle
            <4>4. CallType' /\ OnItsWay' /\ CallsAreCaptured'
                BY <2>1, <3>1, <4>3 DEF CallType, OnItsWay, Underway, CallsAreCaptured
            <4> QED
                BY <1>1, <4>4
        <3>3. CASE CallStep(recorder.egress)
            <4>1. CASE HttpRequest(recorder.egress) \/ HttpsRequest \/ ProxiedRequest
                <5>1. UNCHANGED certificateVars
                    BY <3>3, <4>1 DEF CallStep, HttpRequest, HttpsRequest, ProxiedRequest,
                        Relay, Tunnel, handleConnect, Intercepted, NoCertificate, SNICallback,
                        Certify, CertifyFails, Handshake
                <5> QED
                    BY <1>1, <2>1, <3>1, <4>1, <5>1, RequestStep
            <4>2. CASE Relay \/ Tunnel \/ handleConnect
                <5>1. UNCHANGED certificateVars
                    BY <3>3, <4>2 DEF CallStep, Relay, Tunnel, handleConnect, Intercepted,
                        NoCertificate, SNICallback, Certify, CertifyFails, Handshake
                <5> QED
                    BY <1>1, <2>1, <2>3, <3>1, <4>2, <5>1, EgressStep
            <4>3. CASE Handshake \/ NoCertificate \/ CertifyFails \/ Intercepted
                BY <1>1, <2>1, <3>1, <4>3, HandshakeStep
            <4>4. CASE SNICallback \/ Certify
                <5>1. UNCHANGED outgoing
                    BY <4>4 DEF SNICallback, Certify
                <5>2. phase' = "recording" => app'.HTTP_PROXY = recorder.egress
                    BY <2>1
                <5> QED
                    BY <1>1, <2>1, <5>1, <5>2, Elsewhere
            <4> QED
                BY <3>3, <4>1, <4>2, <4>3, <4>4 DEF CallStep
        <3> QED
            BY <1>2, <2>1, <3>2, <3>3 DEF Call
    <2> QED
        BY <2>2, <2>3
<1>3. CASE Spawn
    <2>1. UNCHANGED <<outgoing, recorder, setup>> /\ app' = childEnvironment
        BY <1>3 DEF Spawn, callVars, given
    <2>2. app'.HTTP_PROXY = recorder.egress
        BY <2>1 DEF childEnvironment
    <2> QED
        BY <1>1, <2>1, <2>2, Elsewhere
<1>4. CASE AppExits
    <2>1. UNCHANGED <<recorder, setup>> /\ phase' = "recorded" /\ outgoing' = Idle
        BY <1>4 DEF AppExits, given
    <2>2. CallType' /\ OnItsWay' /\ CallsAreCaptured'
        BY <2>1 DEF CallType, OnItsWay, Underway, CallsAreCaptured, Idle
    <2> QED
        BY <1>1, <2>2
<1>5. CASE \/ Prepare \/ Listen \/ ListenFails \/ Rival
           \/ StartReplay \/ startFor \/ SpawnReplayed
           \/ \E variable \in DOMAIN app.connections : Interact(variable)
           \/ UNCHANGED vars
    <2>1. UNCHANGED <<outgoing, recorder, setup>>
        BY <1>5 DEF Prepare, Listen, ListenFails, Rival, StartReplay, startFor, SpawnReplayed,
                    Interact, vars, callVars, given
    <2>2. phase' = "recording" => phase = "recording" /\ app' = app
        BY <1>5 DEF Prepare, Listen, ListenFails, Rival, StartReplay, startFor, SpawnReplayed,
                    Interact, vars
    <2>3. phase' = "recording" => app'.HTTP_PROXY = recorder.egress
        BY <2>2 DEF CallType
    <2> QED
        BY <1>1, <2>1, <2>3, Elsewhere
<1> QED
    BY <1>2, <1>3, <1>4, <1>5 DEF Next

-----------------------------------------------------------------------------

\* nodeProxyShim.ts:44-48, egressProxy.ts:10-13 and httpsInterceptor.ts:138-143: every usual
\* call of every app reaches its server and is recorded under its address, or is https
\* and named, whatever else runs on the machine, fails or is killed.
THEOREM CallsAreCapturedHolds ==
    Spec => []CallsAreCaptured
<1>1. CaptureInv => CallsAreCaptured
    BY DEF CaptureInv
<1> QED
    BY <1>1, CaptureInitial, CaptureStep, PTL DEF Spec

-----------------------------------------------------------------------------
(***************************************************************************)
(* Induction over the natural numbers, as a fact about a set of them.      *)
(***************************************************************************)

LEMMA LeastOf ==
    ASSUME NEW T \in SUBSET Nat, T # {}
    PROVE  \E n \in T : \A m \in T : n <= m
<1> DEFINE R == OpToRel(<, Nat)
<1>1. \A m, n \in Nat : <<m, n>> \in R <=> m < n
    BY DEF OpToRel
<1>2. IsWellFoundedOn(R, Nat)
    BY NatLessThanWellFounded
<1> HIDE DEF R
<1>3. \E n \in T : \A m \in T : ~ (<<m, n>> \in R)
    BY <1>2, WFMin, Zenon
<1>4. PICK n \in T : \A m \in T : ~ (<<m, n>> \in R)
    BY <1>3
<1>5. \A m \in T : ~ (m < n)
    BY <1>1, <1>4
<1> QED
    BY <1>5

LEMMA NatBySet ==
    ASSUME NEW S, 0 \in S, \A n \in Nat : n \in S => n + 1 \in S
    PROVE  \A n \in Nat : n \in S
<1> SUFFICES ASSUME Nat \ S # {} PROVE FALSE
    OBVIOUS
<1>1. PICK n \in Nat \ S : \A m \in Nat \ S : n <= m
    BY LeastOf
<1>2. n # 0 /\ n - 1 \in Nat
    OBVIOUS
<1>3. n - 1 \in S
    BY <1>1, <1>2
<1> QED
    BY <1>1, <1>2, <1>3

-----------------------------------------------------------------------------
(***************************************************************************)
(* planRedirects: each variable that is redirected has a dependency, whose *)
(* port counts on from the base port and is the one its address is given.  *)
(***************************************************************************)

Redirectable(base, variable) == variable \in DOMAIN VARIABLE_PROTOCOLS /\ base[variable] # Unparsed

DependencyOf(base, variable, port) ==
    Dependency(variable, base[variable], protocolOf(variable, base[variable]), port)

DependenciesOf(base) ==
    {DependencyOf(base, variable, port) : variable \in DOMAIN base, port \in Nat}

\* The plan when the first n variables have had their turn.
PlannedUpTo(base, basePort, p, n) ==
    /\ p = [env |-> p.env, dependencies |-> p.dependencies, nextPort |-> p.nextPort]
    /\ p.dependencies \in Seq(DependenciesOf(base))
    /\ p.nextPort = basePort + Len(p.dependencies)
    /\ DOMAIN p.env = DOMAIN base
    /\ \A k \in DOMAIN p.dependencies :
        /\ p.dependencies[k].localPort = basePort + k - 1
        /\ \E variable \in DOMAIN base :
                /\ Redirectable(base, variable)
                /\ p.dependencies[k] = DependencyOf(base, variable, basePort + k - 1)
    /\ \A variable \in DOMAIN base :
        IF Redirectable(base, variable) /\ \E k \in 1 .. n : Order[k] = variable
        THEN \E k \in DOMAIN p.dependencies :
                /\ p.dependencies[k] = DependencyOf(base, variable, basePort + k - 1)
                /\ p.env[variable] = Localised(base[variable], basePort + k - 1)
        ELSE p.env[variable] = base[variable]

LEMMA StartOfPlan ==
    ASSUME NEW basePort \in Nat, NEW base
    PROVE  PlannedUpTo(base, basePort,
                       [env |-> base, dependencies |-> <<>>, nextPort |-> basePort], 0)
BY DEF PlannedUpTo

LEMMA TurnOfPlan ==
    ASSUME NEW basePort \in Nat, NEW base, NEW p, NEW n \in Nat, n + 1 \in DOMAIN Order,
           PlannedUpTo(base, basePort, p, n), Order[n + 1] \in DOMAIN base
    PROVE  PlannedUpTo(base, basePort, Planned(p, Order[n + 1]), n + 1)
<1> DEFINE variable == Order[n + 1]
           url == base[variable]
           q == Planned(p, variable)
<1>0. Order \in Seq(Range(Order)) /\ \A j, k \in DOMAIN Order : Order[j] = Order[k] => j = k
    BY EnvironmentAssumption
<1>1. ~ \E k \in 1 .. n : Order[k] = variable
    BY <1>0
<1>2. p.env[variable] = url
    BY <1>1 DEF PlannedUpTo
<1>3. \A v \in DOMAIN base : v # variable =>
        ((\E k \in 1 .. n + 1 : Order[k] = v) <=> (\E k \in 1 .. n : Order[k] = v))
    <2>1. 1 .. n + 1 = (1 .. n) \union {n + 1}
        OBVIOUS
    <2> QED
        BY <2>1
<1>4. CASE ~ Redirectable(base, variable)
    <2>1. q = p
        BY <1>2, <1>4 DEF Planned, Redirectable
    <2> QED
        BY <1>2, <1>3, <1>4, <2>1 DEF PlannedUpTo
<1>5. CASE Redirectable(base, variable)
    <2> DEFINE port == basePort + Len(p.dependencies)
               d == DependencyOf(base, variable, port)
    <2>1. q = [env |-> [p.env EXCEPT ![variable] = Localised(url, port)],
               dependencies |-> Append(p.dependencies, d), nextPort |-> port + 1]
        BY <1>2, <1>5 DEF Planned, Redirectable, DependencyOf, PlannedUpTo
    <2>2. PICK l \in Nat : l = Len(p.dependencies)
        BY DEF PlannedUpTo
    <2>3. d \in DependenciesOf(base) /\ d.localPort = port
        BY <2>2 DEF DependenciesOf, DependencyOf, Dependency
    <2>4. PICK ds \in Seq(DependenciesOf(base)) : ds = p.dependencies
        BY DEF PlannedUpTo
    <2>5. /\ q.dependencies = Append(ds, d) /\ q.dependencies \in Seq(DependenciesOf(base))
          /\ Len(q.dependencies) = l + 1 /\ DOMAIN q.dependencies = 1 .. l + 1
          /\ q.dependencies[l + 1] = d /\ \A k \in 1 .. l : q.dependencies[k] = ds[k]
          /\ DOMAIN ds = 1 .. l
        <3> HIDE DEF d, q
        <3>1. q.dependencies = Append(ds, d) /\ Len(ds) = l
            BY <2>1, <2>2, <2>4
        <3> QED
            BY <2>2, <2>3, <2>4, <3>1
    <2>6. /\ q.env = [v \in DOMAIN base |-> IF v = variable THEN Localised(url, port) ELSE p.env[v]]
          /\ q.nextPort = port + 1
        <3>1. DOMAIN p.env = DOMAIN base
            BY DEF PlannedUpTo
        <3> HIDE DEF q, port, url, variable
        <3>2. q.env = [p.env EXCEPT ![variable] = Localised(url, port)] /\ q.nextPort = port + 1
            BY <2>1
        <3> QED
            BY <3>1, <3>2
    <2>7. port = basePort + l /\ basePort + (l + 1) - 1 = port
        BY <2>2
    <2>8. q = [env |-> q.env, dependencies |-> q.dependencies, nextPort |-> q.nextPort]
        BY <2>1
    <2> HIDE DEF d, q, port
    <2>9. q.nextPort = basePort + Len(q.dependencies)
        BY <2>2, <2>5, <2>6, <2>7
    <2>10. \A k \in DOMAIN q.dependencies :
            /\ q.dependencies[k].localPort = basePort + k - 1
            /\ \E v \in DOMAIN base :
                    /\ Redirectable(base, v)
                    /\ q.dependencies[k] = DependencyOf(base, v, basePort + k - 1)
        <3> SUFFICES ASSUME NEW k \in 1 .. l + 1
                     PROVE  /\ q.dependencies[k].localPort = basePort + k - 1
                            /\ \E v \in DOMAIN base :
                                /\ Redirectable(base, v)
                                /\ q.dependencies[k] = DependencyOf(base, v, basePort + k - 1)
            BY <2>5
        <3>1. CASE k \in 1 .. l
            BY <2>4, <2>5, <3>1 DEF PlannedUpTo
        <3>2. CASE k = l + 1
            BY <1>5, <2>3, <2>5, <2>7, <3>2 DEF d
        <3> QED
            BY <2>2, <3>1, <3>2
    <2>11. ASSUME NEW v \in DOMAIN base
           PROVE IF Redirectable(base, v) /\ \E k \in 1 .. n + 1 : Order[k] = v
                 THEN \E k \in DOMAIN q.dependencies :
                        /\ q.dependencies[k] = DependencyOf(base, v, basePort + k - 1)
                        /\ q.env[v] = Localised(base[v], basePort + k - 1)
                 ELSE q.env[v] = base[v]
        <3>1. CASE v = variable
            <4>1. q.dependencies[l + 1] = DependencyOf(base, v, basePort + (l + 1) - 1)
                BY <2>5, <2>7, <3>1 DEF d
            <4>2. q.env[v] = Localised(base[v], basePort + (l + 1) - 1)
                BY <2>6, <2>7, <3>1
            <4>3. l + 1 \in DOMAIN q.dependencies
                BY <2>2, <2>5
            <4>4. \E k \in 1 .. n + 1 : Order[k] = v
                BY <3>1
            <4> QED
                BY <1>5, <3>1, <4>1, <4>2, <4>3, <4>4
        <3>2. CASE v # variable
            <4>1. q.env[v] = p.env[v]
                BY <2>6, <3>2
            <4>2. \A k \in DOMAIN ds : k \in DOMAIN q.dependencies /\ q.dependencies[k] = ds[k]
                BY <2>2, <2>5
            <4>3. IF Redirectable(base, v) /\ \E k \in 1 .. n : Order[k] = v
                  THEN \E k \in DOMAIN ds :
                        /\ ds[k] = DependencyOf(base, v, basePort + k - 1)
                        /\ p.env[v] = Localised(base[v], basePort + k - 1)
                  ELSE p.env[v] = base[v]
                <5>1. v \in DOMAIN base /\ ds = p.dependencies
                    BY <2>4
                <5> QED
                    BY <5>1, Zenon DEF PlannedUpTo
            <4>4. (\E k \in 1 .. n : Order[k] = v) <=> \E k \in 1 .. n + 1 : Order[k] = v
                BY <2>4, <3>2
            <4> QED
                BY <4>1, <4>2, <4>3, <4>4
        <3> QED
            BY <3>1, <3>2
    <2>12. DOMAIN q.env = DOMAIN base
        BY <2>6
    <2>13. PlannedUpTo(base, basePort, q, n + 1)
        BY <2>5, <2>8, <2>9, <2>10, <2>11, <2>12 DEF PlannedUpTo
    <2> QED
        BY <2>13 DEF q
<1> QED
    BY <1>4, <1>5

LEMMA SkippedInPlan ==
    ASSUME NEW basePort \in Nat, NEW base, NEW p, NEW n \in Nat, n + 1 \in DOMAIN Order,
           PlannedUpTo(base, basePort, p, n), Order[n + 1] \notin DOMAIN base
    PROVE  PlannedUpTo(base, basePort, p, n + 1)
<1>1. \A v \in DOMAIN base :
        ((\E k \in 1 .. n + 1 : Order[k] = v) <=> (\E k \in 1 .. n : Order[k] = v))
    <2>1. 1 .. n + 1 = (1 .. n) \union {n + 1}
        OBVIOUS
    <2> QED
        BY <2>1
<1> QED
    BY <1>1 DEF PlannedUpTo

LEMMA PlanRedirects ==
    ASSUME NEW basePort \in Nat, NEW base
    PROVE  PlannedUpTo(base, basePort, planRedirects(base, basePort), Len(Order))
<1> DEFINE start == [env |-> base, dependencies |-> <<>>, nextPort |-> basePort]
           turn(p, n) == IF Order[n] \in DOMAIN base THEN Planned(p, Order[n]) ELSE p
           is(f, m) == f = [n \in 0 .. m |-> IF n = 0 THEN start ELSE turn(f[n - 1], n)]
           Reached == {m \in Nat : \E f : is(f, m)}
           L == Len(Order)
<1>0. Order \in Seq(Range(Order)) /\ L \in Nat /\ DOMAIN Order = 1 .. L
    BY EnvironmentAssumption
<1> HIDE DEF start, turn
<1>1. 0 \in Reached
    <2>1. is([n \in 0 .. 0 |-> start], 0)
        OBVIOUS
    <2> QED
        BY <2>1
<1>2. ASSUME NEW m \in Nat, m \in Reached PROVE m + 1 \in Reached
    <2>1. PICK h : is(h, m)
        BY <1>2
    <2> DEFINE g == [n \in 0 .. m + 1 |-> IF n <= m THEN h[n] ELSE turn(h[m], m + 1)]
    <2>2. \A n \in 0 .. m : g[n] = IF n = 0 THEN start ELSE turn(g[n - 1], n)
        BY <2>1
    <2>3. g[m + 1] = turn(g[m], m + 1)
        OBVIOUS
    <2> HIDE DEF g
    <2>4. \A n \in 0 .. m + 1 : g[n] = IF n = 0 THEN start ELSE turn(g[n - 1], n)
        <3> SUFFICES ASSUME NEW n \in 0 .. m + 1
                     PROVE  g[n] = IF n = 0 THEN start ELSE turn(g[n - 1], n)
            OBVIOUS
        <3>1. CASE n \in 0 .. m
            BY <2>2, <3>1
        <3>2. CASE n = m + 1
            <4>1. n # 0 /\ n - 1 = m
                BY <3>2
            <4> QED
                BY <2>3, <3>2, <4>1
        <3> QED
            BY <3>1, <3>2
    <2>5. g = [n \in 0 .. m + 1 |-> g[n]]
        BY DEF g
    <2>6. is(g, m + 1)
        BY <2>4, <2>5
    <2>7. \E f : is(f, m + 1)
        BY <2>6, Zenon
    <2>8. m + 1 \in Nat
        OBVIOUS
    <2> HIDE DEF is
    <2> QED
        BY <2>7, <2>8, Zenon
<1> HIDE DEF Reached
<1>3. L \in Reached
    BY <1>0, <1>1, <1>2, NatBySet
<1> DEFINE after == CHOOSE f : is(f, L)
<1>4. is(after, L)
    BY <1>3 DEF Reached
<1>5. planRedirects(base, basePort) = after[L]
    BY DEF planRedirects, start, turn
<1> HIDE DEF after
<1> DEFINE Good == {n \in Nat : n <= L => PlannedUpTo(base, basePort, after[n], n)}
<1>6. 0 \in Good
    <2>1. after[0] = start
        BY <1>0, <1>4
    <2> QED
        BY <2>1, StartOfPlan DEF start
<1>7. ASSUME NEW n \in Nat, n \in Good PROVE n + 1 \in Good
    <2> SUFFICES ASSUME n + 1 <= L PROVE PlannedUpTo(base, basePort, after[n + 1], n + 1)
        OBVIOUS
    <2>1. n + 1 \in DOMAIN Order /\ PlannedUpTo(base, basePort, after[n], n)
        BY <1>0, <1>7
    <2>2. after[n + 1] = turn(after[n], n + 1)
        BY <1>0, <1>4, <2>1
    <2> QED
        BY <2>1, <2>2, TurnOfPlan, SkippedInPlan DEF turn
<1> HIDE DEF Good
<1>8. L \in Good
    BY <1>0, <1>6, <1>7, NatBySet
<1> QED
    BY <1>0, <1>5, <1>8 DEF Good

-----------------------------------------------------------------------------
(***************************************************************************)
(* The servers of a session: those that are up are the first of the list,  *)
(* each at its own port.                                                   *)
(***************************************************************************)

Serves(now, servers) ==
    LET up == Cardinality(DOMAIN now)
    IN  /\ IsFiniteSet(DOMAIN now) /\ DOMAIN now \subseteq Port
        /\ up \in 0 .. Len(servers)
        /\ DOMAIN now = {servers[k].port : k \in 1 .. up}
        /\ \A k \in 1 .. up : now[servers[k].port] = servers[k].server

LEMMA NobodyServes ==
    ASSUME NEW servers, Len(servers) \in Nat
    PROVE  Serves(<<>>, servers)
<1>1. DOMAIN <<>> = {} /\ Cardinality({}) = 0 /\ IsFiniteSet({})
    BY FS_EmptySet
<1>2. 1 .. 0 = {} /\ 0 \in 0 .. Len(servers)
    OBVIOUS
<1> QED
    BY <1>1, <1>2 DEF Serves

LEMMA OneMoreServes ==
    ASSUME NEW servers, Len(servers) \in Nat, NEW now, Serves(now, servers), NEW after,
           Started(servers, Cardinality(DOMAIN now)), now = listening, after = listening'
    PROVE  Serves(after, servers)
<1> DEFINE up == Cardinality(DOMAIN now)
           next == servers[up + 1]
<1>1. /\ IsFiniteSet(DOMAIN now) /\ DOMAIN now \subseteq Port /\ up \in Nat
      /\ DOMAIN now = {servers[k].port : k \in 1 .. up}
      /\ \A k \in 1 .. up : now[servers[k].port] = servers[k].server
    BY DEF Serves
<1>2. /\ up < Len(servers) /\ next.port \in Port /\ next.port \notin DOMAIN now
      /\ after = [port \in DOMAIN now \union {next.port} |->
                        IF port = next.port THEN next.server ELSE now[port]]
    BY <1>1 DEF Started
<1>3. DOMAIN after = DOMAIN now \union {next.port}
    BY <1>2
<1>4. IsFiniteSet(DOMAIN after) /\ Cardinality(DOMAIN after) = up + 1
    BY <1>1, <1>2, <1>3, FS_AddElement
<1>5. \A k \in 1 .. up : /\ after[servers[k].port] = servers[k].server
                         /\ servers[k].port \in DOMAIN now
    BY <1>1, <1>2
<1>6. after[next.port] = next.server
    BY <1>2
<1> HIDE DEF up
<1>7. 1 .. up + 1 = (1 .. up) \union {up + 1}
    BY <1>1
<1>8. up + 1 \in 0 .. Len(servers)
    BY <1>1, <1>2
<1>9. DOMAIN after = {servers[k].port : k \in 1 .. up + 1}
    BY <1>1, <1>3, <1>7
<1>10. \A k \in 1 .. up + 1 : after[servers[k].port] = servers[k].server
    BY <1>5, <1>6, <1>7
<1>11. DOMAIN after \subseteq Port
    BY <1>1, <1>2, <1>3
<1> QED
    BY <1>4, <1>8, <1>9, <1>10, <1>11 DEF Serves

Ingress ==
    [port |-> listenPort,
     server |-> [proxy |-> "ingress", protocol |-> "http", host |-> Loopback, to |-> appPort]]

Egress ==
    [port |-> recorder.egress,
     server |-> [proxy |-> "egress", protocol |-> "http", host |-> "any", to |-> NoPort]]

LEMMA RecordServersAre ==
    ASSUME NEW S, NEW n \in Nat, plan.dependencies \in Seq(S), Len(plan.dependencies) = n
    PROVE  /\ Len(RecordServers) = n + 2
           /\ \A k \in 1 .. n : RecordServers[k] = DependencyServer(plan.dependencies[k])
           /\ RecordServers[n + 1] = Ingress /\ RecordServers[n + 2] = Egress
<1>1. PICK ds \in Seq(S) : ds = plan.dependencies
    OBVIOUS
<1>2. PICK first : first = [k \in DOMAIN ds |-> DependencyServer(plan.dependencies[k])]
    OBVIOUS
<1> DEFINE T == {DependencyServer(plan.dependencies[k]) : k \in DOMAIN ds} \union {Ingress, Egress}
<1>3. DOMAIN ds = 1 .. n
    BY <1>1
<1>4. first \in Seq(T) /\ Len(first) = n
    BY <1>2, <1>3
<1>5. RecordServers = first \o <<Ingress, Egress>>
    BY <1>1, <1>2 DEF RecordServers, Ingress, Egress
<1>6. Ingress \in T /\ Egress \in T
    OBVIOUS
<1>7. PICK i \in T, e \in T : i = Ingress /\ e = Egress
    BY <1>6
<1> HIDE DEF T
<1>8. PICK servers : servers = first \o <<i, e>>
    OBVIOUS
<1>9. /\ Len(servers) = n + 2 /\ \A k \in 1 .. n : servers[k] = first[k]
      /\ servers[n + 1] = i /\ servers[n + 2] = e
    BY <1>4, <1>8
<1>10. \A k \in 1 .. n : first[k] = DependencyServer(plan.dependencies[k])
    BY <1>2, <1>3
<1> QED
    BY <1>5, <1>7, <1>8, <1>9, <1>10

LEMMA Joined ==
    ASSUME NEW S, NEW a \in Seq(S), NEW b \in Seq(S), NEW l \in Nat, NEW m \in Nat,
           l = Len(a), m = Len(b)
    PROVE  /\ a \o b \in Seq(S) /\ Len(a \o b) = l + m /\ DOMAIN (a \o b) = 1 .. l + m
           /\ \A k \in 1 .. l : (a \o b)[k] = a[k]
           /\ \A k \in 1 .. m : (a \o b)[l + k] = b[k]
OBVIOUS

\* The protocols of a recording, once each.
LEMMA ProtocolsIn ==
    /\ protocolsIn \in Seq(protocols)
    /\ \A p \in protocols \intersect DOMAIN DEFAULT_PORTS :
            \E k \in DOMAIN protocolsIn : protocolsIn[k] = p
<1> DEFINE present(p) == IF p \in protocols THEN <<p>> ELSE <<>>
<1>1. protocolsIn = present("mongodb") \o present("postgres") \o present("redis")
    BY DEF protocolsIn
<1>2. PICK a \in Seq(protocols), b \in Seq(protocols), c \in Seq(protocols) :
        a = present("mongodb") /\ b = present("postgres") /\ c = present("redis")
    <2>1. \A p : present(p) \in Seq(protocols)
        OBVIOUS
    <2> HIDE DEF present
    <2> QED
        BY <2>1
<1>3. \A p : p \in protocols => present(p)[1] = p /\ Len(present(p)) = 1
    OBVIOUS
<1>4. PICK l \in Nat, m \in Nat, n \in Nat : l = Len(a) /\ m = Len(b) /\ n = Len(c)
    OBVIOUS
<1>5. PICK ab \in Seq(protocols) : ab = a \o b
    BY <1>4, Joined
<1>6. PICK s \in Seq(protocols) : s = ab \o c
    <2>1. Len(ab) \in Nat
        OBVIOUS
    <2> QED
        BY <1>4, <2>1, Joined
<1>7. /\ \A k \in 1 .. l : s[k] = a[k]
      /\ \A k \in 1 .. m : s[l + k] = b[k]
      /\ \A k \in 1 .. n : s[l + m + k] = c[k]
      /\ DOMAIN s = 1 .. l + m + n
    <2>1. /\ Len(ab) = l + m
          /\ \A k \in 1 .. l : ab[k] = a[k]
          /\ \A k \in 1 .. m : ab[l + k] = b[k]
        BY <1>4, <1>5, Joined
    <2>2. l + m \in Nat
        OBVIOUS
    <2>3. /\ \A k \in 1 .. l + m : s[k] = ab[k]
          /\ \A k \in 1 .. n : s[l + m + k] = c[k]
          /\ DOMAIN s = 1 .. l + m + n
        <3> DEFINE lm == l + m
        <3>1. lm \in Nat /\ lm = Len(ab)
            BY <2>1
        <3> HIDE DEF lm
        <3>2. /\ \A k \in 1 .. lm : s[k] = ab[k]
              /\ \A k \in 1 .. n : s[lm + k] = c[k]
              /\ DOMAIN s = 1 .. lm + n
            BY <1>4, <1>6, <3>1, Joined
        <3> QED
            BY <3>2 DEF lm
    <2>4. \A k \in 1 .. l : k \in 1 .. l + m
        OBVIOUS
    <2>5. \A k \in 1 .. m : l + k \in 1 .. l + m
        OBVIOUS
    <2> QED
        BY <2>1, <2>3, <2>4, <2>5
<1>8. protocolsIn = s
    BY <1>1, <1>2, <1>5, <1>6
<1> HIDE DEF present
<1>9. ("mongodb" \in protocols => \E k \in DOMAIN s : s[k] = "mongodb")
    <2> SUFFICES ASSUME "mongodb" \in protocols PROVE \E k \in DOMAIN s : s[k] = "mongodb"
        OBVIOUS
    <2>1. a[1] = "mongodb" /\ l = 1
        BY <1>2, <1>3, <1>4
    <2>2. s[1] = "mongodb" /\ 1 \in DOMAIN s
        BY <1>7, <2>1
    <2> QED
        BY <2>2
<1>10. ("postgres" \in protocols => \E k \in DOMAIN s : s[k] = "postgres")
    <2> SUFFICES ASSUME "postgres" \in protocols PROVE \E k \in DOMAIN s : s[k] = "postgres"
        OBVIOUS
    <2>1. b[1] = "postgres" /\ m = 1
        BY <1>2, <1>3, <1>4
    <2>2. s[l + 1] = "postgres" /\ l + 1 \in DOMAIN s
        BY <1>7, <2>1
    <2> QED
        BY <2>2
<1>11. ("redis" \in protocols => \E k \in DOMAIN s : s[k] = "redis")
    <2> SUFFICES ASSUME "redis" \in protocols PROVE \E k \in DOMAIN s : s[k] = "redis"
        OBVIOUS
    <2>1. c[1] = "redis" /\ n = 1
        BY <1>2, <1>3, <1>4
    <2>2. s[l + m + 1] = "redis" /\ l + m + 1 \in DOMAIN s
        BY <1>7, <2>1
    <2> QED
        BY <2>2
<1>12. DOMAIN DEFAULT_PORTS = {"postgres", "redis", "mongodb"}
    BY DEF DEFAULT_PORTS
<1> QED
    BY <1>8, <1>9, <1>10, <1>11, <1>12

LEMMA ReplayServersAre ==
    /\ Len(ReplayServers) \in Nat /\ Len(ReplayServers) = Len(protocolsIn)
    /\ \A k \in DOMAIN protocolsIn :
            /\ ReplayServers[k].port = ReplayPort(protocolsIn[k])
            /\ ReplayServers[k].server = [proxy |-> "replay", protocol |-> protocolsIn[k],
                                          host |-> Loopback, to |-> NoPort]
<1>1. PICK s \in Seq(protocols) : s = protocolsIn
    BY ProtocolsIn
<1>2. DOMAIN s = 1 .. Len(s) /\ Len(s) \in Nat
    OBVIOUS
<1>3. ReplayServers = [k \in 1 .. Len(s) |->
            [port |-> ReplayPort(s[k]),
             server |-> [proxy |-> "replay", protocol |-> s[k], host |-> Loopback, to |-> NoPort]]]
    BY <1>1, <1>2 DEF ReplayServers
<1>4. Len(ReplayServers) = Len(s)
    BY <1>2, <1>3
<1> QED
    BY <1>1, <1>2, <1>3, <1>4

-----------------------------------------------------------------------------
(***************************************************************************)
(* The session: which servers are up, and what the app was told of them.   *)
(***************************************************************************)

\* Which list of servers is being started, or is up.
ServersUp ==
    /\ phase = "starting" => Serves(listening, RecordServers)
    /\ phase = "recording" =>
            Serves(listening, RecordServers) /\ HowMany = Len(RecordServers)
    /\ phase \in {"recorded", "crashed"} => listening = <<>>
    /\ phase = "restarting" => Serves(listening, ReplayServers)
    /\ phase = "replaying" =>
            Serves(listening, ReplayServers) /\ HowMany = Len(ReplayServers)
    /\ phase = "rejected" =>
            Serves(listening, RecordServers) \/ Serves(listening, ReplayServers)

AppTold ==
    /\ phase \in {"starting", "recorded", "restarting", "rejected"} => app = NoApp
    /\ phase \in {"recording", "crashed"} => app = childEnvironment
    /\ phase = "replaying" => app.connections = replayEnvironment

GivenAsPlanned ==
    /\ phase \in {"starting", "recording", "recorded", "restarting", "replaying", "rejected",
                  "crashed"}
    /\ setup \in Setups
    /\ env \in {setup.env, <<>>}
    /\ phase \in {"starting", "recording"} => env = setup.env
    /\ plan = planRedirects(setup.env, DependencyBasePort)
    /\ listenPort \in ListenPorts
    /\ recorder \in [egress : EgressPorts, authority : BOOLEAN, roots : BOOLEAN]
    /\ protocols \subseteq DOMAIN DEFAULT_PORTS
    /\ used \subseteq Range(Order)

SessionInv == GivenAsPlanned /\ ServersUp /\ AppTold

LEMMA PlanIsPlanned ==
    ASSUME GivenAsPlanned
    PROVE  /\ PlannedUpTo(setup.env, DependencyBasePort, plan, Len(Order))
           /\ plan.dependencies \in Seq(DependenciesOf(setup.env))
           /\ Len(plan.dependencies) \in Nat
           /\ Len(RecordServers) = Len(plan.dependencies) + 2
<1>1. DependencyBasePort \in Nat
    <2>1. DependencyBasePort \in Port
        BY ONLY PortAssumption
    <2> QED
        BY ONLY <2>1, SMTT(20) DEF Port
<1>3. PlannedUpTo(setup.env, DependencyBasePort, plan, Len(Order))
    BY <1>1, PlanRedirects DEF GivenAsPlanned
<1>4. plan.dependencies \in Seq(DependenciesOf(setup.env))
    BY <1>3 DEF PlannedUpTo
<1> DEFINE S == DependenciesOf(setup.env)
<1>5. PICK n \in Nat : n = Len(plan.dependencies)
    BY <1>4
<1> HIDE DEF S
<1>6. plan.dependencies \in Seq(S)
    BY <1>4 DEF S
<1>7. Len(RecordServers) = n + 2
    BY <1>5, <1>6, RecordServersAre
<1> QED
    BY <1>3, <1>4, <1>5, <1>7

LEMMA SessionInitial ==
    Init => SessionInv
<1> SUFFICES ASSUME Init PROVE SessionInv
    OBVIOUS
<1>1. GivenAsPlanned
    BY SetupAssumption DEF Init, GivenAsPlanned
<1>2. Len(RecordServers) \in Nat
    BY <1>1, PlanIsPlanned
<1>3. Serves(listening, RecordServers)
    BY <1>2, NobodyServes DEF Init
<1> QED
    BY <1>1, <1>3 DEF Init, SessionInv, ServersUp, AppTold

LEMMA SameServers ==
    ASSUME UNCHANGED <<plan, listenPort, recorder>>
    PROVE  RecordServers' = RecordServers /\ childEnvironment' = childEnvironment
BY DEF RecordServers, DependencyServer, appPort, childEnvironment

LEMMA SameReplayServers ==
    ASSUME UNCHANGED protocols
    PROVE  ReplayServers' = ReplayServers
BY DEF ReplayServers, ReplayPort, protocolsIn

LEMMA SessionStep ==
    ASSUME SessionInv, [Next]_vars
    PROVE  SessionInv'
<1> USE DEF SessionInv
<1>1. CASE Prepare \/ Rival \/ UNCHANGED vars \/ ListenFails
    <2>1. /\ UNCHANGED <<plan, listenPort, recorder, protocols, setup, env, used, listening, app>>
          /\ phase' = phase \/ (phase' = "rejected" /\ phase \in {"starting", "restarting"})
        BY <1>1 DEF Prepare, Rival, ListenFails, vars, given, callVars
    <2>2. RecordServers' = RecordServers /\ childEnvironment' = childEnvironment
          /\ ReplayServers' = ReplayServers
        BY <2>1, SameServers, SameReplayServers
    <2>3. replayEnvironment' = replayEnvironment
        BY <2>1 DEF replayEnvironment, ReplayAddress, ReplayPort, protocolsIn
    <2>4. GivenAsPlanned'
        BY <2>1 DEF GivenAsPlanned
    <2>5. ServersUp'
        BY <2>1, <2>2 DEF ServersUp, HowMany
    <2>6. AppTold'
        BY <2>1, <2>2, <2>3 DEF AppTold, NoApp
    <2> QED
        BY <2>4, <2>5, <2>6
<1>2. CASE Listen
    <2>1. /\ UNCHANGED <<plan, listenPort, recorder, protocols, setup, env, used, phase, app>>
          /\ phase = "starting" /\ Started(RecordServers, HowMany)
        BY <1>2 DEF Listen, given, callVars
    <2>2. PICK servers : servers = RecordServers
        OBVIOUS
    <2>3. RecordServers' = servers /\ Len(servers) \in Nat
        BY <2>1, <2>2, SameServers, PlanIsPlanned
    <2>4. Serves(listening, servers) /\ Started(servers, Cardinality(DOMAIN listening))
        BY <2>1, <2>2 DEF ServersUp, HowMany
    <2>5. PICK now, after : now = listening /\ after = listening'
        OBVIOUS
    <2>6. Serves(after, servers)
        BY <2>3, <2>4, <2>5, OneMoreServes
    <2>7. ServersUp'
        BY <2>1, <2>3, <2>5, <2>6 DEF ServersUp
    <2>8. GivenAsPlanned' /\ AppTold'
        BY <2>1 DEF GivenAsPlanned, AppTold, NoApp
    <2> QED
        BY <2>7, <2>8
<1>3. CASE Spawn
    <2>1. /\ UNCHANGED <<plan, listenPort, recorder, protocols, setup, env, used, listening>>
          /\ phase = "starting" /\ phase' = "recording" /\ app' = childEnvironment
          /\ HowMany = Len(RecordServers)
        BY <1>3 DEF Spawn, given, callVars
    <2>2. RecordServers' = RecordServers /\ childEnvironment' = childEnvironment
        BY <2>1, SameServers
    <2>3. ServersUp'
        BY <2>1, <2>2 DEF ServersUp, HowMany
    <2>4. GivenAsPlanned' /\ AppTold'
        BY <2>1, <2>2 DEF GivenAsPlanned, AppTold
    <2> QED
        BY <2>3, <2>4
<1>4. CASE \E variable \in DOMAIN app.connections : Interact(variable)
    <2>1. PICK variable \in DOMAIN app.connections : Interact(variable)
        BY <1>4
    <2>2. /\ UNCHANGED <<plan, listenPort, recorder, setup, env, phase, app, listening>>
          /\ phase = "recording"
          /\ used' = used \union {variable}
          /\ \E scheme \in DOMAIN SCHEME_PROTOCOLS :
                protocols' = protocols \union {SCHEME_PROTOCOLS[scheme]}
        BY <2>1 DEF Interact, given, callVars
    <2>3. \A scheme \in DOMAIN SCHEME_PROTOCOLS :
            SCHEME_PROTOCOLS[scheme] \in DOMAIN DEFAULT_PORTS
        BY DEF SCHEME_PROTOCOLS, DEFAULT_PORTS
    <2>4. DOMAIN app.connections \subseteq Range(Order)
        <3>1. app.connections = plan.env
            BY <2>2 DEF AppTold, childEnvironment
        <3>2. DOMAIN plan.env = DOMAIN setup.env
            BY PlanIsPlanned DEF PlannedUpTo
        <3> QED
            BY <3>1, <3>2, EnvironmentAssumption DEF GivenAsPlanned
    <2>5. RecordServers' = RecordServers /\ childEnvironment' = childEnvironment
        BY <2>2, SameServers
    <2>6. GivenAsPlanned'
        BY <2>2, <2>3, <2>4 DEF GivenAsPlanned
    <2>7. ServersUp' /\ AppTold'
        BY <2>2, <2>5 DEF ServersUp, AppTold, HowMany
    <2> QED
        BY <2>6, <2>7
<1>5. CASE Call
    <2>1. /\ UNCHANGED <<plan, listenPort, recorder, protocols, setup, env, used, app>>
          /\ phase = "recording"
          /\ \/ phase' = "crashed" /\ listening' = <<>>
             \/ UNCHANGED <<phase, listening>>
        BY <1>5 DEF Call, given
    <2>2. RecordServers' = RecordServers /\ childEnvironment' = childEnvironment
        BY <2>1, SameServers
    <2> QED
        BY <2>1, <2>2 DEF GivenAsPlanned, ServersUp, AppTold, HowMany
<1>6. CASE AppExits
    <2>1. /\ UNCHANGED <<plan, listenPort, recorder, protocols, setup, env, used>>
          /\ phase' = "recorded" /\ listening' = <<>> /\ app' = NoApp
        BY <1>6 DEF AppExits, given
    <2> QED
        BY <2>1 DEF GivenAsPlanned, ServersUp, AppTold, NoApp
<1>7. CASE StartReplay
    <2>1. /\ UNCHANGED <<plan, listenPort, recorder, protocols, setup, used, listening, app>>
          /\ phase = "recorded" /\ phase' = "restarting" /\ env' \in {env, <<>>}
        BY <1>7 DEF StartReplay, given, callVars
    <2>2. ReplayServers' = ReplayServers
        BY <2>1, SameReplayServers
    <2>3. Serves(listening, ReplayServers)
        BY <2>1, NobodyServes, ReplayServersAre DEF ServersUp
    <2> QED
        BY <2>1, <2>2, <2>3 DEF GivenAsPlanned, ServersUp, AppTold, NoApp
<1>8. CASE startFor
    <2>1. /\ UNCHANGED <<plan, listenPort, recorder, protocols, setup, env, used, phase, app>>
          /\ phase = "restarting" /\ Started(ReplayServers, HowMany)
        BY <1>8 DEF startFor, given, callVars
    <2>2. PICK servers : servers = ReplayServers
        OBVIOUS
    <2>3. ReplayServers' = servers /\ Len(servers) \in Nat
        BY <2>1, <2>2, SameReplayServers, ReplayServersAre
    <2>4. Serves(listening, servers) /\ Started(servers, Cardinality(DOMAIN listening))
        BY <2>1, <2>2 DEF ServersUp, HowMany
    <2>5. PICK now, after : now = listening /\ after = listening'
        OBVIOUS
    <2>6. Serves(after, servers)
        BY <2>3, <2>4, <2>5, OneMoreServes
    <2>7. ServersUp'
        BY <2>1, <2>3, <2>5, <2>6 DEF ServersUp
    <2>8. GivenAsPlanned' /\ AppTold'
        BY <2>1 DEF GivenAsPlanned, AppTold, NoApp
    <2> QED
        BY <2>7, <2>8
<1>9. CASE SpawnReplayed
    <2>1. /\ UNCHANGED <<plan, listenPort, recorder, protocols, setup, env, used, listening>>
          /\ phase = "restarting" /\ phase' = "replaying"
          /\ app' = [NoApp EXCEPT !.connections = replayEnvironment]
          /\ HowMany = Len(ReplayServers)
        BY <1>9 DEF SpawnReplayed, given, callVars
    <2>2. ReplayServers' = ReplayServers
        BY <2>1, SameReplayServers
    <2>3. replayEnvironment' = replayEnvironment
        BY <2>1 DEF replayEnvironment, ReplayAddress, ReplayPort, protocolsIn
    <2>4. app'.connections = replayEnvironment
        BY <2>1 DEF NoApp
    <2> QED
        BY <2>1, <2>2, <2>3, <2>4 DEF GivenAsPlanned, ServersUp, AppTold, HowMany
<1> QED
    BY <1>1, <1>2, <1>3, <1>4, <1>5, <1>6, <1>7, <1>8, <1>9 DEF Next

-----------------------------------------------------------------------------
(***************************************************************************)
(* What the app was told is right.                                         *)
(***************************************************************************)

LEMMA DependenciesServe ==
    ASSUME SessionInv, phase = "recording", NEW k \in DOMAIN plan.dependencies
    PROVE  LET port == DependencyBasePort + k - 1
           IN  /\ port \in DOMAIN listening
               /\ listening[port] = DependencyServer(plan.dependencies[k]).server
<1> DEFINE port == DependencyBasePort + k - 1
<1>1. GivenAsPlanned /\ Serves(listening, RecordServers) /\ HowMany = Len(RecordServers)
    BY DEF SessionInv, ServersUp
<1> DEFINE S == DependenciesOf(setup.env)
<1>2. plan.dependencies \in Seq(S) /\ plan.dependencies[k].localPort = port
    BY <1>1, PlanIsPlanned DEF PlannedUpTo
<1> HIDE DEF S
<1>3. PICK n \in Nat : n = Len(plan.dependencies)
    BY <1>2
<1>4. k \in 1 .. n
    BY <1>2, <1>3
<1>5. /\ Len(RecordServers) = n + 2
      /\ RecordServers[k] = DependencyServer(plan.dependencies[k])
    BY <1>2, <1>3, <1>4, RecordServersAre
<1>6. k \in 1 .. Cardinality(DOMAIN listening)
    BY <1>1, <1>4, <1>5 DEF HowMany
<1>7. /\ RecordServers[k].port \in DOMAIN listening
      /\ listening[RecordServers[k].port] = RecordServers[k].server
    BY <1>1, <1>6 DEF Serves
<1>8. RecordServers[k].port = port
    BY <1>2, <1>5 DEF DependencyServer
<1> QED
    BY <1>5, <1>7, <1>8

LEMMA ProxiesServe ==
    ASSUME SessionInv, phase = "recording"
    PROVE  /\ recorder.egress \in DOMAIN listening
           /\ listening[recorder.egress] = Egress.server
           /\ listenPort \in DOMAIN listening
           /\ listening[listenPort] = Ingress.server
<1>1. GivenAsPlanned /\ Serves(listening, RecordServers) /\ HowMany = Len(RecordServers)
    BY DEF SessionInv, ServersUp
<1> DEFINE S == DependenciesOf(setup.env)
<1>2. plan.dependencies \in Seq(S)
    BY <1>1, PlanIsPlanned
<1> HIDE DEF S
<1>3. PICK n \in Nat : n = Len(plan.dependencies)
    BY <1>2
<1>4. /\ Len(RecordServers) = n + 2
      /\ RecordServers[n + 1] = Ingress /\ RecordServers[n + 2] = Egress
    BY <1>2, <1>3, RecordServersAre
<1>5. n + 1 \in 1 .. Cardinality(DOMAIN listening) /\ n + 2 \in 1 .. Cardinality(DOMAIN listening)
    BY <1>1, <1>4 DEF HowMany
<1>6. \A j \in 1 .. Cardinality(DOMAIN listening) :
        /\ RecordServers[j].port \in DOMAIN listening
        /\ listening[RecordServers[j].port] = RecordServers[j].server
    BY <1>1 DEF Serves
<1>7. Ingress.port = listenPort /\ Egress.port = recorder.egress
    BY DEF Ingress, Egress
<1> QED
    BY <1>4, <1>5, <1>6, <1>7

LEMMA RecordedAppIsLed ==
    ASSUME SessionInv, phase = "recording", NEW variable \in DOMAIN env
    PROVE  IF Redirected(variable) THEN LeadsTo(app.connections[variable], env[variable])
           ELSE app.connections[variable] = env[variable]
<1>1. GivenAsPlanned /\ env = setup.env /\ app.connections = plan.env
    BY DEF SessionInv, GivenAsPlanned, AppTold, childEnvironment
<1>2. Order \in Seq(Range(Order)) /\ variable \in Range(Order)
    BY <1>1, EnvironmentAssumption DEF GivenAsPlanned
<1>3. \E k \in 1 .. Len(Order) : Order[k] = variable
    BY <1>2 DEF Range
<1>4. Redirected(variable) <=> Redirectable(setup.env, variable)
    BY <1>1 DEF Redirected, Redirectable
<1>5. CASE ~ Redirected(variable)
    BY <1>1, <1>4, <1>5, PlanIsPlanned DEF PlannedUpTo
<1>6. CASE Redirected(variable)
    <2> DEFINE url == setup.env[variable]
               protocol == protocolOf(variable, url)
               address == app.connections[variable]
    <2>1. PICK k \in DOMAIN plan.dependencies :
            /\ plan.dependencies[k] = DependencyOf(setup.env, variable, DependencyBasePort + k - 1)
            /\ plan.env[variable] = Localised(url, DependencyBasePort + k - 1)
        BY <1>1, <1>3, <1>4, <1>6, PlanIsPlanned DEF PlannedUpTo
    <2>2. PICK port : port = DependencyBasePort + k - 1
        OBVIOUS
    <2>3. DOMAIN url = {"scheme", "host", "port"}
        BY <1>1, <1>6, EnvironmentAssumption DEF GivenAsPlanned, Redirected
    <2>4. address.host = Loopback /\ address.port = port /\ address.scheme = url.scheme
        BY <1>1, <2>1, <2>2, <2>3 DEF Localised
    <2>5. port \in DOMAIN listening
          /\ listening[port] = DependencyServer(plan.dependencies[k]).server
        BY <2>2, DependenciesServe
    <2>6. plan.dependencies[k] =
            [variable |-> variable, protocol |-> protocol, upstreamHost |-> url.host,
             upstreamPort |-> IF url.port # NoPort THEN url.port ELSE DEFAULT_PORTS[protocol],
             localPort |-> port]
        BY <2>1, <2>2 DEF DependencyOf, Dependency
    <2>7. /\ listening[port].host = url.host
          /\ listening[port].protocol = protocol
          /\ listening[port].to = IF url.port # NoPort THEN url.port ELSE DEFAULT_PORTS[protocol]
        BY <2>5, <2>6 DEF DependencyServer
    <2>8. url.scheme \in DOMAIN SCHEME_PROTOCOLS => protocol = SCHEME_PROTOCOLS[url.scheme]
        BY DEF protocolOf
    <2> HIDE DEF url, protocol, address
    <2>9. LeadsTo(address, url)
        BY <2>4, <2>5, <2>7, <2>8 DEF LeadsTo
    <2> QED
        BY <1>1, <1>6, <2>9 DEF url, address
<1> QED
    BY <1>5, <1>6

LEMMA ReplayedAppIsLed ==
    ASSUME SessionInv, phase = "replaying", NEW p \in protocols
    PROVE  LET address == app.connections[PROTOCOL_VARIABLES[p]]
           IN  /\ address.port \in DOMAIN listening
               /\ listening[address.port].protocol = p
               /\ listening[address.port].proxy = "replay"
<1>1. /\ GivenAsPlanned /\ Serves(listening, ReplayServers) /\ HowMany = Len(ReplayServers)
      /\ app.connections = replayEnvironment
    BY DEF SessionInv, ServersUp, AppTold
<1>2. p \in DOMAIN DEFAULT_PORTS
    BY <1>1 DEF GivenAsPlanned
<1>3. VARIABLE_PROTOCOLS[PROTOCOL_VARIABLES[p]] = p
    BY <1>2 DEF VARIABLE_PROTOCOLS, PROTOCOL_VARIABLES, DEFAULT_PORTS
<1>4. app.connections[PROTOCOL_VARIABLES[p]] = ReplayAddress(p)
    BY <1>1, <1>3 DEF replayEnvironment
<1> DEFINE k == CHOOSE j \in DOMAIN protocolsIn : protocolsIn[j] = p
<1>5. k \in DOMAIN protocolsIn /\ protocolsIn[k] = p
    BY <1>2, ProtocolsIn
<1> HIDE DEF k
<1>6. PICK s \in Seq(protocols) : s = protocolsIn
    BY ProtocolsIn
<1>7. k \in 1 .. Cardinality(DOMAIN listening)
    <2>1. Cardinality(DOMAIN listening) = Len(s)
        BY <1>1, <1>6, ReplayServersAre DEF HowMany
    <2> QED
        BY <1>5, <1>6, <2>1
<1>8. /\ ReplayServers[k].port \in DOMAIN listening
      /\ listening[ReplayServers[k].port] = ReplayServers[k].server
    BY <1>1, <1>7 DEF Serves
<1>9. /\ ReplayServers[k].port = ReplayPort(p)
      /\ ReplayServers[k].server = [proxy |-> "replay", protocol |-> p,
                                    host |-> Loopback, to |-> NoPort]
    BY <1>5, ReplayServersAre
<1>10. ReplayAddress(p).port = ReplayPort(p)
    BY DEF ReplayAddress
<1> QED
    BY <1>4, <1>8, <1>9, <1>10

LEMMA SessionImplies ==
    SessionInv => AddressesLeadToServers
<1> SUFFICES ASSUME SessionInv PROVE AddressesLeadToServers
    OBVIOUS
<1>1. ASSUME phase = "recording"
      PROVE  /\ \A variable \in DOMAIN env :
                IF Redirected(variable) THEN LeadsTo(app.connections[variable], env[variable])
                ELSE app.connections[variable] = env[variable]
             /\ listening[app.HTTP_PROXY].proxy = "egress"
             /\ \E port \in DOMAIN listening :
                    listening[port].proxy = "ingress" /\ listening[port].to = app.PORT
    <2>1. app.HTTP_PROXY = recorder.egress /\ app.PORT = appPort
        BY <1>1 DEF SessionInv, AppTold, childEnvironment
    <2>2. Egress.server.proxy = "egress" /\ Ingress.server.proxy = "ingress"
          /\ Ingress.server.to = appPort
        BY DEF Egress, Ingress
    <2> QED
        BY <1>1, <2>1, <2>2, RecordedAppIsLed, ProxiesServe
<1> QED
    BY <1>1, ReplayedAppIsLed DEF AddressesLeadToServers

\* dependencyEnv.ts:4-14 and :65-71, session.ts:102-107: for every environment, order of
\* its variables and choice of ports, a recorded app dials its databases through proxies
\* that are up and lead where its addresses did, and a replayed one dials the server of
\* the protocol.
THEOREM AddressesLeadToServersHold ==
    Spec => []AddressesLeadToServers
BY SessionInitial, SessionStep, SessionImplies, PTL DEF Spec

-----------------------------------------------------------------------------
(***************************************************************************)
(* Types.                                                                  *)
(***************************************************************************)

\* A key pair that is in use has been generated.
KeysGenerated ==
    /\ caKey <= keys /\ caCrt <= keys
    /\ \A s \in Session : trusted[s] <= keys

LEMMA KeysStep ==
    ASSUME CertificateType, KeysGenerated, setup \in Setups, [Next]_vars
    PROVE  KeysGenerated'
<1>1. /\ keys \in Nat /\ caKey \in Nat /\ caCrt \in Nat
      /\ trusted \in [Session -> Nat]
    BY DEF CertificateType
<1>2. ASSUME NEW s \in Session, Recorder(s) PROVE KeysGenerated'
    <2>1. CASE GenerateCaKey(s)
        <3>1. keys' = keys + 1 /\ caKey' = keys' /\ UNCHANGED <<caCrt, trusted>>
            BY <2>1 DEF GenerateCaKey
        <3> QED
            BY <1>1, <3>1 DEF KeysGenerated
    <2>2. CASE GenerateLeafKey(s)
        <3>1. keys' = keys + 1 /\ UNCHANGED <<caKey, caCrt, trusted>>
            BY <2>2 DEF GenerateLeafKey
        <3> QED
            BY <1>1, <3>1 DEF KeysGenerated
    <2>3. CASE SignCaCertificate(s)
        <3>1. caCrt' = caKey /\ UNCHANGED <<keys, caKey, trusted>>
            BY <2>3 DEF SignCaCertificate
        <3> QED
            BY <3>1 DEF KeysGenerated
    <2>4. CASE Trust(s)
        <3>1. trusted' = [trusted EXCEPT ![s] = caCrt] /\ UNCHANGED <<keys, caKey, caCrt>>
            BY <2>4 DEF Trust, files
        <3>2. \A r \in Session : trusted'[r] \in {trusted[r], caCrt}
            BY <1>1, <3>1
        <3> QED
            BY <3>1, <3>2 DEF KeysGenerated
    <2>5. CASE Ends(s)
        <3>1. trusted' = [trusted EXCEPT ![s] = NoFile] /\ UNCHANGED <<keys, caKey, caCrt>>
            BY <2>5 DEF Ends, files
        <3>2. \A r \in Session : trusted'[r] \in {trusted[r], 0}
            BY <1>1, <3>1 DEF NoFile
        <3>3. 0 <= keys
            BY <1>1
        <3> QED
            BY <3>1, <3>2, <3>3 DEF KeysGenerated
    <2>6. CASE \/ ensureCertificateAuthority(s) \/ RequestLeaf(s) \/ SignLeaf(s) \/ ReadLeaf(s)
               \/ \E host \in SafeHost : leafCertificateFor(s, host)
               \/ OpensslFails(s)
        <3>1. UNCHANGED <<keys, caKey, caCrt, trusted>>
            BY <2>6 DEF ensureCertificateAuthority, RequestLeaf, SignLeaf, ReadLeaf,
                        leafCertificateFor, OpensslFails, files
        <3> QED
            BY <3>1 DEF KeysGenerated
    <2> QED
        BY <1>2, <2>1, <2>2, <2>3, <2>4, <2>5, <2>6 DEF Recorder, Ensure, MakeLeaf
<1>3. CASE UNCHANGED certificateVars
    BY <1>3 DEF certificateVars, files, KeysGenerated
<1> QED
    BY <1>2, <1>3, RecordersStep

CallStage == {"made", "relay", "connect", "handshake", "request", "done", "crashed"}

CallTyped ==
    /\ outgoing.stage \in CallStage \union {"none"}
    /\ outgoing.call \in setup.calls \union {NoCall}

LEMMA CallStepIs ==
    ASSUME CallStep(recorder.egress)
    PROVE  \/ UNCHANGED outgoing
           \/ \E stage \in CallStage : \E line : At(stage, line)
           \/ \E result : Done(result)
<1>1. CASE HttpRequest(recorder.egress) \/ HttpsRequest \/ ProxiedRequest
    BY <1>1 DEF HttpRequest, HttpsRequest, ProxiedRequest, Direct, CallStage
<1>2. CASE Relay \/ Tunnel \/ handleConnect \/ Intercepted
    BY <1>2 DEF Relay, Tunnel, handleConnect, Intercepted, CallStage
<1>3. CASE NoCertificate \/ SNICallback \/ Certify \/ CertifyFails \/ Handshake
    BY <1>3 DEF NoCertificate, SNICallback, Certify, CertifyFails, Handshake, NotIntercepted,
                CallStage
<1> QED
    BY <1>1, <1>2, <1>3 DEF CallStep

LEMMA CallTypedStep ==
    ASSUME CallType, CallTyped, [Next]_vars
    PROVE  CallTyped'
<1>1. CASE Call
    <2>1. setup' = setup /\ app.HTTP_PROXY = recorder.egress
        BY <1>1 DEF Call, given, CallType
    <2>2. ASSUME NEW call \in setup.calls, MakeCall(call) PROVE CallTyped'
        <3>1. outgoing'.stage = "made" /\ outgoing'.call = call
            BY <2>2 DEF MakeCall, Idle
        <3> QED
            BY <2>1, <3>1 DEF CallTyped, CallStage
    <2>3. CASE UNCHANGED outgoing
        BY <2>1, <2>3 DEF CallTyped
    <2>4. ASSUME NEW stage \in CallStage, NEW line, At(stage, line) PROVE CallTyped'
        <3>1. outgoing'.stage = stage /\ outgoing'.call = outgoing.call
            BY <2>4, MovesOn
        <3> QED
            BY <2>1, <3>1 DEF CallTyped
    <2>5. ASSUME NEW result, Done(result) PROVE CallTyped'
        <3>1. outgoing'.stage = "done" /\ outgoing'.call = outgoing.call
            BY <2>5 DEF CallType, Done
        <3> QED
            BY <2>1, <3>1 DEF CallTyped, CallStage
    <2> QED
        BY <1>1, <2>1, <2>2, <2>3, <2>4, <2>5, CallStepIs DEF Call
<1>2. CASE AppExits
    <2>1. setup' = setup /\ outgoing'.stage = "none" /\ outgoing'.call = NoCall
        BY <1>2 DEF AppExits, given, Idle
    <2> QED
        BY <2>1 DEF CallTyped
<1>3. CASE \/ Prepare \/ Listen \/ ListenFails \/ Rival \/ Spawn
           \/ StartReplay \/ startFor \/ SpawnReplayed
           \/ \E variable \in DOMAIN app.connections : Interact(variable)
           \/ UNCHANGED vars
    <2>1. UNCHANGED <<outgoing, setup>>
        BY <1>3 DEF Prepare, Listen, ListenFails, Rival, Spawn, StartReplay, startFor,
                    SpawnReplayed, Interact, vars, callVars, given
    <2> QED
        BY <2>1 DEF CallTyped
<1> QED
    BY <1>1, <1>2, <1>3 DEF Next

\* A server that goes somewhere is given a port to go to.
ServerTyped(server) ==
    /\ server.proxy \in {"tcp", "postgresTls", "ingress", "egress", "replay"}
    /\ server.proxy \in {"tcp", "postgresTls", "ingress"} =>
            server.to = appPort \/ server.to \in Port

LEMMA RecordServersTyped ==
    ASSUME GivenAsPlanned, NEW k \in 1 .. Len(RecordServers)
    PROVE  ServerTyped(RecordServers[k].server)
<1> DEFINE S == DependenciesOf(setup.env)
<1>1. plan.dependencies \in Seq(S)
    BY PlanIsPlanned
<1> HIDE DEF S
<1>2. PICK n \in Nat : n = Len(plan.dependencies)
    BY <1>1
<1>3. /\ Len(RecordServers) = n + 2
      /\ \A j \in 1 .. n : RecordServers[j] = DependencyServer(plan.dependencies[j])
      /\ RecordServers[n + 1] = Ingress /\ RecordServers[n + 2] = Egress
    BY <1>1, <1>2, RecordServersAre
<1>4. CASE k \in 1 .. n
    <2>1. k \in DOMAIN plan.dependencies
        BY <1>1, <1>2, <1>4
    <2>2. PICK variable \in DOMAIN setup.env :
            /\ Redirectable(setup.env, variable)
            /\ plan.dependencies[k]
                    = DependencyOf(setup.env, variable, DependencyBasePort + k - 1)
        BY <2>1, PlanIsPlanned DEF PlannedUpTo
    <2> DEFINE url == setup.env[variable]
               protocol == protocolOf(variable, url)
    <2>3. url.port # NoPort => url.port \in Port
        BY <2>2, EnvironmentAssumption DEF GivenAsPlanned, Redirectable
    <2>4. variable \in DOMAIN VARIABLE_PROTOCOLS
        BY <2>2 DEF Redirectable
    <2>5. protocol \in DOMAIN DEFAULT_PORTS
        BY <2>4 DEF protocolOf, DEFAULT_PORTS, VARIABLE_PROTOCOLS, SCHEME_PROTOCOLS
    <2>6. \A p \in DOMAIN DEFAULT_PORTS : DEFAULT_PORTS[p] \in Port
        <3>1. DOMAIN DEFAULT_PORTS = {"postgres", "redis", "mongodb"}
            BY DEF DEFAULT_PORTS
        <3>2. /\ DEFAULT_PORTS["postgres"] = 5432 /\ DEFAULT_PORTS["redis"] = 6379
              /\ DEFAULT_PORTS["mongodb"] = 27017
            BY DEF DEFAULT_PORTS
        <3>3. 5432 \in Port /\ 6379 \in Port /\ 27017 \in Port
            BY DEF Port
        <3> QED
            BY <3>1, <3>2, <3>3
    <2> HIDE DEF protocol, url
    <2>7. plan.dependencies[k].upstreamPort \in Port
        BY <2>2, <2>3, <2>5, <2>6 DEF DependencyOf, Dependency, url, protocol
    <2>8. RecordServers[k].server = DependencyServer(plan.dependencies[k]).server
        BY <1>3, <1>4
    <2>9. /\ RecordServers[k].server.to = plan.dependencies[k].upstreamPort
          /\ RecordServers[k].server.proxy \in {"tcp", "postgresTls"}
        BY <2>8 DEF DependencyServer
    <2> QED
        BY <2>7, <2>9 DEF ServerTyped
<1>5. CASE k = n + 1
    BY <1>3, <1>5 DEF Ingress, ServerTyped
<1>6. CASE k = n + 2
    BY <1>3, <1>6 DEF Egress, ServerTyped
<1> QED
    BY <1>3, <1>4, <1>5, <1>6

LEMMA ListeningTyped ==
    ASSUME SessionInv
    PROVE  DOMAIN listening \subseteq Port /\ \A port \in DOMAIN listening : ServerTyped(listening[port])
<1>1. GivenAsPlanned
    BY DEF SessionInv
<1>2. CASE Serves(listening, RecordServers)
    <2>1. PICK n \in Nat : n = Len(RecordServers)
        BY <1>1, PlanIsPlanned
    <2>2. \A k \in 1 .. n : ServerTyped(RecordServers[k].server)
        BY <1>1, <2>1, RecordServersTyped
    <2>3. PICK up \in 0 .. n : up = Cardinality(DOMAIN listening)
        BY <1>2, <2>1 DEF Serves
    <2>4. \A k \in 1 .. up : k \in 1 .. n
        BY <2>3
    <2> QED
        BY <1>2, <2>2, <2>3, <2>4 DEF Serves
<1>3. CASE Serves(listening, ReplayServers)
    <2>1. PICK s \in Seq(protocols) : s = protocolsIn
        BY ProtocolsIn
    <2>2. \A k \in 1 .. Len(s) : ReplayServers[k].server.proxy = "replay"
        <3>1. \A k \in 1 .. Len(s) : k \in DOMAIN protocolsIn
            BY <2>1
        <3>2. ASSUME NEW k \in DOMAIN protocolsIn PROVE ReplayServers[k].server.proxy = "replay"
            <4>1. ReplayServers[k].server = [proxy |-> "replay", protocol |-> protocolsIn[k],
                                             host |-> Loopback, to |-> NoPort]
                BY ReplayServersAre
            <4> QED
                BY <4>1
        <3> QED
            BY <3>1, <3>2
    <2>3. \A k \in 1 .. Len(s) : ServerTyped(ReplayServers[k].server)
        BY <2>2 DEF ServerTyped
    <2>4. PICK up \in 0 .. Len(s) : up = Cardinality(DOMAIN listening)
        BY <1>3, <2>1, ReplayServersAre DEF Serves
    <2>5. \A k \in 1 .. up : k \in 1 .. Len(s)
        BY <2>4
    <2> QED
        BY <1>3, <2>3, <2>4, <2>5 DEF Serves
<1>4. CASE listening = <<>>
    BY <1>4
<1> QED
    BY <1>1, <1>2, <1>3, <1>4 DEF SessionInv, ServersUp, GivenAsPlanned

LEMMA ConnectionsTyped ==
    ASSUME SessionInv
    PROVE  DOMAIN app.connections \subseteq Range(Order) \union DOMAIN VARIABLE_PROTOCOLS
<1>1. GivenAsPlanned /\ AppTold
    BY DEF SessionInv
<1>2. DOMAIN setup.env \subseteq Range(Order)
    BY <1>1, EnvironmentAssumption DEF GivenAsPlanned
<1>3. CASE app = NoApp
    BY <1>3 DEF NoApp
<1>4. CASE app = childEnvironment
    BY <1>1, <1>2, <1>4, PlanIsPlanned DEF childEnvironment, PlannedUpTo
<1>5. CASE app.connections = replayEnvironment
    <2>1. DOMAIN env \subseteq Range(Order)
        <3>1. CASE env = <<>>
            BY <3>1
        <3> QED
            BY <1>1, <1>2, <3>1 DEF GivenAsPlanned
    <2>2. \A p \in protocols : PROTOCOL_VARIABLES[p] \in DOMAIN VARIABLE_PROTOCOLS
        BY <1>1 DEF GivenAsPlanned, PROTOCOL_VARIABLES, VARIABLE_PROTOCOLS, DEFAULT_PORTS
    <2> QED
        BY <1>5, <2>1, <2>2 DEF replayEnvironment
<1> QED
    BY <1>1, <1>3, <1>4, <1>5 DEF AppTold, GivenAsPlanned

TypeInv == CaptureInv /\ SessionInv /\ KeysGenerated /\ CallTyped

LEMMA TypeInitial == Init => TypeInv
<1> SUFFICES ASSUME Init PROVE TypeInv
    OBVIOUS
<1>1. KeysGenerated
    BY DEF Init, CertificateInit, KeysGenerated, NoFile
<1>2. CallTyped
    BY DEF Init, Idle, CallTyped
<1> QED
    BY <1>1, <1>2, CaptureInitial, SessionInitial DEF TypeInv

LEMMA TypeStep == TypeInv /\ [Next]_vars => TypeInv'
<1>1. CaptureInv => CertificateType /\ CallType /\ setup \in Setups
    BY DEF CaptureInv, CertificateInv, CallType
<1> QED
    BY <1>1, CaptureStep, SessionStep, KeysStep, CallTypedStep DEF TypeInv

LEMMA TypeImplies == TypeInv => TypeOK
<1> SUFFICES ASSUME TypeInv PROVE TypeOK
    OBVIOUS
<1>1. CertificateType /\ GivenAsPlanned /\ KeysGenerated /\ CallTyped /\ SessionInv
    BY DEF TypeInv, CaptureInv, CertificateInv, SessionInv
<1>2. listenPort \in Port /\ recorder \in [egress : Port, authority : BOOLEAN, roots : BOOLEAN]
    <2>1. ListenPorts \subseteq Port /\ EgressPorts \subseteq Port
        BY PortAssumption
    <2> QED
        BY <1>1, <2>1 DEF GivenAsPlanned
<1>3. trusted \in [Session -> 0 .. keys]
    <2>1. keys \in Nat /\ trusted \in [Session -> Nat] /\ \A s \in Session : trusted[s] <= keys
        BY <1>1 DEF CertificateType, KeysGenerated
    <2> QED
        BY <2>1
<1>4. \A s \in Session : at[s].host \in SafeHost \union {NoHost}
    BY <1>1 DEF CertificateType
<1>5. /\ DOMAIN listening \subseteq Port
      /\ \A port \in DOMAIN listening :
            /\ listening[port].proxy \in {"tcp", "postgresTls", "ingress", "egress", "replay"}
            /\ listening[port].proxy \in {"tcp", "postgresTls", "ingress"} =>
                    listening[port].to = appPort \/ listening[port].to \in Port
    BY <1>1, ListeningTyped DEF ServerTyped
<1>6. DOMAIN app.connections \subseteq Range(Order) \union DOMAIN VARIABLE_PROTOCOLS
    BY <1>1, ConnectionsTyped
<1>7. /\ outgoing.stage \in
            {"none", "made", "relay", "connect", "handshake", "request", "done", "crashed"}
      /\ outgoing.call \in setup.calls \union {NoCall}
    BY <1>1 DEF CallTyped, CallStage
<1>8. /\ phase \in {"starting", "recording", "recorded", "restarting", "replaying", "rejected",
                    "crashed"}
      /\ env \in {setup.env, <<>>}
      /\ protocols \subseteq DOMAIN DEFAULT_PORTS
      /\ used \subseteq Range(Order)
    BY <1>1 DEF GivenAsPlanned
<1> QED
    BY <1>2, <1>3, <1>4, <1>5, <1>6, <1>7, <1>8 DEF TypeOK

\* Every variable of the session, its servers, its call and its certificates keeps its
\* type: no address without a port, and no server above the highest one.
THEOREM TypeCorrect ==
    Spec => []TypeOK
BY TypeInitial, TypeStep, TypeImplies, PTL DEF Spec

=============================================================================

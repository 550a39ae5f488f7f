------------------------- MODULE CertificateAuthority -------------------------
(***************************************************************************)
(* src/record/tls/certificateAuthority.ts: the recording CA and the        *)
(* certificates of hosts.  They are files that all recordings of a user    *)
(* share; the cache and what the app was told to trust are of one session. *)
(*                                                                         *)
(* openssl is external: a run of it reads its files and writes its output  *)
(* in one step, or fails.  execFileSync keeps the session's event loop, so *)
(* a session does one thing at a time; several sessions interleave.  A key *)
(* pair is a number, a CA certificate the key pair it is for, and the      *)
(* certificate of a host the key pairs it is for and is signed with.       *)
(***************************************************************************)
EXTENDS Naturals

CONSTANTS
    Session,    \* recordings on this machine
    SafeHost,   \* hosts for which isSafeHostname holds
    NoHost,
    MaxKeys     \* bound: key pairs generated

ASSUME CertificateAssumption == NoHost \notin SafeHost /\ MaxKeys \in Nat

NoFile == 0
NoLeaf == [key |-> NoFile, signer |-> NoFile]

VARIABLES
    keys,               \* key pairs generated so far
    caKey, caCrt,       \* ca.key, ca.crt
    leafKey, leafCsr,   \* hosts/<host>.key, .csr
    leafCrt,            \* hosts/<host>.crt
    at,                 \* what a session is doing, and for which host
    trusted,            \* the CA certificate the session's app was started with
    leafCache,          \* per session, the leaf certificates it has read, with their keys
    contended           \* ghost: two sessions have written the same files at a time

files == <<keys, caKey, caCrt, leafKey, leafCsr, leafCrt>>
certificateVars == <<files, at, trusted, leafCache, contended>>

NotCached == [key |-> NoFile, crt |-> NoLeaf]

CertificateInit ==
    /\ keys = 0
    /\ caKey = NoFile /\ caCrt = NoFile
    /\ leafKey = [h \in SafeHost |-> NoFile]
    /\ leafCsr = [h \in SafeHost |-> NoFile]
    /\ leafCrt = [h \in SafeHost |-> NoLeaf]
    /\ at = [s \in Session |-> [stage |-> "off", host |-> NoHost]]
    /\ trusted = [s \in Session |-> NoFile]
    /\ leafCache = [s \in Session |-> [h \in SafeHost |-> NotCached]]
    /\ contended = FALSE

Making == {"ca.key", "ca.crt", "key", "csr", "crt", "read"}

\* Two sessions make the CA (host is NoHost), or the certificate of one host.
Contention(where) ==
    \E r, s \in Session :
        /\ r # s
        /\ where[r].stage \in Making /\ where[s].stage \in Making
        /\ where[r].host = where[s].host

Go(s, stage, host) ==
    /\ at' = [at EXCEPT ![s] = [stage |-> stage, host |-> host]]
    /\ contended' = (contended \/ Contention(at'))

-----------------------------------------------------------------------------
(***************************************************************************)
(* ensureCertificateAuthority, and the app that is told to trust it.       *)
(***************************************************************************)

ensureCertificateAuthority(s) ==
    /\ at[s].stage = "off"
    /\ Go(s, IF caKey = NoFile \/ caCrt = NoFile THEN "ca.key" ELSE "ready", NoHost)
    /\ UNCHANGED <<files, trusted, leafCache>>

GenerateCaKey(s) ==
    /\ at[s].stage = "ca.key" /\ keys < MaxKeys
    /\ keys' = keys + 1
    /\ caKey' = keys'
    /\ Go(s, "ca.crt", NoHost)
    /\ UNCHANGED <<caCrt, leafKey, leafCsr, leafCrt, trusted, leafCache>>

SignCaCertificate(s) ==
    /\ at[s].stage = "ca.crt"
    /\ caCrt' = caKey
    /\ Go(s, "ready", NoHost)
    /\ UNCHANGED <<keys, caKey, leafKey, leafCsr, leafCrt, trusted, leafCache>>

\* trustEnvironment names the certificate's file, which the app reads as it starts.
Trust(s) ==
    /\ at[s].stage = "ready" /\ trusted[s] = NoFile /\ caCrt # NoFile
    /\ trusted' = [trusted EXCEPT ![s] = caCrt]
    /\ UNCHANGED <<files, at, leafCache, contended>>

-----------------------------------------------------------------------------
(***************************************************************************)
(* leafCertificateFor a host that is not in the cache.                     *)
(***************************************************************************)

leafCertificateFor(s, host) ==
    /\ at[s].stage = "ready" /\ trusted[s] # NoFile
    /\ leafCache[s][host] = NotCached
    /\ Go(s, "key", host)
    /\ UNCHANGED <<files, trusted, leafCache>>

GenerateLeafKey(s) ==
    /\ at[s].stage = "key" /\ keys < MaxKeys
    /\ keys' = keys + 1
    /\ leafKey' = [leafKey EXCEPT ![at[s].host] = keys']
    /\ Go(s, "csr", at[s].host)
    /\ UNCHANGED <<caKey, caCrt, leafCsr, leafCrt, trusted, leafCache>>

RequestLeaf(s) ==
    /\ at[s].stage = "csr"
    /\ leafCsr' = [leafCsr EXCEPT ![at[s].host] = leafKey[at[s].host]]
    /\ Go(s, "crt", at[s].host)
    /\ UNCHANGED <<keys, caKey, caCrt, leafKey, leafCrt, trusted, leafCache>>

\* openssl refuses to sign with a key that is not the CA certificate's.
SignLeaf(s) ==
    /\ at[s].stage = "crt" /\ caKey = caCrt
    /\ leafCrt' = [leafCrt EXCEPT ![at[s].host] =
                        [key |-> leafCsr[at[s].host], signer |-> caKey]]
    /\ Go(s, "read", at[s].host)
    /\ UNCHANGED <<keys, caKey, caCrt, leafKey, leafCsr, trusted, leafCache>>

ReadLeaf(s) ==
    /\ at[s].stage = "read"
    /\ leafCache' = [leafCache EXCEPT ![s][at[s].host] =
                        [key |-> leafKey[at[s].host], crt |-> leafCrt[at[s].host]]]
    /\ Go(s, "ready", NoHost)
    /\ UNCHANGED <<files, trusted>>

-----------------------------------------------------------------------------

\* A run of openssl fails: the session does not start, or the handshake errs.
OpensslFails(s) ==
    /\ at[s].stage \in Making \ {"read"}
    /\ Go(s, IF at[s].host = NoHost THEN "off" ELSE "ready", NoHost)
    /\ UNCHANGED <<files, trusted, leafCache>>

\* The recorder ends or is killed, wherever it is, and may be run again.
Ends(s) ==
    /\ at[s].stage # "off"
    /\ Go(s, "off", NoHost)
    /\ trusted' = [trusted EXCEPT ![s] = NoFile]
    /\ leafCache' = [leafCache EXCEPT ![s] = [h \in SafeHost |-> NotCached]]
    /\ UNCHANGED files

Ensure(s) == ensureCertificateAuthority(s) \/ GenerateCaKey(s) \/ SignCaCertificate(s)

MakeLeaf(s) == GenerateLeafKey(s) \/ RequestLeaf(s) \/ SignLeaf(s) \/ ReadLeaf(s)

Recorder(s) ==
    \/ Ensure(s) \/ Trust(s) \/ MakeLeaf(s)
    \/ \E host \in SafeHost : leafCertificateFor(s, host)
    \/ OpensslFails(s) \/ Ends(s)

CertificateSpec == CertificateInit /\ [][\E s \in Session : Recorder(s)]_certificateVars

-----------------------------------------------------------------------------
(***************************************************************************)
(* Properties.                                                             *)
(***************************************************************************)

\* certificateAuthority.ts:14-16 and :104-108: unless two sessions have made the same
\* files at a time, whichever of them were killed and where, a certificate in a cache
\* goes with its key and is signed by the CA that the session's app trusts.
LeavesVerify ==
    contended \/ \A s \in Session, host \in SafeHost :
        LET leaf == leafCache[s][host]
        IN  leaf # NotCached => leaf.key = leaf.crt.key /\ leaf.crt.signer = trusted[s]

=============================================================================

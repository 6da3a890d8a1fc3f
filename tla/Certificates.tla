----------------------------- MODULE Certificates -----------------------------
(***************************************************************************)
(* The certificate the controller serves HTTPS with (bmt_ai_os/tls/        *)
(* certs.py, tls/config.py, controller/main.py and `tls setup` of cli.py)  *)
(* and the certificates for mutual TLS between services (tls/mtls.py).     *)
(*                                                                         *)
(* A certificate and its key are two files, written one after the other in *)
(* place.  A process may be killed, or fail to write, at any point, and    *)
(* leaves what it has written.  The contents of a file are the number of   *)
(* the key they were made with.                                            *)
(***************************************************************************)
EXTENDS Integers, Sequences, Functions

CONSTANTS
    Setups,       \* processes that run `tls setup`
    Validity,     \* days a generated certificate is valid
    RenewDays,    \* BMT_TLS_RENEW_DAYS
    PkiOrder,     \* the pairs of ensure_mtls_pki in order, the CA first
    MaxPairs,     \* bound on the pairs generate_self_signed makes
    MaxPkiKeys    \* bound on the keys ensure_mtls_pki makes

ASSUME CertificatesAssumption ==
    /\ Validity \in Nat /\ RenewDays \in Nat /\ RenewDays <= Validity
    /\ MaxPairs \in Nat /\ MaxPkiKeys \in Nat
    /\ PkiOrder \in Seq(Range(PkiOrder)) /\ PkiOrder # <<>>
    /\ "controller" \notin Setups

Issuers == {"controller"} \cup Setups

VARIABLES
    given,       \* BMT_TLS_CERT and BMT_TLS_KEY name the files
    pair,        \* server.crt and server.key
    left,        \* days until the certificate expires
    made,        \* pairs generated so far
    issuer,      \* what each process is doing
    disturbed    \* history: processes overlapped, or one was cut off (see Cut)

tlsVars == <<given, pair, left, made, issuer, disturbed>>

VARIABLES
    pki,         \* the files of ensure_mtls_pki; a certificate names the key it is for
                 \* and the key it is signed by
    pkiKeys,     \* keys made so far
    at,          \* the place in PkiOrder; 0: not running
    writing,     \* the file of the pair that is being written
    pkiCut       \* history: a run was cut off in a second file

pkiVars == <<pki, pkiKeys, at, writing, pkiCut>>

Absent == 0
Torn == -1
IsKey(content) == content > 0

TlsInit ==
    /\ given \in BOOLEAN
    /\ pair = [cert |-> Absent, key |-> Absent]
    /\ left = 0 /\ made = 0
    /\ issuer = [p \in Issuers |-> [step |-> "off", new |-> 0, days |-> 0]]
    /\ disturbed = FALSE

----------------------------------------------------------------------------
(* generate_self_signed: a fresh key, a certificate for it, the key file,  *)
(* the certificate file.                                                   *)

Busy(p) == issuer[p].step \notin {"off", "exited", "serving"}

Overlaps(p) == \E q \in Issuers \ {p} : Busy(q)

\* The key is generated and the certificate signed before a file is opened.
Generate(p, days) ==
    /\ made < MaxPairs
    /\ made' = made + 1
    /\ issuer' = [issuer EXCEPT ![p] = [step |-> "key", new |-> made + 1, days |-> days]]
    /\ pair' = [pair EXCEPT !.key = Torn]
    /\ disturbed' = (disturbed \/ Overlaps(p))
    /\ UNCHANGED <<given, left>>

KeyWritten(p) ==
    /\ issuer[p].step = "key"
    /\ pair' = [pair EXCEPT !.key = issuer[p].new]
    /\ issuer' = [issuer EXCEPT ![p].step = "between"]
    /\ UNCHANGED <<given, left, made, disturbed>>

OpenCert(p) ==
    /\ issuer[p].step = "between"
    /\ pair' = [pair EXCEPT !.cert = Torn]
    /\ issuer' = [issuer EXCEPT ![p].step = "cert"]
    /\ UNCHANGED <<given, left, made, disturbed>>

CertWritten(p) ==
    /\ issuer[p].step = "cert"
    /\ pair' = [pair EXCEPT !.cert = issuer[p].new]
    /\ left' = issuer[p].days
    /\ issuer' = [issuer EXCEPT ![p].step = IF p = "controller" THEN "load" ELSE "off"]
    /\ UNCHANGED <<given, made, disturbed>>

\* cert_days_remaining and needs_renewal: an unreadable certificate is renewed.
NeedsRenewal == ~IsKey(pair.cert) \/ left < RenewDays

\* The process is killed, or a write raises OSError.  What disturbs later starts
\* is a new or a half-written key beside a certificate that need not be renewed:
\* only `tls setup --force` can leave that.
Cut(p) ==
    /\ Busy(p)
    /\ issuer' = [issuer EXCEPT ![p].step = "off"]
    /\ disturbed' = (disturbed \/ (issuer[p].step \in {"key", "between"} /\ ~NeedsRenewal))
    /\ UNCHANGED <<given, pair, left, made>>

----------------------------------------------------------------------------
(* The processes.                                                          *)

\* load_tls_config: files that are named are used as they are, otherwise
\* ensure_certs looks at the files of the default directory.
StartController ==
    /\ issuer["controller"].step \in {"off", "exited"}
    /\ IF given \/ (pair.key # Absent /\ ~NeedsRenewal)
       THEN /\ issuer' = [issuer EXCEPT !["controller"].step = "load"]
            /\ disturbed' = (disturbed \/ Overlaps("controller"))
            /\ UNCHANGED <<given, pair, left, made>>
       ELSE Generate("controller", Validity)

\* load_cert_chain asks whether the key fits, not whether the certificate has
\* expired.  A failure ends the process.
LoadPair ==
    /\ issuer["controller"].step = "load"
    /\ issuer' = [issuer EXCEPT !["controller"].step =
          IF IsKey(pair.cert) /\ pair.cert = pair.key THEN "serving" ELSE "exited"]
    /\ disturbed' = (disturbed \/ Overlaps("controller"))
    /\ UNCHANGED <<given, pair, left, made>>

StopController ==
    /\ issuer["controller"].step = "serving"
    /\ issuer' = [issuer EXCEPT !["controller"].step = "off"]
    /\ UNCHANGED <<given, pair, left, made, disturbed>>

\* `tls setup`, which overwrites existing files only when forced.
Setup(p, force, days) ==
    /\ p # "controller" /\ issuer[p].step = "off"
    /\ force \/ pair.cert = Absent \/ pair.key = Absent
    /\ Generate(p, days)

Day ==
    /\ left > 0 /\ left' = left - 1
    /\ UNCHANGED <<given, pair, made, issuer, disturbed>>

TlsNext ==
    \/ \E p \in Issuers :
          \/ KeyWritten(p) \/ OpenCert(p) \/ CertWritten(p) \/ Cut(p)
          \/ \E force \in BOOLEAN, days \in 1 .. Validity : Setup(p, force, days)
    \/ StartController \/ LoadPair \/ StopController
    \/ Day

TlsSpec == TlsInit /\ [][TlsNext]_tlsVars

----------------------------------------------------------------------------
(* ensure_mtls_pki: the CA, the server and one client per service.         *)

IsCA(p) == p = PkiOrder[1]
Authority == pki[PkiOrder[1]]

NoCert == [key |-> Absent, by |-> Absent]
TornCert == [key |-> Torn, by |-> Absent]

PkiInit ==
    /\ pki = [p \in Range(PkiOrder) |-> [cert |-> NoCert, key |-> Absent]]
    /\ pkiKeys = 0 /\ at = 0 /\ writing = "no" /\ pkiCut = FALSE

PkiStart ==
    /\ at \in {0, Len(PkiOrder) + 1} /\ at' = 1
    /\ UNCHANGED <<pki, pkiKeys, writing, pkiCut>>

\* Faulty: a certificate without its key is there already.
MissingCert(p) == pki[p].cert = NoCert

\* Only the presence of the two files is looked at.
Missing(p) == pki[p].cert = NoCert \/ pki[p].key = Absent

AlreadyPresent ==
    /\ at \in DOMAIN PkiOrder /\ writing = "no" /\ ~Missing(PkiOrder[at])
    /\ at' = at + 1
    /\ UNCHANGED <<pki, pkiKeys, writing, pkiCut>>

\* _sign_certificate reads both files of the CA, and raises when it cannot.
CannotSign ==
    /\ at \in DOMAIN PkiOrder /\ writing = "no"
    /\ Missing(PkiOrder[at]) /\ ~IsCA(PkiOrder[at])
    /\ ~IsKey(Authority.cert.key) \/ ~IsKey(Authority.key)
    /\ at' = 0
    /\ UNCHANGED <<pki, pkiKeys, writing, pkiCut>>

\* generate_ca writes the key first, generate_server_cert and
\* generate_service_cert the certificate.
OpenFirst ==
    /\ at \in DOMAIN PkiOrder /\ writing = "no" /\ Missing(PkiOrder[at])
    /\ IsCA(PkiOrder[at]) \/ (IsKey(Authority.cert.key) /\ IsKey(Authority.key))
    /\ pkiKeys < MaxPkiKeys /\ pkiKeys' = pkiKeys + 1
    /\ writing' = "first"
    /\ pki' = IF IsCA(PkiOrder[at]) THEN [pki EXCEPT ![PkiOrder[at]].key = Torn]
                                    ELSE [pki EXCEPT ![PkiOrder[at]].cert = TornCert]
    /\ UNCHANGED <<at, pkiCut>>

FirstWritten ==
    /\ writing = "first" /\ writing' = "between"
    /\ pki' = IF IsCA(PkiOrder[at]) THEN [pki EXCEPT ![PkiOrder[at]].key = pkiKeys]
              ELSE [pki EXCEPT ![PkiOrder[at]].cert = [key |-> pkiKeys, by |-> Authority.key]]
    /\ UNCHANGED <<pkiKeys, at, pkiCut>>

OpenSecond ==
    /\ writing = "between" /\ writing' = "second"
    /\ pki' = IF IsCA(PkiOrder[at]) THEN [pki EXCEPT ![PkiOrder[at]].cert = TornCert]
                                    ELSE [pki EXCEPT ![PkiOrder[at]].key = Torn]
    /\ UNCHANGED <<pkiKeys, at, pkiCut>>

SecondWritten ==
    /\ writing = "second" /\ writing' = "no" /\ at' = at + 1
    /\ pki' = IF IsCA(PkiOrder[at])
              THEN [pki EXCEPT ![PkiOrder[at]].cert = [key |-> pkiKeys, by |-> pkiKeys]]
              ELSE [pki EXCEPT ![PkiOrder[at]].key = pkiKeys]
    /\ UNCHANGED <<pkiKeys, pkiCut>>

PkiIsCut ==
    /\ at \in DOMAIN PkiOrder /\ at' = 0 /\ writing' = "no"
    /\ pkiCut' = (pkiCut \/ writing = "second")
    /\ UNCHANGED <<pki, pkiKeys>>

PkiNext ==
    \/ PkiStart \/ AlreadyPresent \/ CannotSign
    \/ OpenFirst \/ FirstWritten \/ OpenSecond \/ SecondWritten \/ PkiIsCut

PkiSpec == PkiInit /\ [][PkiNext]_pkiVars

----------------------------------------------------------------------------
Steps == {"off", "key", "between", "cert", "load", "serving", "exited"}

TlsTypeOK ==
    /\ given \in BOOLEAN /\ disturbed \in BOOLEAN
    /\ pair \in [cert : Torn .. made, key : Torn .. made]
    /\ left \in 0 .. Validity /\ made \in 0 .. MaxPairs
    /\ issuer \in [Issuers -> [step : Steps, new : 0 .. made, days : 0 .. Validity]]

PkiFiles(n) == [cert : [key : Torn .. n, by : Torn .. n], key : Torn .. n]

PkiTypeOK ==
    /\ pkiCut \in BOOLEAN
    /\ pkiKeys \in 0 .. MaxPkiKeys /\ at \in 0 .. Len(PkiOrder) + 1
    /\ writing \in {"no", "first", "between", "second"}
    /\ pki \in [Range(PkiOrder) -> PkiFiles(pkiKeys)]

\* Every variable stays in its type, and a certificate that is whole is one that
\* was generated.
CertificatesTypeOK == TlsTypeOK /\ PkiTypeOK

\* A controller that looks after its certificate itself starts, whenever it or
\* `tls setup` was killed before, unless two of them overlapped or a forced setup
\* left a new key beside a certificate that is still good.  And whenever
\* ensure_mtls_pki gets to its end, every key fits its certificate and the CA's
\* key has signed it, unless an earlier run was cut off in a second file.
PairsAreWhole ==
    /\ issuer["controller"].step = "exited" /\ ~given => disturbed
    /\ at > Len(PkiOrder) /\ ~pkiCut =>
          \A p \in DOMAIN pki :
             /\ IsKey(pki[p].key) /\ pki[p].cert.key = pki[p].key
             /\ pki[p].cert.by = Authority.key
=============================================================================

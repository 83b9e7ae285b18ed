----------------------------- MODULE TrustChain -----------------------------
(***************************************************************************)
(* From the certificate ceremonies to the launch of a package.  alrios-ca  *)
(* issues the root, intermediate and leaf certificates and keys (one file  *)
(* each); armake writes an unsigned package; arsign signs a package in     *)
(* place, or an artifact with a detached signature, and verifies one; the  *)
(* supervisor's policy loads the certificates when it starts and decides   *)
(* about every launch; the sovereign loader stages a package in memory     *)
(* (libraries/pki, libraries/package, libraries/supervisor/policy.c,       *)
(* libraries/loader/sovereign_loader.c, commands/alrios-ca,                *)
(* commands/arsign).                                                       *)
(*                                                                         *)
(* A key stands for its key pair and its key id.  A signature names the    *)
(* key that made it and what it covers.  A file that is missing, truncated *)
(* or cannot be decoded is {}, any other is {its content}: every reader    *)
(* treats the first three alike.                                           *)
(***************************************************************************)
EXTENDS Naturals, Sequences

CONSTANTS Validities,  \* periods of validity asked of alrios-ca
          TimeSpace,   \* the range of a time stamp, 2^64
          Skew,        \* tolerance for packages issued in the future
          Payloads, Damages, Levels, NodeProfiles, PackageProfiles,
          Delivered,   \* packages made elsewhere that arrive while the clock runs
          Installed,   \* packages made elsewhere that may be there already
          FirstUntil,  \* when the first certificates expire
          Issued, Expires, \* of the packages made here
          SigningKeys, \* the key files given to arsign, by role
          MaxKeys, MaxTime, MaxSigns

VARIABLES time, keys, signs,
          certFile, keyFile, ca,
          artifact, exists, maker, detached, arsign, approved,
          policy

trustVars == <<time, keys, signs, certFile, keyFile, ca, artifact, exists, maker,
               detached, arsign, approved, policy>>
caVars == <<certFile, keyFile, ca, keys>>
makerVars == <<exists, maker>>
signVars == <<detached, arsign, approved, signs>>

Roles == {"root", "intermediate", "leaf"}
Parent == [root |-> "root", intermediate |-> "root", leaf |-> "intermediate"]

\* A package, what its signatures cover, and a signature.  Of the flags of a
\* package one says its profile and one its ring.
Profiles == {"sovereign", "enterprise", "performance"}
Rings == {"sovereign", "devmode"}
Bodies == [profile : Profiles, ring : Rings, pqc : BOOLEAN, issued : Nat, expires : Nat,
           data : Nat, sha : Nat]
Signatures == [by : Nat, of : Bodies]
Packages == [legacy : BOOLEAN, profile : Profiles, ring : Rings, pqc : BOOLEAN, issued : Nat,
             expires : Nat, data : Nat, sha : Nat, ed : SUBSET Signatures, pq : SUBSET Signatures]

AtMostOne(S) == \A a, b \in S : a = b

\* A package has room for one signature of each kind.
ASSUME TrustAssumption ==
  /\ Validities \subseteq Nat /\ TimeSpace \in Nat \ {0}
  /\ Payloads \subseteq Nat /\ Damages \subseteq Nat /\ Damages # {}
  /\ PackageProfiles \subseteq Profiles
  /\ \A p \in Delivered \union Installed : p \in Packages /\ AtMostOne(p.ed)
  /\ FirstUntil \in [Roles -> Nat] /\ Issued \in Nat /\ Expires \in Nat
  /\ SigningKeys \subseteq Roles
  /\ MaxKeys \in Nat /\ MaxKeys >= 4 /\ MaxTime \in Nat /\ MaxTime >= 2
Empty == [r \in Roles |-> {}]

(***************************************************************************)
(* Certificates: certificate.c, issuer.c                                   *)
(***************************************************************************)
\* What is signed, and the key that signs it: sign_tbs.
Certificate(role, key, issuer, by, days) ==
  [role |-> role, key |-> key, issuer |-> issuer, from |-> time,
   until |-> (time + days) % TimeSpace, by |-> by]

\* alrios_pki_issue_root, _intermediate and _leaf, the latter two with the
\* issuer's certificate and with whatever private key was read.
IssueRoot(key, days) == Certificate("root", key, key, key, days)
IssueIntermediate(key, root, rootKey, days) ==
  Certificate("intermediate", key, root.key, rootKey, days)
IssueLeaf(key, inter, interKey, days) ==
  Certificate("leaf", key, inter.key, interKey, days)

\* validate_certificate, which encoding and decoding both end with.
WellFormed(c) == c.from <= c.until
Encodable(made) == made # {} /\ \A c \in made : WellFormed(c)
Decoded(file) == {c \in file : WellFormed(c)}

InWindow(c, now) == c.from <= now /\ now <= c.until

\* The sealed trust store of the only anchor any caller adds.
Store(root) == {c \in root : c.role = "root" /\ WellFormed(c)}
Lookup(store, id) == {c \in store : c.key = id}

\* verify_cert_signature
SignedBy(child, parent) == child.by = parent.key

\* alrios_pki_verify_chain
VerifyChain(store, leaf, inter, now) ==
  /\ InWindow(leaf, now) /\ InWindow(inter, now)
  /\ leaf.role = "leaf" /\ inter.role = "intermediate"
  /\ \E root \in Lookup(store, inter.issuer) :
       /\ InWindow(root, now)
       /\ leaf.issuer = inter.key
       /\ SignedBy(leaf, inter)
       /\ SignedBy(inter, root)

ChainOf(read, now) ==
  \E leaf \in read["leaf"], inter \in read["intermediate"] :
     VerifyChain(Store(read["root"]), leaf, inter, now)

(***************************************************************************)
(* alrios-ca: read the issuer's certificate and key, issue, write the      *)
(* certificate, write the key; it may die between any two of these.        *)
(***************************************************************************)
CaIdle == [pc |-> "idle", role |-> "root", parent |-> {}, made |-> {}, key |-> 0]

CaStart(role) ==
  /\ ca.pc = "idle" /\ keys < MaxKeys
  /\ IF role = "root"
     THEN ca' = [CaIdle EXCEPT !.pc = "issue", !.role = role]
     ELSE /\ Decoded(certFile[Parent[role]]) # {}
          /\ ca' = [CaIdle EXCEPT !.pc = "issue", !.role = role,
                                  !.parent = Decoded(certFile[Parent[role]])]
  /\ UNCHANGED <<time, certFile, keyFile, keys, artifact, makerVars, signVars, policy>>

\* The private key is read after the certificate, then everything is made in
\* memory; a window that wrapped around is refused by the encoder.
CaMakes(key, days) ==
  LET signer == keyFile[Parent[ca.role]]
  IN IF ca.role = "root" THEN {IssueRoot(key, days)}
     ELSE IF ca.role = "intermediate"
     THEN {IssueIntermediate(key, c, k, days) : c \in ca.parent, k \in signer}
     ELSE {IssueLeaf(key, c, k, days) : c \in ca.parent, k \in signer}

CaIssue ==
  /\ ca.pc = "issue"
  /\ keys' = keys + 1
  /\ \E days \in Validities :
       LET made == CaMakes(keys + 1, days)
       IN ca' = IF Encodable(made) THEN [ca EXCEPT !.pc = "cert", !.made = made, !.key = keys + 1]
                ELSE CaIdle
  /\ UNCHANGED <<time, certFile, keyFile, artifact, makerVars, signVars, policy>>

\* Each file is opened with "wb", which truncates it, and then written.
CaWrite ==
  /\ \/ /\ ca.pc = "cert" /\ certFile' = [certFile EXCEPT ![ca.role] = {}]
        /\ ca' = [ca EXCEPT !.pc = "cert2"] /\ UNCHANGED keyFile
     \/ /\ ca.pc = "cert2" /\ certFile' = [certFile EXCEPT ![ca.role] = ca.made]
        /\ ca' = [ca EXCEPT !.pc = "key"] /\ UNCHANGED keyFile
     \/ /\ ca.pc = "key" /\ keyFile' = [keyFile EXCEPT ![ca.role] = {}]
        /\ ca' = [ca EXCEPT !.pc = "key2"] /\ UNCHANGED certFile
     \/ /\ ca.pc = "key2" /\ keyFile' = [keyFile EXCEPT ![ca.role] = {ca.key}]
        /\ ca' = CaIdle /\ UNCHANGED certFile
  /\ UNCHANGED <<time, keys, artifact, makerVars, signVars, policy>>

CaDies ==
  /\ ca.pc # "idle" /\ ca' = CaIdle
  /\ UNCHANGED <<time, certFile, keyFile, keys, artifact, makerVars, signVars, policy>>

(***************************************************************************)
(* Packages                                                                *)
(***************************************************************************)
\* What the signatures cover: everything but the signature block.
Tbs(p) == [profile |-> p.profile, ring |-> p.ring, pqc |-> p.pqc, issued |-> p.issued,
           expires |-> p.expires, data |-> p.data, sha |-> p.sha]

\* The unsigned envelope of alrios_armake_package_v2: ring devmode, the hash
\* of the clear text left zero.
Envelope(profile, issued, expires, data) ==
  [legacy |-> FALSE, profile |-> profile, ring |-> "devmode", pqc |-> FALSE, issued |-> issued,
   expires |-> expires, data |-> data, sha |-> 0, ed |-> {}, pq |-> {}]

\* valid_unsigned_flags and the other tests before the output is opened.
Packable(profile, issued, expires) ==
  profile # "sovereign" /\ issued # 0 /\ issued < expires

\* arsign, armake and the daemon only take turns on the package file here:
\* the file is created exclusively ...
MakerCreates ==
  /\ maker = {} /\ ~ exists
  /\ \E profile \in PackageProfiles, data \in Payloads :
       /\ Packable(profile, Issued, Expires)
       /\ maker' = {Envelope(profile, Issued, Expires, data)}
  /\ exists' = TRUE /\ artifact' = {}
  /\ UNCHANGED <<time, caVars, signVars, policy>>

\* ... then written, or removed again when writing fails, or left as it is
\* by a process that dies.
MakerEnds ==
  /\ maker # {}
  /\ \/ artifact' = maker /\ exists' = TRUE
     \/ artifact' = {} /\ exists' = FALSE
     \/ UNCHANGED <<artifact, exists>>
  /\ maker' = {}
  /\ UNCHANGED <<time, caVars, signVars, policy>>

\* A package of another origin is put in place, or the file damaged.
PackageArrives ==
  /\ maker = {}
  /\ \E p \in Delivered : artifact' = {p}
  /\ exists' = TRUE
  /\ UNCHANGED <<time, caVars, maker, signVars, policy>>
PackageDamaged ==
  /\ \E p \in artifact, data \in Damages :
       data # p.data /\ artifact' = {[p EXCEPT !.data = data]}
  /\ UNCHANGED <<time, caVars, makerVars, signVars, policy>>

\* valid_time_window; the latest issue saturates, so it is never too small.
TimeWindow(p, now) == p.issued # 0 /\ p.issued < p.expires
                      /\ p.issued <= now + Skew /\ now <= p.expires

\* valid_flags
FlagsValid(p) == /\ p.profile = "sovereign" => p.ring = "sovereign"
                 /\ p.ring = "sovereign" => p.pqc

\* alrios_arapp_v2_validate
Valid(p, now) == ~ p.legacy /\ FlagsValid(p) /\ TimeWindow(p, now)

\* Mutant: the signature is checked against the bytes it was made for.
MutStaleDigest(p, sigs, key) == \E s \in sigs : s.by = key

\* alrios_arapp_v2_verify_ed25519, alrios_arapp_v2_verify_ml_dsa_65
SignatureHolds(p, sigs, key) == \E s \in sigs : s.by = key /\ s.of = Tbs(p)

(***************************************************************************)
(* arsign                                                                  *)
(***************************************************************************)
SignIdle == [pc |-> "idle", op |-> "none", todo |-> <<>>, read |-> Empty, key |-> {}, out |-> {}]
ChainFiles == <<"leaf", "intermediate", "root">>

\* sign-arapp with a chain or without, sign --policy strict, verify-chain
SignStart(op) ==
  /\ arsign.pc = "idle"
  /\ IF op = "verify" THEN UNCHANGED signs ELSE signs < MaxSigns /\ signs' = signs + 1
  /\ \E withChain \in IF op = "embed" THEN BOOLEAN ELSE {op = "verify"} :
       arsign' = [SignIdle EXCEPT !.pc = IF withChain THEN "chain" ELSE "key", !.op = op,
                                  !.todo = IF withChain THEN ChainFiles ELSE <<>>]
  /\ UNCHANGED <<time, caVars, artifact, makerVars, detached, approved, policy>>

\* load_certificate_file
ReadNext(p) == [p EXCEPT !.read = [@ EXCEPT ![Head(p.todo)] = Decoded(certFile[Head(p.todo)])],
                         !.todo = Tail(@)]

SignReads ==
  /\ arsign.pc = "chain" /\ arsign.todo # <<>>
  /\ arsign' = IF Decoded(certFile[Head(arsign.todo)]) = {} THEN SignIdle ELSE ReadNext(arsign)
  /\ UNCHANGED <<time, caVars, artifact, makerVars, detached, approved, signs, policy>>

SignChecks ==
  /\ arsign.pc = "chain" /\ arsign.todo = <<>> /\ arsign.op = "embed"
  /\ arsign' = IF ChainOf(arsign.read, time) THEN [arsign EXCEPT !.pc = "key"] ELSE SignIdle
  /\ UNCHANGED <<time, caVars, artifact, makerVars, detached, approved, signs, policy>>

\* The key is loaded; whether it is the key of the leaf certificate is not
\* asked.
SignLoadsKey ==
  /\ arsign.pc = "key"
  /\ \E role \in SigningKeys :
       arsign' = IF keyFile[role] = {} THEN SignIdle
                 ELSE [arsign EXCEPT !.pc = "sign", !.key = keyFile[role]]
  /\ UNCHANGED <<time, caVars, artifact, makerVars, detached, approved, signs, policy>>

\* alrios_arapp_v2_sign_ed25519 replaces the signature of the package,
\* alrios_notary_sign_payload makes one of its own.  Nobody asks for the format:
\* in a package of the old one the signature falls on its content.
Embedded(p, k) == IF p.legacy THEN [p EXCEPT !.data = CHOOSE d \in Damages : TRUE]
                  ELSE [p EXCEPT !.ed = {[by |-> k, of |-> Tbs(p)]}]
Detached(p, k) == [by |-> k, of |-> p]

SignMakes ==
  /\ arsign.pc = "sign"
  /\ \/ /\ artifact = {} /\ arsign' = SignIdle /\ UNCHANGED approved
     \/ \E p \in artifact, k \in arsign.key :
          /\ arsign' = [arsign EXCEPT !.pc = "truncate", !.out =
                          {IF arsign.op = "embed" THEN Embedded(p, k) ELSE Detached(p, k)}]
          /\ approved' = IF arsign.op = "embed"
                         THEN approved \union {[by |-> k, of |-> Tbs(p)]} ELSE approved
  /\ UNCHANGED <<time, caVars, artifact, makerVars, detached, signs, policy>>

\* The package is written over itself, the detached signature over the old.
SignWrites ==
  /\ arsign.pc \in {"truncate", "write"}
  /\ LET content == IF arsign.pc = "write" THEN arsign.out ELSE {}
     IN IF arsign.op = "embed" THEN artifact' = content /\ exists' = TRUE /\ UNCHANGED detached
        ELSE detached' = content /\ UNCHANGED <<artifact, exists>>
  /\ arsign' = IF arsign.pc = "write" THEN SignIdle ELSE [arsign EXCEPT !.pc = "write"]
  /\ UNCHANGED <<time, caVars, maker, approved, signs, policy>>

\* verify-chain: alrios_notary_verify_with_certificate
NotaryAccepts(read, p, sig, now) ==
  /\ ChainOf(read, now)
  /\ \E leaf \in read["leaf"] : sig.by = leaf.key /\ sig.of = p

\* The command is about to read the artifact and to answer.
Verifying == arsign.pc = "chain" /\ arsign.todo = <<>> /\ arsign.op = "verify"

SignAnswers ==
  /\ Verifying /\ arsign' = SignIdle
  /\ UNCHANGED <<time, caVars, artifact, makerVars, detached, approved, signs, policy>>

SignDies ==
  /\ arsign.pc # "idle" /\ arsign' = SignIdle
  /\ UNCHANGED <<time, caVars, artifact, makerVars, detached, approved, signs, policy>>

(***************************************************************************)
(* The policy of the supervisor                                            *)
(***************************************************************************)
NotLoaded == [todo |-> <<>>, read |-> Empty, done |-> FALSE]

\* alrios_supervisor_policy_startup_with_trust reads the certificates once;
\* a policy is never reloaded, only shut down and started again.
PolicyStarts ==
  /\ policy = NotLoaded
  /\ policy' = [policy EXCEPT !.todo = <<"root", "intermediate", "leaf">>, !.done = TRUE]
  /\ UNCHANGED <<time, caVars, artifact, makerVars, signVars>>
PolicyReads ==
  /\ policy.todo # <<>>
  /\ policy' = ReadNext(policy)
  /\ UNCHANGED <<time, caVars, artifact, makerVars, signVars>>
PolicyStops ==
  /\ policy # NotLoaded /\ policy' = NotLoaded
  /\ UNCHANGED <<time, caVars, artifact, makerVars, signVars>>

\* The trust level is configured, or follows from the files that were read;
\* a word that is not known means the full chain.
LevelOf(configured, read) ==
  IF configured = "root" THEN 1
  ELSE IF configured = "intermediate" THEN 2
  ELSE IF configured # "unset" THEN 3
  ELSE IF read["intermediate"] = {} THEN 1 ELSE IF read["leaf"] = {} THEN 2 ELSE 3

SignerRole == <<"root", "intermediate", "leaf">>
PublicKey(read, level) == {c.key : c \in read[SignerRole[level]]}

\* load_trust_configuration: ready when the anchor and every certificate the
\* level needs were read, and on a sovereign node the ML-DSA key (`pq').
Ready(read, level, pq, profile) ==
  /\ Store(read["root"]) # {}
  /\ PublicKey(read, level) # {}
  /\ level = 3 => read["intermediate"] # {}
  /\ profile = "sovereign" => pq

\* The policies a node can have started with, one for each profile, trust
\* level in the environment, and presence of the ML-DSA key file.  Only an
\* edge node starts without trust.
Started(profile, configured, pq) ==
  LET level == LevelOf(configured, policy.read)
  IN [profile |-> profile, level |-> level, read |-> policy.read, pq |-> pq,
      ready |-> Ready(policy.read, level, pq, profile)]
StartedPolicies ==
  IF policy.done /\ policy.todo = <<>>
  THEN {pol \in {Started(profile, configured, pq) :
                    profile \in NodeProfiles, configured \in Levels, pq \in BOOLEAN} :
          pol.ready \/ pol.profile = "edge"}
  ELSE {}

\* What alrios_supervisor_policy_evaluate_package finds out about a package.
EdValid(pol, p) ==
  pol.ready /\ \E k \in PublicKey(pol.read, pol.level) : SignatureHolds(p, p.ed, k)
ChainValid(pol, now) ==
  CASE pol.level = 1 -> TRUE
    [] pol.level = 2 -> \E i \in pol.read["intermediate"] :
                           Lookup(Store(pol.read["root"]), i.issuer) # {}
    [] OTHER -> ChainOf(pol.read, now)
\* The node's ML-DSA key is the key 0, which only Delivered packages use.
MlValid(pol, p) == pol.pq /\ SignatureHolds(p, p.pq, 0)

\* alrios_supervisor_evaluate_policy; only an unsigned package counts as
\* verified developer mode.
Classical(pol, p, now) == p.ed # {} /\ EdValid(pol, p) /\ ChainValid(pol, now)
Hybrid(pol, p, now) == Classical(pol, p, now) /\ MlValid(pol, p) /\ p.pqc
SignedOk(pol, p, now) == Classical(pol, p, now) /\ (p.pqc => Hybrid(pol, p, now))
Devmode(p) == p.legacy \/ p.ring = "devmode"
DevVerified(pol, p) == pol.profile # "sovereign" /\ p.ed = {} /\ p.pq = {}

\* validate_requirements: an ML-DSA signature alone is an inconsistent
\* request.
Consistent(p) == p.ed = {} => p.pq = {}

\* A legacy package is presented as unsigned developer mode.
Admits(pol, p, now) ==
  /\ p.legacy \/ Valid(p, now)
  /\ Consistent(p)
  /\ CASE pol.profile = "sovereign" -> Hybrid(pol, p, now) /\ ~ Devmode(p)
       [] pol.profile = "enterprise" -> IF p.ed # {} THEN SignedOk(pol, p, now)
                                        ELSE Devmode(p) /\ DevVerified(pol, p)
       [] OTHER -> /\ Devmode(p) => DevVerified(pol, p)
                   /\ p.ed # {} => SignedOk(pol, p, now)

(***************************************************************************)
(* The sovereign loader                                                    *)
(***************************************************************************)
\* verify_envelope, with the leaf's key and certificates.
EnvelopeHolds(pol, p, allowUnsigned, requirePqc, now) ==
  /\ Valid(p, now)
  /\ IF p.ed = {} THEN p.pq = {} /\ ~ p.pqc /\ allowUnsigned
     ELSE /\ ChainOf(pol.read, now)
          /\ requirePqc => p.pqc
          /\ p.pqc <=> p.pq # {}
          /\ \E k \in PublicKey(pol.read, 3) : SignatureHolds(p, p.ed, k)
          /\ p.pqc => MlValid(pol, p)

\* decrypt_payload compares the clear text with the hash in the envelope.
Stages(pol, p, allowUnsigned, requirePqc, now) ==
  EnvelopeHolds(pol, p, allowUnsigned, requirePqc, now) /\ p.sha = p.data

TimePasses == /\ time < MaxTime /\ time' = time + 1
              /\ UNCHANGED <<caVars, artifact, makerVars, signVars, policy>>

(***************************************************************************)
(* The specification: a chain issued at time 1 is in use, and one ceremony *)
(* died already, before its first file or, for the intermediate, between   *)
(* its two files.                                                          *)
(***************************************************************************)
FirstKey == [root |-> 1, intermediate |-> 2, leaf |-> 3]
FirstCert(role) ==
  [role |-> role, key |-> FirstKey[role], issuer |-> FirstKey[Parent[role]], from |-> 1,
   until |-> FirstUntil[role], by |-> FirstKey[Parent[role]]]

TrustInit ==
  /\ time = 2 /\ keys = 4 /\ signs = 0
  /\ certFile \in {[r \in Roles |-> {FirstCert(r)}],
                   [r \in Roles |-> IF r = "intermediate" THEN {[FirstCert(r) EXCEPT !.key = 4]}
                                    ELSE {FirstCert(r)}]}
  /\ keyFile = [r \in Roles |-> {FirstKey[r]}]
  /\ ca = CaIdle
  /\ artifact \in {{}} \union {{p} : p \in Installed}
  /\ exists = (artifact # {}) /\ maker = {} /\ detached = {}
  /\ arsign = SignIdle
  /\ approved = UNION {p.ed \union p.pq : p \in Delivered \union Installed}
  /\ policy = NotLoaded

TrustNext ==
  \/ \E role \in Roles : CaStart(role)
  \/ CaIssue \/ CaWrite \/ CaDies
  \/ MakerCreates \/ MakerEnds \/ PackageArrives \/ PackageDamaged
  \/ \E op \in {"embed", "detach", "verify"} : SignStart(op)
  \/ SignReads \/ SignChecks \/ SignLoadsKey \/ SignMakes \/ SignWrites \/ SignAnswers \/ SignDies
  \/ PolicyStarts \/ PolicyReads \/ PolicyStops
  \/ TimePasses

TrustSpec == TrustInit /\ [][TrustNext]_trustVars

(***************************************************************************)
(* Properties                                                              *)
(***************************************************************************)
TrustTypeOK ==
  /\ time \in 2..MaxTime /\ keys \in 4..MaxKeys /\ exists \in BOOLEAN
  /\ \A r \in Roles : /\ AtMostOne(certFile[r]) /\ \A c \in certFile[r] : c.role = r
                      /\ AtMostOne(keyFile[r]) /\ keyFile[r] \subseteq 1..MaxKeys
  /\ AtMostOne(artifact) /\ AtMostOne(detached)
  /\ ca.pc \in {"idle", "issue", "cert", "cert2", "key", "key2"}
  /\ arsign.pc \in {"idle", "chain", "key", "sign", "truncate", "write"}
  /\ \A pol \in StartedPolicies : pol.level \in 1..3

\* The chain of keys behind the certificates that were read: each signed
\* with the key of the one above, all of them current, the last one's key k.
Certified(read, k) ==
  \E r \in read["root"], i \in read["intermediate"], l \in read["leaf"] :
     /\ i.by = r.key /\ l.by = i.key /\ l.key = k
     /\ \A c \in {r, i, l} : InWindow(c, time)

\* Ceremonies that were neither interrupted nor interleaved: the issuer that
\* is named is the one that signed.
WholeCeremonies(read) == \A r \in Roles : \A c \in read[r] : c.issuer = c.by

\* Asking the policy or the loader about a package changes nothing, so the
\* answers are looked at in every state: at any moment, with whatever
\* ceremonies, signings and damage went before.
\*
\* A launch decided with a full chain (policy.c:644), a staging
\* (sovereign_loader.c:143) and a notary verification (notary.c:452) say yes
\* to a signed package only if its signer is certified up to the anchor, with
\* every certificate current; and when the chain comes from whole ceremonies,
\* an enterprise node launches whatever the certified leaf key signed, asking
\* for no ML-DSA signature, and nobody changed.
LaunchedAsCertified ==
  /\ \A pol \in StartedPolicies, p \in artifact, s \in UNION {q.ed : q \in artifact} :
       /\ pol.level = 3 /\ ~ p.legacy /\ Admits(pol, p, time) => Certified(pol.read, s.by)
       /\ \A unsigned, pqc \in BOOLEAN :
            Stages(pol, p, unsigned, pqc, time) => Certified(pol.read, s.by)
       /\ pol.profile = "enterprise" /\ pol.level = 3 /\ ~ p.pqc /\ Valid(p, time)
          /\ Certified(pol.read, s.by) /\ WholeCeremonies(pol.read)
          /\ s \in approved /\ s.of = Tbs(p) => Admits(pol, p, time)
  /\ Verifying => \A p \in artifact, sig \in detached :
       NotaryAccepts(arsign.read, p, sig, time) => Certified(arsign.read, sig.by) /\ sig.of = p

\* Whatever the profile and the trust level: a package that carries a
\* signature starts only with the content some holder of the signing key
\* approved, inside its own period; and on a sovereign node nothing starts
\* without both signatures (policy.c:480-488).  Damage between signing and
\* launching, and a package truncated by a dying arsign, never start.
SignedContentOnly ==
  \A pol \in StartedPolicies, p \in artifact :
    Admits(pol, p, time) \/ (\E pqc \in BOOLEAN : Stages(pol, p, FALSE, pqc, time)) =>
      /\ p.ed # {} /\ ~ p.legacy => /\ [by |-> (CHOOSE s \in p.ed : TRUE).by, of |-> Tbs(p)] \in approved
                                   /\ time <= p.expires
      /\ pol.profile = "sovereign" /\ Admits(pol, p, time) =>
            p.ed # {} /\ [by |-> 0, of |-> Tbs(p)] \in approved

\* Both at once, over every answer that can be asked for.
CertifiedContentOnly == TrustTypeOK /\ LaunchedAsCertified /\ SignedContentOnly
=============================================================================

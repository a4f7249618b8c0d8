----------------------------- MODULE Encryption -----------------------------
(***************************************************************************)
(* Encryption at rest: the key providers of crates/galaxdb-crypto          *)
(* (key_provider.rs, cloud_kms.rs), the AEGIS-256 module that seals PAX    *)
(* blocks (aegis_tde.rs), and what flush, compaction, get and the scans of *)
(* galaxdb-storage do with a sealed block.                                 *)
(*                                                                         *)
(* Ciphers are ideal: a block or a wrapped key opens under the key that    *)
(* sealed it and under no other.  Data keys are numbered as they are       *)
(* drawn; 0 is key material of the wrong length.  The WAL is not sealed    *)
(* and is never cut, so a reopened engine holds every row in its memtable. *)
(***************************************************************************)
EXTENDS Naturals, FiniteSets

CONSTANTS
    SealKeys,       \* rows, told apart by key
    MasterKeys,     \* master keys
    ProviderKinds,  \* key providers in use
    NoncePrefixes,       \* nonce prefixes a module can draw
    MaxFiles, MaxModules, MaxReopens     \* bounds

Providers == [kind : ProviderKinds, master : MasterKeys]

ASSUME EncryptionConstants ==
    /\ ProviderKinds \subseteq {"local", "env", "command", "vault", "aws", "gcp", "azure"}
    /\ IsFiniteSet(SealKeys) /\ MaxFiles \in Nat /\ MaxModules \in Nat /\ MaxReopens \in Nat

VARIABLES
    tde,            \* the module of this process: {} or one record
    wrapped,        \* the wrapped data key the operator keeps: {} or one
    sealed,         \* files on disk: [no, rows, dek]; dek 0 is plaintext
    flagged,        \* registry: file number -> its encrypted flag
    memRows, place, \* rows in the memtable; row -> file number, 0 for memtable
    drawn,          \* modules built so far; numbers the data keys drawn
    fileNo, reopens,
    spent,          \* history: nonces used, per data key
    repeated,       \* history: a prefix was drawn twice for a data key
    nonceReused, rekeyed     \* history

encVars == <<tde, wrapped, sealed, flagged, memRows, place, drawn, fileNo, reopens, spent,
             repeated, nonceReused, rekeyed>>

EncInit ==
    /\ tde = {} /\ wrapped = {} /\ sealed = {} /\ flagged = <<>>
    /\ memRows = {} /\ place = [k \in SealKeys |-> 0]
    /\ drawn = 0 /\ fileNo = 0 /\ reopens = 0
    /\ spent = {} /\ repeated = FALSE /\ nonceReused = FALSE /\ rekeyed = FALSE

----------------------------------------------------------------------------
(* Key providers.  A call gives a set: one result, or none for an error.   *)

\* What a command or a service replies to a request for key d: nothing
\* usable, key material of another length, or d.
Answers == {"good", "short", "malformed", "down"}
Reply(answer, d) ==
    CASE answer \in {"malformed", "down"} -> {}
      [] answer = "short" -> {0}
      [] answer = "good" -> {d}

\* KeyProviderSpec::build: `config` is whether the key file, variable or
\* token the kind needs is there and well formed.  A command is not tried.
Build(p, config) == {q \in {p} : config \/ p.kind = "command"}

\* A key sealed under a master key; the AES-GCM form is the same for a key
\* file and for an environment variable.
Wrap(p, d) == [under |-> p.master, dek |-> d,
               form |-> IF p.kind \in {"local", "env"} THEN "aes" ELSE p.kind]
Opens(p, b) == b.form = Wrap(p, 0).form /\ b.under = p.master

DataKey(p, d) == [dek |-> d, blob |-> Wrap(p, d)]

LocalGenerate(p, d) == {DataKey(p, d)}
LocalDecrypt(p, b) == {d \in {b.dek} : Opens(p, b)}

\* Two base64 lines on stdout; a key that is not 32 bytes is refused.
CommandGenerate(p, d, answer) == {DataKey(p, k) : k \in Reply(answer, d) \ {0}}
CommandDecrypt(p, b, answer) == {d \in Reply(answer, b.dek) \ {0} : Opens(p, b)}

\* The key is drawn here, the service wraps it.
VaultGenerate(p, d, answer) == {DataKey(p, d) : k \in Reply(answer, d)}
VaultDecrypt(p, b, answer) == {d \in Reply(answer, b.dek) \ {0} : Opens(p, b)}

\* The service draws the key.  A decryption request names no key: the
\* service finds it from the blob.  Neither looks at the length.
AwsGenerate(p, d, answer) == {DataKey(p, k) : k \in Reply(answer, d)}
AwsDecrypt(p, b, answer) == {d \in Reply(answer, b.dek) : b.form = "aws"}

GcpGenerate(p, d, answer) == {DataKey(p, d) : k \in Reply(answer, d)}
GcpDecrypt(p, b, answer) == {d \in Reply(answer, b.dek) : Opens(p, b)}

AzureGenerate(p, d, answer) == {DataKey(p, d) : k \in Reply(answer, d)}
AzureDecrypt(p, b, answer) == {d \in Reply(answer, b.dek) : Opens(p, b)}

generate_data_key(p, d, answer) ==
    CASE p.kind \in {"local", "env"} -> LocalGenerate(p, d)
      [] p.kind = "command" -> CommandGenerate(p, d, answer)
      [] p.kind = "vault" -> VaultGenerate(p, d, answer)
      [] p.kind = "aws" -> AwsGenerate(p, d, answer)
      [] p.kind = "gcp" -> GcpGenerate(p, d, answer)
      [] p.kind = "azure" -> AzureGenerate(p, d, answer)

decrypt_data_key(p, b, answer) ==
    CASE p.kind \in {"local", "env"} -> LocalDecrypt(p, b)
      [] p.kind = "command" -> CommandDecrypt(p, b, answer)
      [] p.kind = "vault" -> VaultDecrypt(p, b, answer)
      [] p.kind = "aws" -> AwsDecrypt(p, b, answer)
      [] p.kind = "gcp" -> GcpDecrypt(p, b, answer)
      [] p.kind = "azure" -> AzureDecrypt(p, b, answer)

----------------------------------------------------------------------------
(* The module: AegisTdeModule::new, from_encrypted_key; Engine::enable_tde *)

\* A fresh prefix, the counter at 0.  The module replaces the one in place.
Install(d, b, x) ==
    /\ tde' = {[dek |-> d, prefix |-> x, counter |-> 0]}
    /\ wrapped' = {b}
    /\ repeated' = (repeated \/ \E n \in spent : n.dek = d /\ n.prefix = x)
    /\ rekeyed' = (rekeyed \/ \E m \in tde : m.dek # d)
    /\ UNCHANGED <<sealed, flagged, memRows, place, fileNo, reopens, spent, nonceReused>>

\* The module refuses a key that is not 32 bytes long.
NewModule(p, config, answer, x) ==
    /\ drawn < MaxModules /\ drawn' = drawn + 1
    /\ \E q \in Build(p, config), r \in generate_data_key(p, drawn + 1, answer) :
          r.dek # 0 /\ Install(r.dek, r.blob, x)

FromEncryptedKey(p, config, answer, b, x) ==
    /\ drawn < MaxModules /\ drawn' = drawn + 1
    /\ \E q \in Build(p, config), d \in decrypt_data_key(p, b, answer) :
          d # 0 /\ Install(d, b, x)

NextNonces(m, n) ==
    {[dek |-> m.dek, prefix |-> m.prefix, no |-> m.counter + i - 1] : i \in 1 .. n}

\* A file of `rows`, a block each, written and registered.  `flag` is the
\* encrypted flag register or register_encrypted gives it.
SealFile(rows, flag, kept) ==
    LET no    == fileNo + 1
        n     == Cardinality(rows)
        under == IF tde = {} THEN 0 ELSE (CHOOSE m \in tde : TRUE).dek
        fresh == UNION {NextNonces(m, n) : m \in tde}
    IN  /\ fileNo < MaxFiles /\ fileNo' = no
        /\ sealed' = kept \cup {[no |-> no, rows |-> rows, dek |-> under]}
        /\ flagged' = [i \in {f.no : f \in kept} \cup {no} |->
                          IF i = no THEN flag ELSE flagged[i]]
        /\ tde' = {[m EXCEPT !.counter = @ + n] : m \in tde}
        /\ spent' = spent \cup fresh
        /\ nonceReused' = (nonceReused \/ fresh \cap spent # {}
                                       \/ (tde # {} /\ Cardinality(fresh) < n))
        /\ UNCHANGED <<wrapped, drawn, reopens, repeated, rekeyed>>

----------------------------------------------------------------------------
(* Writes, reads and the files                                             *)

PutRow(k) ==
    /\ memRows' = memRows \cup {k} /\ place' = [place EXCEPT ![k] = 0]
    /\ UNCHANGED <<tde, wrapped, sealed, flagged, drawn, fileNo, reopens, spent, repeated,
                   nonceReused, rekeyed>>

\* flush_memtable: every row of the memtable, sealed if there is a module.
FlushSealed ==
    /\ memRows # {}
    /\ SealFile(memRows, tde # {}, sealed)
    /\ place' = [k \in SealKeys |-> IF k \in memRows THEN fileNo + 1 ELSE place[k]]
    /\ memRows' = {}

\* The block is opened if its file is flagged and there is a module; else its
\* bytes are taken as they are.  An error is "fails", ciphertext "garbage".
OpenBlock(f) ==
    IF flagged[f.no] /\ tde # {}
    THEN IF \E m \in tde : m.dek = f.dek THEN "rows" ELSE "fails"
    ELSE IF f.dek = 0 THEN "rows" ELSE "garbage"

\* SstRegistry::read_value: one block is read, an error is no row.
GetSealed(k) ==
    \/ place[k] = 0 /\ k \in memRows
    \/ \E f \in sealed : f.no = place[k] /\ k \in f.rows /\ OpenBlock(f) = "rows"

\* The flag of a compaction's output when register is always called.
CompactFlagPlain == FALSE
CompactFlag == tde # {}

\* compact_inner: a block that does not open ends it, one that does not
\* parse is passed over; the inputs are removed.
CompactSealed ==
    LET rows == UNION {f.rows : f \in {g \in sealed : OpenBlock(g) = "rows"}}
    IN  /\ Cardinality(sealed) > 1
        /\ \A f \in sealed : OpenBlock(f) # "fails"
        /\ IF rows = {}
           THEN sealed' = {} /\ flagged' = <<>> /\ fileNo < MaxFiles
                /\ UNCHANGED <<tde, wrapped, drawn, fileNo, reopens, spent, repeated,
                               nonceReused, rekeyed, place>>
           ELSE /\ SealFile(rows, CompactFlag, {})
                /\ place' = [k \in SealKeys |->
                                IF place[k] # 0 /\ k \in rows THEN fileNo + 1 ELSE place[k]]
        /\ UNCHANGED memRows

\* Engine::new after a stop: no module, every SST registered as plaintext,
\* every row replayed from the WAL.
Reopen ==
    LET all == memRows \cup {k \in SealKeys : place[k] # 0}
    IN  /\ reopens < MaxReopens /\ reopens' = reopens + 1
        /\ tde' = {} /\ flagged' = [i \in DOMAIN flagged |-> FALSE]
        /\ memRows' = all /\ place' = [k \in SealKeys |-> 0]
        /\ UNCHANGED <<wrapped, sealed, drawn, fileNo, spent, repeated, nonceReused, rekeyed>>

EncNext ==
    \/ \E k \in SealKeys : PutRow(k)
    \/ FlushSealed \/ CompactSealed \/ Reopen
    \/ \E p \in Providers, config \in BOOLEAN, answer \in Answers, x \in NoncePrefixes :
          \/ NewModule(p, config, answer, x)
          \/ \E b \in wrapped : FromEncryptedKey(p, config, answer, b, x)

EncSpec == EncInit /\ [][EncNext]_encVars

----------------------------------------------------------------------------
(* Properties                                                              *)

Written == memRows \cup {k \in SealKeys : place[k] # 0}

\* get returns every row put, through flushes, compactions and reopenings
\* with or without a module, from files sealed and plain, as long as
\* enable_tde never replaced a module by one with another data key; and no
\* two blocks are sealed under one data key with one nonce, by flushes or
\* compactions, before or after the key is unwrapped again, unless a module
\* drew a prefix that an earlier module of that key had drawn.
SealedRowsReadUnlessRekeyed ==
    /\ rekeyed \/ \A k \in Written : GetSealed(k)
    /\ repeated \/ ~nonceReused

=============================================================================

----------------------------- MODULE VaultStore -----------------------------
(***************************************************************************)
(* The secret vault: encrypted stores saved in place into one file, loaded *)
(* while they are being saved, opened, parsed and handed to an application *)
(* as an environment or as a sealed memfd (libraries/vault/store.c).       *)
(*                                                                         *)
(* A store is a number (its salt, nonce and tag); AES-GCM opens a blob     *)
(* only with the key it was sealed with and only if every block of it is   *)
(* the store's own.  A secret's value is a sequence of lines, each <<name, *)
(* text>>: the first is named by its key, a further one (a JSON value may  *)
(* contain a line feed) by whatever it begins with.                        *)
(***************************************************************************)
EXTENDS Naturals, Sequences

CONSTANTS Savers, Readers, \* processes
          Texts,           \* the plaintext of store i: [json, entries, blocks, sealing]
          NoApp,           \* app_id == NULL
          Requests,        \* what readers ask: [app, keys, material]
          DefaultIters,    \* ALRIOS_VAULT_DEFAULT_PBKDF2_ITERS
          MaxSaves         \* bound: calls of save_file

VARIABLES header, blob,    \* the file: the store its header names, its blocks
          saver, saves,
          reader,
          fds              \* memfds that exist: [of, sealed]

vaultVars == <<header, blob, saver, saves, reader, fds>>

ASSUME VaultAssumption ==
  Requests # {} /\ \A s \in DOMAIN Texts : Texts[s].blocks \in Nat

Stores == DOMAIN Texts
NoStore == 0

(***************************************************************************)
(* Keys and blobs                                                          *)
(***************************************************************************)
\* derive_store_key: 32 raw bytes are the key; a passphrase, or any material
\* with an iteration count, goes through PBKDF2 with the salt of the store.
DeriveKey(store, material, iterations) ==
  IF material.raw /\ iterations = 0 THEN <<material.id>>
  ELSE <<material.id, store, IF iterations = 0 THEN DefaultIters ELSE iterations>>

SealKey(store) == DeriveKey(store, Texts[store].sealing.material, Texts[store].sealing.iterations)

\* Mutant: the tag of the blob is not verified.
MutNoTag(store, blocks, key) == key = SealKey(store)

\* decrypt_store
Opens(store, blocks, key) == /\ key = SealKey(store)
                             /\ \A i \in DOMAIN blocks : blocks[i] = store

(***************************************************************************)
(* Parsing and rendering                                                   *)
(***************************************************************************)
\* records_add: a record whose key or application has no valid name is a
\* fault of the schema.
AddResult(e) == IF e.fault = "name" THEN "schema" ELSE "ok"

\* One line of parse_line_records.
LineResult(e) == IF e.fault = "no_equals" THEN "format" ELSE AddResult(e)

\* json_parse_string: a string is malformed or too long; an escaped line feed
\* becomes part of the value.
StringResult(e) ==
  CASE e.fault = "malformed" -> "format" [] e.fault = "too_long" -> "schema" [] OTHER -> "ok"

\* One member of parse_json_records, with its strings.
MemberResult(e) == IF StringResult(e) = "ok" THEN AddResult(e) ELSE StringResult(e)

\* parse_records: blank lines and comments count for nothing; the first line
\* or member at fault decides; no record at all is a fault of the schema.
Records(text) == {i \in DOMAIN text.entries : text.json \/ text.entries[i].fault # "comment"}
ParseResult(text) ==
  LET Result(i) == IF text.json THEN MemberResult(text.entries[i]) ELSE LineResult(text.entries[i])
      faulty == {i \in Records(text) : Result(i) # "ok"}
  IN  IF faulty # {} THEN Result(CHOOSE i \in faulty : \A j \in faulty : i <= j)
      ELSE IF Records(text) = {} THEN "schema" ELSE "ok"

Belongs(entry, app) == entry.app = app
Authorized(key, keys) == keys = {} \/ key \in keys

Selected(text, r) == {i \in Records(text) : /\ Belongs(text.entries[i], r.app)
                                            /\ Authorized(text.entries[i].key, r.keys)}

\* render_records joins "key=value" with line feeds, in the order of the
\* records, and inject_envp_for_app splits at line feeds: the lines of the
\* environment, each under its place <<record, line>>.
Environment(text, selected) ==
  [place \in UNION {{i} \X DOMAIN text.entries[i].lines : i \in selected} |->
     text.entries[place[1]].lines[place[2]]]

\* alrios_vault_decrypt_and_inject_for_app, on what was loaded.
Failed(status) == [status |-> status, env |-> <<>>]
Inject(store, blocks, r) ==
  LET parsed == ParseResult(Texts[store])
      selected == Selected(Texts[store], r)
  IN  IF ~ Opens(store, blocks, DeriveKey(store, r.material, 0)) THEN Failed("crypto")
      ELSE IF parsed # "ok" THEN Failed(parsed)
      ELSE IF r.app # NoApp /\ selected = {} THEN Failed("not_found")
      ELSE [status |-> "ok", env |-> Environment(Texts[store], selected)]

(***************************************************************************)
(* alrios_vault_store_save_file: open with O_TRUNC, then the header, then  *)
(* the blob, each at the saver's own offset; nothing excludes a second one *)
(***************************************************************************)
Resting == [pc |-> "idle", store |-> NoStore, blocks |-> <<>>, request |-> CHOOSE r \in Requests : TRUE,
            result |-> Failed("none")]

VaultInit == /\ header = NoStore /\ blob = <<>>
             /\ saver = [p \in Savers |-> [pc |-> "idle", store |-> NoStore]]
             /\ saves = 0
             /\ reader = [p \in Readers |-> Resting]
             /\ fds = {}

Truncate(p) == /\ saver[p].pc = "idle" /\ saves < MaxSaves
               /\ \E s \in Stores : saver' = [saver EXCEPT ![p] = [pc |-> "header", store |-> s]]
               /\ saves' = saves + 1
               /\ header' = NoStore /\ blob' = <<>>
               /\ UNCHANGED <<reader, fds>>

WriteHeader(p) == /\ saver[p].pc = "header"
                  /\ header' = saver[p].store
                  /\ saver' = [saver EXCEPT ![p].pc = "blob"]
                  /\ UNCHANGED <<blob, saves, reader, fds>>

\* The blocks of the saver over whatever is there.
Overlay(blocks, store) ==
  [i \in 1 .. (IF Len(blocks) > Texts[store].blocks THEN Len(blocks) ELSE Texts[store].blocks)
     |-> IF i <= Texts[store].blocks THEN store ELSE blocks[i]]

WriteBlob(p) == /\ saver[p].pc = "blob"
                /\ blob' = Overlay(blob, saver[p].store)
                /\ saver' = [saver EXCEPT ![p].pc = "idle"]
                /\ UNCHANGED <<header, saves, reader, fds>>

\* A write fails or the process ends: the file stays as it is.
SaveStops(p) == /\ saver[p].pc /= "idle"
                /\ saver' = [saver EXCEPT ![p].pc = "idle"]
                /\ UNCHANGED <<header, blob, saves, reader, fds>>

(***************************************************************************)
(* A process that loads the file and injects                               *)
(***************************************************************************)
LoadHeader(p) == /\ reader[p].pc = "idle"
                 /\ \E r \in Requests :
                      reader' = [reader EXCEPT ![p] =
                        IF header = NoStore
                        THEN [Resting EXCEPT !.pc = "done", !.result = Failed("format")]
                        ELSE [Resting EXCEPT !.pc = "blob", !.store = header, !.request = r]]
                 /\ UNCHANGED <<header, blob, saver, saves, fds>>

\* As many bytes as the header announces, and then the end of the file.
BlobComplete(store) == Len(blob) = Texts[store].blocks

LoadBlob(p) == /\ reader[p].pc = "blob"
               /\ reader' = [reader EXCEPT ![p] =
                    IF BlobComplete(reader[p].store)
                    THEN [reader[p] EXCEPT
                            !.pc = "inject",
                            !.blocks = SubSeq(blob, 1, Texts[reader[p].store].blocks)]
                    ELSE [Resting EXCEPT !.pc = "done", !.result = Failed("format")]]
               /\ UNCHANGED <<header, blob, saver, saves, fds>>

\* alrios_vault_inject_envp_for_app; plaintext, records and buffer are
\* cleared on every path.
InjectEnv(p) ==
  LET result == Inject(reader[p].store, reader[p].blocks, reader[p].request)
  IN  /\ reader[p].pc = "inject"
      /\ reader' = [reader EXCEPT ![p].pc = "done", ![p].result = result]
      /\ UNCHANGED <<header, blob, saver, saves, fds>>

\* alrios_vault_inject_memfd_for_app: a new memfd, written, then sealed; a
\* failure in between closes it, and the text buffer is cleared always.
MemfdCreate(p) ==
  /\ reader[p].pc = "inject"
  /\ Inject(reader[p].store, reader[p].blocks, reader[p].request).status = "ok"
  /\ fds' = fds \union {[of |-> p, sealed |-> FALSE]}
  /\ reader' = [reader EXCEPT ![p].pc = "memfd"]
  /\ UNCHANGED <<header, blob, saver, saves>>

MemfdSeal(p) ==
  /\ reader[p].pc = "memfd"
  /\ fds' = {f \in fds : f.of /= p} \union {[of |-> p, sealed |-> TRUE]}
  /\ reader' = [reader EXCEPT ![p].pc = "done",
                  ![p].result = Inject(reader[p].store, reader[p].blocks, reader[p].request)]
  /\ UNCHANGED <<header, blob, saver, saves>>

WithoutMemfd(p) == {f \in fds : f.of /= p}

MemfdFails(p) == /\ reader[p].pc = "memfd"
                 /\ fds' = WithoutMemfd(p)
                 /\ reader' = [reader EXCEPT ![p] =
                                 [Resting EXCEPT !.pc = "done", !.result = Failed("memfd")]]
                 /\ UNCHANGED <<header, blob, saver, saves>>

\* The caller hands over and frees what it got.
Free(p) == /\ reader[p].pc = "done"
           /\ reader' = [reader EXCEPT ![p] = Resting]
           /\ fds' = WithoutMemfd(p)
           /\ UNCHANGED <<header, blob, saver, saves>>

VaultNext == \/ \E p \in Savers : \/ Truncate(p) \/ WriteHeader(p) \/ WriteBlob(p)
                                  \/ SaveStops(p)
             \/ \E p \in Readers : \/ LoadHeader(p) \/ LoadBlob(p) \/ InjectEnv(p)
                                   \/ MemfdCreate(p) \/ MemfdSeal(p) \/ MemfdFails(p)
                                   \/ Free(p)

VaultSpec == VaultInit /\ [][VaultNext]_vaultVars

(***************************************************************************)
(* Properties                                                              *)
(***************************************************************************)
VaultTypeOK == /\ header \in Stores \union {NoStore}
               /\ blob \in Seq(Stores)
               /\ \A p \in Savers : saver[p].pc \in {"idle", "header", "blob"}
               /\ \A p \in Readers :
                    reader[p].pc \in {"idle", "blob", "inject", "memfd", "done"}
               /\ fds \subseteq [of : Readers, sealed : BOOLEAN]

SingleLine(text) == \A i \in Records(text) : Len(text.entries[i].lines) = 1

\* The environment holds the records of the application whose names are
\* authorized, each in its place, and nothing else.
HoldsTheSecrets(env, text, r) ==
  /\ \A place \in DOMAIN env :
       LET e == text.entries[place[1]]
       IN /\ place[1] \in Records(text) /\ place[2] = 1 /\ env[place] = e.lines[1]
          /\ e.app = r.app /\ (r.keys # {} => e.key \in r.keys)
  /\ \A i \in Records(text) :
       Belongs(text.entries[i], r.app) /\ Authorized(text.entries[i].key, r.keys)
         => <<i, 1>> \in DOMAIN env

\* What a call delivers is the secrets of one store that was saved whole,
\* whichever savers wrote, stopped or overwrote one another while it read:
\* all the records of the application whose names are authorized, in their
\* order, and (for values of one line) nothing else.  A call that fails
\* delivers nothing and leaves no memfd open, and a memfd that is delivered
\* can no longer be changed (store.c: load_file, decrypt_store,
\* render_records, inject_memfd_for_app).
DeliversOneStore ==
  /\ VaultTypeOK
  /\ \A p \in Readers : LET r == reader[p] IN
       r.pc = "done" =>
         IF r.result.status = "ok"
         THEN /\ r.store \in Stores
              /\ Opens(r.store, r.blocks, DeriveKey(r.store, r.request.material, 0))
              /\ Len(r.blocks) = Texts[r.store].blocks
              /\ \A i \in DOMAIN r.blocks : r.blocks[i] = r.store
              /\ SingleLine(Texts[r.store]) =>
                   HoldsTheSecrets(r.result.env, Texts[r.store], r.request)
              /\ \A f \in fds : f.of = p => f.sealed
         ELSE r.result.env = <<>> /\ \A f \in fds : f.of /= p
=============================================================================

----------------------------- MODULE Credentials ----------------------------
(***************************************************************************)
(* The keys of the two AI services (modules/security/credentials.py), their *)
(* settings, and the routes of ui/app.py that save, delete, test and       *)
(* migrate them.  The routes run one after the other on the event loop; an *)
(* analysis or a decision resolves its key on a thread of its own, at any  *)
(* point between two steps of a route.  The store is the credential file of *)
(* Linux and of the container.                                             *)
(***************************************************************************)
EXTENDS Naturals, FiniteSets

CONSTANTS Purposes,   \* text and vision
          Keys,
          Readers,    \* threads that resolve a key
          MaxSaves,   \* saves of keys or settings in a behaviour
          MaxMishaps,  \* crashes, failed or torn writes, damaged files
          Damaged,    \* a file that is unreadable, oversized or not ours
          Junk,       \* a blank or placeholder value
          Nothing

ASSUME CredentialsAssumption == MaxSaves \in Nat /\ MaxMishaps \in Nat /\ Purposes # {}
ASSUME ValuesAssumption ==
  /\ Nothing \notin Keys \union Purposes /\ Junk \notin Keys
  /\ Damaged \notin [Purposes -> Keys \union {Nothing}]

VARIABLES
  env,      \* [Purposes -> key, Junk or Nothing]: fixed while the process runs
  file,     \* the credential file: [Purposes -> key or Nothing], or Damaged
  cache,    \* _cache: [Purposes -> key or Nothing]
  test,     \* [Purposes -> Nothing or [key, result]]: the last connection test
  legacy,   \* [Purposes -> key or Nothing]: api_key left in config.yaml
  config,   \* [Purposes -> settings]: the rest of its section in config.yaml
  app,      \* [Purposes -> settings]: APP_CONFIG
  migrating, \* the purpose between its two writes, or Nothing
  reader,   \* [Readers -> Nothing or [purpose, value]]: the file was read
  overtaken, \* purposes changed while a reader held what it read, or by hand
  torn,     \* config.yaml was left truncated
  saves, mishaps

keyVars == <<env, file, cache, test, legacy, config, app, migrating, reader, overtaken, torn, saves, mishaps>>
settings == <<legacy, config, app, torn>>

Empty == [p \in Purposes |-> Nothing]
Default == [endpoint |-> "public", private |-> FALSE]
Settings == [endpoint : {"public", "private"}, private : BOOLEAN]
Mishap == mishaps < MaxMishaps /\ mishaps' = mishaps + 1
Idle == migrating = Nothing

(* The environment counts only with a usable value when a key is resolved, *)
(* but the routes refuse to change a key whenever it is set.               *)
FromEnv(p) == env[p] \in Keys
Refused(p) == env[p] # Nothing

(* validate_endpoint: a private address needs the switch. *)
Allowed(s) == s.endpoint = "public" \/ s.private

----------------------------------------------------------------------------
(* The file.                                                               *)

(* _read_file_store: what a save may start from; nothing if it is damaged. *)
Stored == {file} \ {Damaged}

With(p, k) == {[stored EXCEPT ![p] = k] : stored \in Stored}

(* A reader that read p before its key changed will put it in the cache.   *)
Overtakes(p) ==
  (overtaken \ {p}) \union
    (IF \E r \in Readers : reader[r] # Nothing /\ reader[r].purpose = p THEN {p} ELSE {})

(* Mutant of Forgets: the cache is left to run out. *)
ForgetsTestOnly(p) == cache' = cache /\ test' = [test EXCEPT ![p] = Nothing]

Forgets(p) == cache' = [cache EXCEPT ![p] = Nothing] /\ test' = [test EXCEPT ![p] = Nothing]

----------------------------------------------------------------------------
(* Resolving.                                                              *)

(* What resolve_credential answers if nothing happens while it runs.       *)
Resolved(p) ==
  CASE FromEnv(p) -> env[p]
    [] ~FromEnv(p) /\ cache[p] # Nothing -> cache[p]
    [] ~FromEnv(p) /\ cache[p] = Nothing /\ file # Damaged -> file[p]
    [] OTHER -> Nothing

(* The cache after it.  A value found in the file stays for the time limit. *)
Cached(p) == IF FromEnv(p) THEN cache ELSE [cache EXCEPT ![p] = Resolved(p)]

ReaderReads(r, p) ==
  /\ reader[r] = Nothing /\ ~FromEnv(p) /\ cache[p] = Nothing
  /\ file # Damaged /\ file[p] # Nothing
  /\ reader' = [reader EXCEPT ![r] = [purpose |-> p, value |-> file[p]]]
  /\ UNCHANGED <<env, file, cache, test, settings, migrating, overtaken, saves, mishaps>>

ReaderFills(r) ==
  /\ reader[r] # Nothing
  /\ cache' = [cache EXCEPT ![reader[r].purpose] = reader[r].value]
  /\ reader' = [reader EXCEPT ![r] = Nothing]
  /\ UNCHANGED <<env, file, test, settings, migrating, overtaken, saves, mishaps>>

(* Its time limit passes. *)
Expire(p) ==
  /\ cache[p] # Nothing /\ cache' = [cache EXCEPT ![p] = Nothing]
  /\ UNCHANGED <<env, file, test, settings, migrating, reader, overtaken, saves, mishaps>>

----------------------------------------------------------------------------
(* The routes of a key.                                                    *)

(* PUT: with test_before_replace the key is stored only if it works.       *)
PutCredential(p, k, tested) ==
  /\ Idle /\ ~Refused(p) /\ saves < MaxSaves /\ saves' = saves + 1
  /\ file' \in With(p, k) /\ cache' = [cache EXCEPT ![p] = Nothing]
  /\ tested => Allowed(app[p])
  /\ test' = [test EXCEPT ![p] = [key |-> k, result |-> IF tested THEN "success" ELSE "untested"]]
  /\ overtaken' = Overtakes(p)
  /\ UNCHANGED <<env, settings, migrating, reader, mishaps>>

(* DELETE: also of what is not there; the last key takes the file with it. *)
DeleteCredential(p) ==
  /\ Idle /\ ~Refused(p) /\ saves < MaxSaves /\ saves' = saves + 1
  /\ file' \in With(p, Nothing) /\ Forgets(p)
  /\ overtaken' = Overtakes(p)
  /\ UNCHANGED <<env, settings, migrating, reader, mishaps>>

(* POST test: the answer is recorded, except that there is no key.         *)
TestCredential(p) ==
  /\ Idle /\ saves < MaxSaves /\ saves' = saves + 1
  /\ Resolved(p) # Nothing /\ cache' = Cached(p)
  /\ \E result \in IF Allowed(app[p]) THEN {"success", "failed"} ELSE {"rejected"} :
       test' = [test EXCEPT ![p] = [key |-> Resolved(p), result |-> result]]
  /\ UNCHANGED <<env, file, settings, migrating, reader, overtaken, mishaps>>

(* POST migrate: only where no key is stored yet.  The cache is dropped    *)
(* before the look, so that only the file counts.                          *)
Migratable(p) ==
  /\ Idle /\ ~Refused(p) /\ legacy[p] # Nothing
  /\ file # Damaged /\ file[p] = Nothing

(* Otherwise nothing changes but the cache.                                *)
MigrateRefused(p) ==
  /\ Idle /\ ~Refused(p) /\ legacy[p] # Nothing
  /\ file # Damaged => file[p] # Nothing
  /\ cache' = [cache EXCEPT ![p] = IF file = Damaged THEN Nothing ELSE file[p]]
  /\ UNCHANGED <<env, file, test, settings, migrating, reader, overtaken, saves, mishaps>>

(* The key goes to the store first.                                        *)
MigrateStores(p) ==
  /\ Migratable(p)
  /\ file' \in With(p, legacy[p]) /\ Forgets(p)
  /\ migrating' = p /\ overtaken' = Overtakes(p)
  /\ UNCHANGED <<env, settings, reader, saves, mishaps>>

(* Mutant of ReadBack: the write is trusted. *)
ReadBackTrusted(p) == TRUE

(* The cache is dropped again and the key read back. *)
ReadBack(p) == file # Damaged /\ file[p] = legacy[p]

(* Then it leaves config.yaml. *)
MigrateForgetsLegacy(p) ==
  /\ migrating = p /\ ReadBack(p) /\ migrating' = Nothing
  /\ legacy' = [legacy EXCEPT ![p] = Nothing]
  /\ Forgets(p) /\ UNCHANGED <<env, file, config, app, torn, reader, overtaken, saves, mishaps>>

(* The read-back is not the key, because the file changed or a late reader *)
(* filled the cache, or config.yaml cannot be written: both stay.          *)
MigrateFails(p) ==
  /\ migrating = p /\ migrating' = Nothing
  /\ IF ~ReadBack(p) \/ cache[p] \notin {Nothing, legacy[p]} THEN UNCHANGED mishaps ELSE Mishap
  /\ UNCHANGED <<env, file, cache, test, settings, reader, overtaken, saves>>

----------------------------------------------------------------------------
(* The routes of the settings.                                             *)

(* The endpoint of a request is checked with the switch of that request.   *)
Requested(p) ==
  {s \in Settings : Allowed(s)} \union {[config[p] EXCEPT !.private = b] : b \in BOOLEAN}

UpdateAiSettings(p) ==
  /\ Idle /\ saves < MaxSaves /\ saves' = saves + 1
  /\ \E s \in Requested(p) : config' = [config EXCEPT ![p] = s] /\ app' = [app EXCEPT ![p] = s]
  /\ cache' = [cache EXCEPT ![p] = Nothing]
  /\ UNCHANGED <<env, file, test, legacy, migrating, reader, overtaken, torn, mishaps>>

(* The project and threshold routes rewrite config.yaml in place: a failed *)
(* write, or a crash in it, leaves a truncated file.                       *)
UpdateConfigTorn ==
  /\ Idle /\ Mishap
  /\ legacy' = Empty /\ config' = [p \in Purposes |-> Default] /\ torn' = TRUE
  /\ UNCHANGED <<env, file, cache, test, app, migrating, reader, overtaken, saves>>

----------------------------------------------------------------------------
(* The file is damaged, or edited by hand.                                 *)
FileByHand ==
  /\ Mishap
  /\ file' \in {Damaged, Empty} \ {file} /\ overtaken' = Purposes
  /\ UNCHANGED <<env, cache, test, settings, migrating, reader, saves>>

(* The process dies, possibly between the two writes of a migration.       *)
ServerRestarts ==
  /\ Mishap
  /\ cache' = Empty /\ test' = Empty /\ migrating' = Nothing
  /\ reader' = [r \in Readers |-> Nothing] /\ overtaken' = {}
  /\ app' = config /\ torn' = FALSE
  /\ UNCHANGED <<env, file, legacy, config, saves>>

KeysInit ==
  /\ env \in [Purposes -> {Nothing, Junk} \union Keys]
  /\ Cardinality({p \in Purposes : env[p] # Nothing}) < 2
  /\ file \in {Empty} \union {[Empty EXCEPT ![p] = k] : p \in Purposes, k \in Keys}
  /\ legacy \in {Empty} \union {[Empty EXCEPT ![p] = k] : p \in Purposes, k \in Keys}
  /\ cache = Empty /\ test = Empty /\ migrating = Nothing
  /\ config = [p \in Purposes |-> Default] /\ app = config
  /\ reader = [r \in Readers |-> Nothing] /\ overtaken = {} /\ torn = FALSE
  /\ saves = 0 /\ mishaps = 0

Route(p) ==
  \/ \E k \in Keys, tested \in BOOLEAN : PutCredential(p, k, tested)
  \/ DeleteCredential(p) \/ TestCredential(p) \/ UpdateAiSettings(p)
  \/ MigrateStores(p) \/ MigrateRefused(p) \/ MigrateForgetsLegacy(p) \/ MigrateFails(p)

KeysNext ==
  \/ \E p \in Purposes : Route(p) \/ Expire(p)
  \/ \E r \in Readers : ReaderFills(r) \/ \E p \in Purposes : ReaderReads(r, p)
  \/ UpdateConfigTorn \/ FileByHand \/ ServerRestarts

KeysSpec == KeysInit /\ [][KeysNext]_keyVars

----------------------------------------------------------------------------
(* A key leaves config.yaml by a migration only when the store holds it:   *)
(* through a crash between the two writes, a failed rewrite or a file      *)
(* damaged in between, the key is in one of the two (migrate_credential).  *)
(* A truncated config.yaml (_update_config) is outside the claim.          *)
MigrationKeepsTheKey ==
  [][\A p \in Purposes : legacy[p] # Nothing /\ legacy'[p] = Nothing /\ ~torn'
       => file # Damaged /\ file[p] = legacy[p]]_keyVars

(* No save replaces a file it does not understand or touches the other     *)
(* service's key, and a migration replaces no key (_read_file_store,       *)
(* migrate_credential).                                                    *)
FileIsRespected ==
  [][mishaps' = mishaps /\ file' # file =>
       file # Damaged /\ \E p \in Purposes :
          /\ \A q \in Purposes \ {p} : file'[q] = file[q]
          /\ (migrating' = p) => (file[p] = Nothing)]_keyVars

(* The cache never answers with a key that is not the stored one, unless a *)
(* thread read the file before the key was changed and fills the cache     *)
(* after it, or the file was changed by hand (store_credential,            *)
(* delete_credential, migrate_credential).                                 *)
CacheIsCurrent ==
  \A p \in Purposes \ overtaken : cache[p] # Nothing => file # Damaged /\ file[p] = cache[p]

(* A test result on the page is one of the key that is in use: it goes     *)
(* when the key does (store_credential, delete_credential).                *)
TestIsOfTheKey ==
  \A p \in Purposes \ overtaken :
    test[p] # Nothing => test[p].key = IF FromEnv(p) THEN env[p] ELSE file[p]

(* A restart changes no setting: what the analyses use is what config.yaml *)
(* says, unless its rewrite in place was cut short (_atomic_update_ai_section). *)
RestartKeepsSettings == ~torn => app = config

(* What the process holds in memory, the cached keys, the results of tests *)
(* and the settings, speaks of what is stored.                             *)
MemoryIsCurrent == CacheIsCurrent /\ TestIsOfTheKey /\ RestartKeepsSettings

(* No key is lost, and none is replaced that nobody asked to be replaced.  *)
KeysAreKept == MigrationKeepsTheKey /\ FileIsRespected
=============================================================================

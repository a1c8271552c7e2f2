-------------------------- MODULE SettingsManager --------------------------
(***************************************************************************)
(* components/settings_manager: the one writer of settings.  Components     *)
(* register a descriptor; set() validates and persists, never applies; the  *)
(* boot pass of start() loads, migrates, fills, validates and applies, and  *)
(* falls back to defaults.  Storage is one file per component on its own    *)
(* LittleFS partition, replaced by temp file + rename.                      *)
(*                                                                          *)
(* The manager's recursive mutex is held for a whole call, so one call is   *)
(* in progress at a time (op).  The steps of a call are its flash           *)
(* operations: power can fail between any two of them, and the next boot    *)
(* may run another firmware (an update or a rollback).                      *)
(*                                                                          *)
(* A document maps each key to a value or to Absent.  A stored envelope     *)
(* whose CRC does not match is Torn.                                        *)
(***************************************************************************)
EXTENDS Naturals, Sequences, FiniteSets

CONSTANTS
    Comp,           \* component names
    Keys, Vals, Absent,
    Versions,       \* schema versions in use
    Fw,             \* firmware images the device can boot
    Desc,           \* Desc[f][c]: the descriptor component c registers in f
    NULL, Missing, Torn,
    SM_MAX_COMPONENTS,
    FlushMayFail,   \* TRUE: fflush/fsync may fail although fwrite did not
    Inputs,         \* bound: documents callers submit
    MaxSets,        \* bound: set and restore calls
    MaxBoots        \* bound: resets

Docs  == [Keys -> Vals \cup {Absent}]
Files == [version : Versions, data : Docs]

\* A save in progress, as seen by its caller (StoreCall).
SaveCalls == [c : Comp, file : Files, state : {"pending", "ok", "failed"}]

ASSUME SettingsAssumption ==
    /\ Absent \notin Vals
    /\ Versions \subseteq Nat
    /\ {NULL, Missing, Torn} \cap (Comp \cup Files \cup Docs) = {}
    /\ Missing # Torn
    /\ NULL \notin SaveCalls
    /\ Fw # {}
    /\ Desc \in [Fw -> [Comp -> [version  : Versions,
                                 props    : [Keys -> SUBSET Vals],
                                 required : SUBSET Keys,
                                 defaults : Docs,
                                 on_validate : SUBSET Docs,
                                 migrate  : [Files -> Docs \cup {NULL}]]]]
    /\ SM_MAX_COMPONENTS \in Nat
    /\ FlushMayFail \in BOOLEAN
    /\ Inputs \subseteq Docs
    /\ MaxSets \in Nat
    /\ MaxBoots \in Nat

VARIABLES
    \* the flash, which survives a reset
    fw,          \* the firmware that runs
    blk0, blk1,  \* the two superblock blocks of the partition
    json, tmp,   \* the .json and the .tmp file of each component
    \* RAM
    vfs,         \* /settings is a mounted filesystem
    s_mounted,
    s_started,
    ready,       \* settings_manager_init has run
    s_registry,  \* registered names, in order
    current,     \* sm_entry_t of each name, field by field
    applied, persisted_clean, degraded, unconfigured,
    op,          \* the call that holds the lock
    reply,       \* what the last call answered
    \* history
    ack,         \* documents the user may expect back, {} for no promise
    wiped,       \* a factory reset erased: "never", "now", "before" this boot
    sets, boots

flashVars   == <<fw, blk0, blk1, json, tmp>>
mountVars   == <<vfs, s_mounted>>
regVars     == <<s_started, ready, s_registry>>
entryVars   == <<current, applied, persisted_clean, degraded, unconfigured>>
historyVars == <<ack, wiped, sets, boots>>
vars == <<flashVars, mountVars, regVars, entryVars, op, reply, historyVars>>

\* What one superblock block holds: nothing, a LittleFS superblock with this
\* partition's block count or with another one, or other data.
Blocks == {"blank", "ours", "foreign", "other"}

\* at: the next step of the call; by: the code that asked for the save.
Idle == [at |-> "idle", by |-> NULL, c |-> NULL, doc |-> NULL,
         err |-> "ESP_OK", i |-> 0]

NoFiles == [c \in Comp |-> Missing]
NoDocs  == [c \in Comp |-> NULL]
NoFlags == [c \in Comp |-> FALSE]

-----------------------------------------------------------------------------
(* Pure parts: e is the descriptor of a registry entry.                     *)

sm_fill_missing(d, defs) == [k \in Keys |-> IF d[k] = Absent THEN defs[k] ELSE d[k]]

sm_build_defaults(e) == e.defaults

check_property(e, k, v) == v \in e.props[k]

check_object_node(e, d) ==
    /\ \A k \in e.required : d[k] # Absent
    /\ \A k \in Keys : d[k] # Absent => check_property(e, k, d[k])

sm_validate_entry(e, d) == check_object_node(e, d) /\ d \in e.on_validate

sm_codec_encode(e, d) == [version |-> e.version, data |-> d]

\* The stored document after on_migrate, NULL when it is absent or fails.
Migrated(e, file) == IF file.version < e.version THEN e.migrate[file] ELSE file.data

\* boot_load keeps a stored document that migrates and then validates.
Usable(e, file) ==
    /\ file \notin {Missing, Torn}
    /\ Migrated(e, file) # NULL
    /\ sm_validate_entry(e, sm_fill_missing(Migrated(e, file), sm_build_defaults(e)))

\* The document boot_load returns.
BootDoc(e, file) ==
    IF Usable(e, file)
    THEN sm_fill_missing(Migrated(e, file), sm_build_defaults(e))
    ELSE sm_build_defaults(e)

\* Mutant: every boot rewrites every file.
BootPersists_always(e, file) == TRUE

\* Valid stored data is left alone; everything else boot_load returns is saved.
BootPersists(e, file) ==
    \/ file \in {Missing, Torn}
    \/ file.version < e.version
    \/ sm_fill_missing(file.data, sm_build_defaults(e)) # file.data
    \/ ~sm_validate_entry(e, file.data)

\* The block count is that of the first block with a plausible superblock.
sm_lfs_probe(b0, b1) ==
    IF b0 = "blank" /\ b1 = "blank" THEN "blank"
    ELSE IF b0 \in {"ours", "foreign"} THEN b0
    ELSE IF b1 \in {"ours", "foreign"} THEN b1
    ELSE "other"

\* format_if_not_ours decides to format.
NotOurs == sm_lfs_probe(blk0, blk1) # "ours"

sm_storage_load(c) == IF vfs THEN json[c] ELSE Missing

desc(c) == Desc[fw][c]

Registered(c) == \E i \in 1..Len(s_registry) : s_registry[i] = c

Reply(call, c, err) == [call |-> call, c |-> c, err |-> err]

-----------------------------------------------------------------------------
\* The first power-on: whatever was on the flash before.
Init ==
    /\ fw \in Fw
    /\ blk0 \in {"blank", "other", "foreign"}
    /\ blk1 = blk0
    /\ json = NoFiles
    /\ tmp = NoFiles
    /\ vfs = FALSE
    /\ s_mounted = FALSE
    /\ s_started = FALSE
    /\ ready = FALSE
    /\ s_registry = <<>>
    /\ current = NoDocs
    /\ applied = NoDocs
    /\ persisted_clean = NoFlags
    /\ degraded = NoFlags
    /\ unconfigured = NoFlags
    /\ op = Idle
    /\ reply = Reply("reset", NULL, "ESP_OK")
    /\ ack = [c \in Comp |-> {}]
    /\ wiped = "never"
    /\ sets = 0
    /\ boots = 0

(* settings_manager_init: reset the registry, then sm_storage_mount with    *)
(* format_if_not_ours.                                                      *)

NoEntries ==
    /\ current' = NoDocs
    /\ applied' = NoDocs
    /\ persisted_clean' = NoFlags
    /\ degraded' = NoFlags
    /\ unconfigured' = NoFlags

InitRegistry ==
    /\ op = Idle
    /\ ~ready
    /\ ready' = TRUE
    /\ s_started' = FALSE
    /\ s_registry' = <<>>
    /\ NoEntries

Mounted(err) ==
    /\ vfs' = (err = "ESP_OK")
    /\ s_mounted' = (err = "ESP_OK")
    /\ reply' = Reply("init", NULL, err)

\* The pre-format, or the driver's own format after a failed mount.
MountFormats ==
    /\ InitRegistry
    /\ ~vfs
    /\ NotOurs
    /\ blk0' = "ours"
    /\ blk1' = "ours"
    /\ json' = NoFiles
    /\ tmp' = NoFiles
    /\ Mounted("ESP_OK")
    /\ UNCHANGED <<fw, op, historyVars>>

MountOurs ==
    /\ InitRegistry
    /\ ~vfs
    /\ blk0 = "ours" /\ blk1 = "ours"
    /\ Mounted("ESP_OK")
    /\ UNCHANGED <<flashVars, op, historyVars>>

\* One superblock block survived an interrupted erase: LittleFS mounts it and
\* each file is whole, damaged or gone.
MountHalf ==
    /\ InitRegistry
    /\ ~vfs
    /\ ~NotOurs
    /\ ~(blk0 = "ours" /\ blk1 = "ours")
    /\ blk0' = "ours"
    /\ blk1' = "ours"
    /\ \E kept, torn \in SUBSET Comp :
         /\ kept \cap torn = {}
         /\ json' = [c \in Comp |-> IF c \in kept THEN json[c]
                                    ELSE IF c \in torn THEN Torn ELSE Missing]
    /\ tmp' = NoFiles
    /\ Mounted("ESP_OK")
    /\ UNCHANGED <<fw, op, historyVars>>

\* The pre-format failed, or did not happen, and the driver mounts another
\* layout's LittleFS: every access fails.
MountUnusable ==
    /\ InitRegistry
    /\ ~vfs
    /\ sm_lfs_probe(blk0, blk1) = "foreign"
    /\ s_mounted' = TRUE
    /\ reply' = Reply("init", NULL, "ESP_OK")
    /\ UNCHANGED <<flashVars, vfs, op, historyVars>>

\* The driver cannot register the filesystem: the device boots without it.
MountFails ==
    /\ InitRegistry
    /\ reply' = Reply("init", NULL, "ESP_FAIL")
    /\ UNCHANGED <<flashVars, mountVars, op, historyVars>>

settings_manager_init ==
    MountFormats \/ MountOurs \/ MountHalf \/ MountUnusable \/ MountFails

\* Mutant: the name's error is noted, and the entry is filled all the same.
settings_manager_register_no_return(c) ==
    /\ op = Idle
    /\ ready
    /\ LET err == IF s_started \/ Registered(c) THEN "ESP_ERR_INVALID_STATE"
                  ELSE IF Len(s_registry) >= SM_MAX_COMPONENTS THEN "ESP_ERR_NO_MEM"
                  ELSE "ESP_OK"
       IN  /\ reply' = Reply("register", c, err)
           /\ s_registry' = IF err = "ESP_ERR_NO_MEM" THEN s_registry ELSE Append(s_registry, c)
    /\ UNCHANGED <<flashVars, mountVars, s_started, ready, entryVars, op, historyVars>>

settings_manager_register(c) ==
    /\ op = Idle
    /\ ready
    /\ LET err == IF s_started \/ Registered(c) THEN "ESP_ERR_INVALID_STATE"
                  ELSE IF Len(s_registry) >= SM_MAX_COMPONENTS THEN "ESP_ERR_NO_MEM"
                  ELSE "ESP_OK"
       IN  /\ reply' = Reply("register", c, err)
           /\ s_registry' = IF err = "ESP_OK" THEN Append(s_registry, c) ELSE s_registry
    /\ UNCHANGED <<flashVars, mountVars, s_started, ready, entryVars, op, historyVars>>

-----------------------------------------------------------------------------
(* sm_storage_save: encode, scratch buffer, then save_job on a flash job.   *)

Saving == op.at \in {"encode", "open", "write", "rename", "saved"}

BeginSave(by, c, d, i) ==
    op' = [at |-> "encode", by |-> by, c |-> c, doc |-> d, err |-> "ESP_OK", i |-> i]

SaveEnds(err) == op' = [op EXCEPT !.at = "saved", !.err = err]

\* No memory for the envelope, the internal scratch buffer or the flash worker.
SaveRefused ==
    /\ op.at = "encode"
    /\ SaveEnds("ESP_ERR_NO_MEM")
    /\ UNCHANGED <<flashVars, mountVars, regVars, entryVars, reply, historyVars>>

SaveStarts ==
    /\ op.at = "encode"
    /\ op' = [op EXCEPT !.at = "open"]
    /\ UNCHANGED <<flashVars, mountVars, regVars, entryVars, reply, historyVars>>

\* Mutant: the target itself is opened for writing.
SaveOpen_in_place ==
    /\ op.at = "open"
    /\ vfs
    /\ json' = [json EXCEPT ![op.c] = Torn]
    /\ op' = [op EXCEPT !.at = "write"]
    /\ UNCHANGED <<fw, blk0, blk1, tmp, mountVars, regVars, entryVars, reply, historyVars>>

SaveOpen ==
    /\ op.at = "open"
    /\ vfs
    /\ tmp' = [tmp EXCEPT ![op.c] = Torn]
    /\ op' = [op EXCEPT !.at = "write"]
    /\ UNCHANGED <<fw, blk0, blk1, json, mountVars, regVars, entryVars, reply, historyVars>>

SaveOpenFails ==
    /\ op.at = "open"
    /\ SaveEnds("ESP_FAIL")
    /\ UNCHANGED <<flashVars, mountVars, regVars, entryVars, reply, historyVars>>

\* fwrite, fflush, fsync, fclose.
SaveWrite ==
    /\ op.at = "write"
    /\ \/ tmp' = [tmp EXCEPT ![op.c] = sm_codec_encode(desc(op.c), op.doc)]
       \/ FlushMayFail /\ tmp' = tmp
    /\ op' = [op EXCEPT !.at = "rename"]
    /\ UNCHANGED <<fw, blk0, blk1, json, mountVars, regVars, entryVars, reply, historyVars>>

SaveShortWrite ==
    /\ op.at = "write"
    /\ tmp' = [tmp EXCEPT ![op.c] = Missing]
    /\ SaveEnds("ESP_FAIL")
    /\ UNCHANGED <<fw, blk0, blk1, json, mountVars, regVars, entryVars, reply, historyVars>>

SaveRename ==
    /\ op.at = "rename"
    /\ json' = [json EXCEPT ![op.c] = tmp[op.c]]
    /\ tmp' = [tmp EXCEPT ![op.c] = Missing]
    /\ SaveEnds("ESP_OK")
    /\ UNCHANGED <<fw, blk0, blk1, mountVars, regVars, entryVars, reply, historyVars>>

\* Mutant: a failed rename is reported as a success.
SaveRenameFails_unreported ==
    /\ op.at = "rename"
    /\ tmp' = [tmp EXCEPT ![op.c] = Missing]
    /\ SaveEnds("ESP_OK")
    /\ UNCHANGED <<fw, blk0, blk1, json, mountVars, regVars, entryVars, reply, historyVars>>

SaveRenameFails ==
    /\ op.at = "rename"
    /\ tmp' = [tmp EXCEPT ![op.c] = Missing]
    /\ SaveEnds("ESP_FAIL")
    /\ UNCHANGED <<fw, blk0, blk1, json, mountVars, regVars, entryVars, reply, historyVars>>

sm_storage_save ==
    \/ SaveRefused \/ SaveStarts \/ SaveOpen \/ SaveOpenFails
    \/ SaveWrite \/ SaveShortWrite \/ SaveRename \/ SaveRenameFails

-----------------------------------------------------------------------------
(* settings_manager_set and settings_manager_restore                        *)

Answer(call, c, err) ==
    /\ reply' = Reply(call, c, err)
    /\ op' = Idle
    /\ UNCHANGED <<flashVars, mountVars, regVars, entryVars, wiped, boots>>

\* Mutant: the deduplication looks at the RAM copy only.
IsPersisted_same_only(c, d) == current[c] # NULL /\ current[c] = d

\* The write is skipped: same && persisted_clean.
IsPersisted(c, d) ==
    current[c] # NULL /\ current[c] = d /\ persisted_clean[c]

\* set() from the duplicate of its input on.
SetBegins(call, c, in) ==
    LET cand == sm_fill_missing(in, sm_build_defaults(desc(c))) IN
    \/ /\ ~sm_validate_entry(desc(c), cand)
       /\ Answer(call, c, "ESP_ERR_INVALID_ARG")
       /\ UNCHANGED ack
    \/ /\ sm_validate_entry(desc(c), cand)
       /\ IsPersisted(c, cand)
       /\ Answer(call, c, "ESP_OK")
       /\ ack' = IF vfs THEN [ack EXCEPT ![c] = {cand}] ELSE ack
    \/ /\ sm_validate_entry(desc(c), cand)
       /\ ~IsPersisted(c, cand)
       /\ BeginSave(call, c, cand, 0)
       /\ UNCHANGED <<flashVars, mountVars, regVars, entryVars, reply, ack, wiped, boots>>

settings_manager_set(c, in) ==
    /\ op = Idle
    /\ ready
    /\ sets < MaxSets
    /\ sets' = sets + 1
    /\ \/ Registered(c) /\ SetBegins("set", c, in)
       \/ ~Registered(c) /\ Answer("set", c, "ESP_ERR_NOT_FOUND") /\ UNCHANGED ack

SetReturns ==
    /\ op.at = "saved"
    /\ op.by \in {"set", "restore"}
    /\ IF op.err = "ESP_OK"
       THEN /\ current' = [current EXCEPT ![op.c] = op.doc]
            /\ persisted_clean' = [persisted_clean EXCEPT ![op.c] = TRUE]
            /\ ack' = [ack EXCEPT ![op.c] = {op.doc}]
       ELSE UNCHANGED <<current, persisted_clean, ack>>
    /\ reply' = Reply(op.by, op.c, op.err)
    /\ op' = Idle
    /\ UNCHANGED <<flashVars, mountVars, regVars, applied, degraded, unconfigured,
                   wiped, sets, boots>>

settings_manager_restore(c, file, dry_run) ==
    /\ op = Idle
    /\ ready
    /\ sets < MaxSets
    /\ sets' = sets + 1
    /\ \/ /\ ~Registered(c)
          /\ Answer("restore", c, "ESP_ERR_NOT_FOUND") /\ UNCHANGED ack
       \/ /\ Registered(c)
          /\ file.version > desc(c).version
          /\ Answer("restore", c, "ESP_ERR_INVALID_VERSION") /\ UNCHANGED ack
       \/ /\ Registered(c)
          /\ file.version <= desc(c).version
          /\ Migrated(desc(c), file) = NULL
          /\ Answer("restore", c, "ESP_ERR_INVALID_ARG") /\ UNCHANGED ack
       \/ /\ Registered(c)
          /\ file.version <= desc(c).version
          /\ Migrated(desc(c), file) # NULL
          /\ dry_run
          /\ Answer("dry_run", c,
                    IF sm_validate_entry(desc(c), sm_fill_missing(Migrated(desc(c), file),
                                                            sm_build_defaults(desc(c))))
                    THEN "ESP_OK" ELSE "ESP_ERR_INVALID_ARG")
          /\ UNCHANGED ack
       \/ /\ Registered(c)
          /\ file.version <= desc(c).version
          /\ Migrated(desc(c), file) # NULL
          /\ ~dry_run
          /\ SetBegins("restore", c, Migrated(desc(c), file))

-----------------------------------------------------------------------------
(* settings_manager_start: the boot pass, one entry at a time.              *)

\* e->current = boot_load(e, defs), before on_apply.
Loaded(c, d, clean) ==
    /\ current' = [current EXCEPT ![c] = d]
    /\ persisted_clean' = [persisted_clean EXCEPT ![c] = clean]
    /\ degraded' = [degraded EXCEPT ![c] = FALSE]
    /\ unconfigured' = [unconfigured EXCEPT ![c] = FALSE]
    /\ applied' = applied

BootAt(at, i) == op' = [Idle EXCEPT !.at = at, !.i = i]

settings_manager_start ==
    /\ op = Idle
    /\ ready
    /\ ~s_started
    /\ BootAt("load", 1)
    /\ UNCHANGED <<flashVars, mountVars, regVars, entryVars, reply, historyVars>>

\* boot_load when the file could be read, or does not exist.
BootLoad ==
    /\ op.at = "load"
    /\ op.i <= Len(s_registry)
    /\ LET c    == s_registry[op.i]
           file == sm_storage_load(c)
       IN  /\ IF BootPersists(desc(c), file)
              THEN BeginSave("load", c, BootDoc(desc(c), file), op.i) /\ UNCHANGED entryVars
              ELSE Loaded(c, BootDoc(desc(c), file), TRUE) /\ BootAt("apply", op.i)
    /\ UNCHANGED <<flashVars, mountVars, regVars, reply, ack, wiped, sets, boots>>

\* sm_storage_load failed for another reason: no memory for the read buffer
\* or for the parsed document.  It is treated like a missing file.
BootLoadFails ==
    /\ op.at = "load"
    /\ op.i <= Len(s_registry)
    /\ LET c == s_registry[op.i]
       IN  /\ BeginSave("noload", c, sm_build_defaults(desc(c)), op.i)
           /\ ack' = [ack EXCEPT ![c] = {}]
    /\ UNCHANGED <<flashVars, mountVars, regVars, entryVars, reply, wiped, sets, boots>>

\* Mutant: sm_persist takes the write for granted.
BootPersisted_taken_for_granted ==
    /\ op.at = "saved"
    /\ op.by \in {"load", "noload"}
    /\ Loaded(op.c, op.doc, TRUE)
    /\ BootAt("apply", op.i)
    /\ UNCHANGED <<flashVars, mountVars, regVars, reply, historyVars>>

\* sm_persist's outcome inside boot_load.
BootPersisted ==
    /\ op.at = "saved"
    /\ op.by \in {"load", "noload"}
    /\ Loaded(op.c, op.doc, op.err = "ESP_OK")
    /\ BootAt("apply", op.i)
    /\ UNCHANGED <<flashVars, mountVars, regVars, reply, historyVars>>

Apply(c, rejected) ==
    /\ applied' = [applied EXCEPT ![c] = current[c]]
    /\ unconfigured' = [unconfigured EXCEPT ![c] = rejected]
    /\ BootAt("load", op.i + 1)
    /\ UNCHANGED <<flashVars, mountVars, regVars, current, persisted_clean, degraded,
                   reply, historyVars>>

on_apply_ok == op.at = "apply" /\ Apply(s_registry[op.i], FALSE)

\* The hardware rejects the document: defaults are persisted and tried once.
on_apply_fails ==
    /\ op.at = "apply"
    /\ LET c == s_registry[op.i]
       IN  /\ degraded' = [degraded EXCEPT ![c] = TRUE]
           /\ current' = [current EXCEPT ![c] = sm_build_defaults(desc(c))]
           /\ BeginSave("fallback", c, sm_build_defaults(desc(c)), op.i)
           /\ ack' = [ack EXCEPT ![c] = {}]
    /\ UNCHANGED <<flashVars, mountVars, regVars, applied, persisted_clean, unconfigured,
                   reply, wiped, sets, boots>>

FallbackPersisted ==
    /\ op.at = "saved"
    /\ op.by = "fallback"
    /\ persisted_clean' = [persisted_clean EXCEPT ![op.c] = (op.err = "ESP_OK")]
    /\ BootAt("reapply", op.i)
    /\ UNCHANGED <<flashVars, mountVars, regVars, current, applied, degraded, unconfigured,
                   reply, historyVars>>

on_reapply ==
    /\ op.at = "reapply"
    /\ \E rejected \in BOOLEAN : Apply(s_registry[op.i], rejected)

BootDone ==
    /\ op.at = "load"
    /\ op.i > Len(s_registry)
    /\ s_started' = TRUE
    /\ op' = Idle
    /\ reply' = Reply("start", NULL, "ESP_OK")
    /\ UNCHANGED <<flashVars, mountVars, ready, s_registry, entryVars, historyVars>>

BootPass ==
    \/ BootLoad \/ BootLoadFails \/ BootPersisted \/ on_apply_ok
    \/ on_apply_fails \/ FallbackPersisted \/ on_reapply \/ BootDone

-----------------------------------------------------------------------------
(* settings_manager_factory_reset and settings_manager_stop                 *)

settings_manager_factory_reset ==
    /\ op = Idle
    /\ ready
    /\ IF s_mounted
       THEN op' = [Idle EXCEPT !.at = "unmount"] /\ reply' = reply
       ELSE op' = op /\ reply' = Reply("factory_reset", NULL, "ESP_ERR_INVALID_STATE")
    /\ UNCHANGED <<flashVars, mountVars, regVars, entryVars, historyVars>>

\* sm_storage_unmount forgets the mount whatever the driver answers.
WipeUnmount ==
    /\ op.at = "unmount"
    /\ s_mounted' = FALSE
    /\ \/ /\ vfs' = FALSE
          /\ op' = [Idle EXCEPT !.at = "erase"]
          /\ reply' = reply
       \/ /\ vfs' = vfs
          /\ op' = Idle
          /\ reply' = Reply("factory_reset", NULL, "ESP_FAIL")
    /\ UNCHANGED <<flashVars, regVars, entryVars, historyVars>>

\* esp_partition_erase_range, block 0 first.
EraseBegins ==
    /\ op.at = "erase"
    /\ blk0' = "blank"
    /\ blk1' = blk1
    /\ wiped' = "now"
    /\ ack' = [c \in Comp |-> {}]
    /\ op' = [Idle EXCEPT !.at = "erase1"]
    /\ UNCHANGED <<fw, json, tmp, mountVars, regVars, entryVars, reply, sets, boots>>

EraseSecond ==
    /\ op.at = "erase1"
    /\ blk1' = "blank"
    /\ blk0' = blk0
    /\ op' = [Idle EXCEPT !.at = "erase2"]
    /\ UNCHANGED <<fw, json, tmp, mountVars, regVars, entryVars, reply, historyVars>>

EraseEnds ==
    /\ op.at = "erase2"
    /\ json' = NoFiles
    /\ tmp' = NoFiles
    /\ op' = Idle
    /\ reply' = Reply("factory_reset", NULL, "ESP_OK")
    /\ UNCHANGED <<fw, blk0, blk1, mountVars, regVars, entryVars, historyVars>>

EraseFails ==
    /\ op.at \in {"erase", "erase1", "erase2"}
    /\ op' = Idle
    /\ reply' = Reply("factory_reset", NULL, "ESP_FAIL")
    /\ UNCHANGED <<flashVars, mountVars, regVars, entryVars, historyVars>>

settings_manager_stop ==
    /\ op = Idle
    /\ ready
    /\ boots < MaxBoots
    /\ boots' = boots + 1
    /\ ready' = FALSE
    /\ s_started' = FALSE
    /\ s_registry' = <<>>
    /\ NoEntries
    /\ s_mounted' = FALSE
    /\ vfs' = (vfs /\ ~s_mounted)
    /\ reply' = Reply("stop", NULL, "ESP_OK")
    /\ UNCHANGED <<flashVars, op, ack, wiped, sets>>

(* Power failure or restart, at any step of any call; f runs next.          *)
Reset(f) ==
    /\ boots < MaxBoots
    /\ boots' = boots + 1
    /\ fw' = f
    /\ vfs' = FALSE
    /\ s_mounted' = FALSE
    /\ s_started' = FALSE
    /\ ready' = FALSE
    /\ s_registry' = <<>>
    /\ NoEntries
    /\ op' = Idle
    /\ reply' = Reply("reset", NULL, "ESP_OK")
    \* The promise is about the firmware that gave it; a set() that was cut
    \* short may have happened or not.
    /\ ack' = [c \in Comp |->
                 IF f # fw \/ ack[c] = {} THEN {}
                 ELSE IF Saving /\ op.c = c THEN ack[c] \cup {op.doc} ELSE ack[c]]
    /\ wiped' = IF wiped = "now" THEN "before" ELSE wiped
    /\ UNCHANGED <<blk0, blk1, json, tmp, sets>>

Calls ==
    \/ settings_manager_init
    \/ \E c \in Comp : settings_manager_register(c)
    \/ settings_manager_start
    \/ \E c \in Comp, in \in Inputs : settings_manager_set(c, in)
    \/ \E c \in Comp, v \in Versions, in \in Inputs, dry_run \in BOOLEAN :
          settings_manager_restore(c, [version |-> v, data |-> in], dry_run)
    \/ settings_manager_factory_reset
    \/ settings_manager_stop

\* The steps of the call in progress.
Steps ==
    \/ sm_storage_save \/ SetReturns \/ BootPass
    \/ WipeUnmount \/ EraseBegins \/ EraseSecond \/ EraseEnds \/ EraseFails

Next == Calls \/ Steps \/ \E f \in Fw : Reset(f)

Spec == Init /\ [][Next]_vars

-----------------------------------------------------------------------------
(* Properties                                                               *)

FlashTypeOK ==
    /\ fw \in Fw
    /\ blk0 \in Blocks
    /\ blk1 \in Blocks
    /\ json \in [Comp -> Files \cup {Missing, Torn}]
    /\ tmp \in [Comp -> Files \cup {Missing, Torn}]

RegistryTypeOK ==
    /\ vfs \in BOOLEAN
    /\ s_mounted \in BOOLEAN
    /\ s_started \in BOOLEAN
    /\ ready \in BOOLEAN
    /\ s_registry \in Seq(Comp)
    /\ Len(s_registry) <= SM_MAX_COMPONENTS

EntryTypeOK ==
    /\ current \in [Comp -> Docs \cup {NULL}]
    /\ applied \in [Comp -> Docs \cup {NULL}]
    /\ persisted_clean \in [Comp -> BOOLEAN]
    /\ degraded \in [Comp -> BOOLEAN]
    /\ unconfigured \in [Comp -> BOOLEAN]

OpTypeOK ==
    op \in [at : {"idle", "encode", "open", "write", "rename", "saved", "load",
                  "apply", "reapply", "unmount", "erase", "erase1", "erase2"},
            by : {NULL, "set", "restore", "load", "noload", "fallback"},
            c : Comp \cup {NULL}, doc : Docs \cup {NULL},
            err : {"ESP_OK", "ESP_FAIL", "ESP_ERR_NO_MEM"}, i : Nat]

HistoryTypeOK ==
    /\ ack \in [Comp -> SUBSET Docs]
    /\ wiped \in {"never", "now", "before"}
    /\ sets \in Nat
    /\ boots \in Nat

TypeOK == FlashTypeOK /\ RegistryTypeOK /\ EntryTypeOK /\ OpTypeOK /\ HistoryTypeOK

\* The atomic replace of settings_manager_storage.c: whenever the power fails,
\* a stored settings file is whole; only a factory reset cut short can damage
\* one.
NeverTorn == wiped = "never" => \A c \in Comp : json[c] # Torn

\* What set() or restore() confirmed comes back after any reset into the same
\* firmware, unless on_apply rejects it, the load runs out of memory or a
\* factory reset begins.  A set() that a reset cut short leaves the old
\* document or the new one.
ConfirmedSurvives ==
    \A c \in Comp :
        ack[c] # {} /\ vfs /\ current[c] # NULL => current[c] \in ack[c]

\* get() reports what the next boot of this firmware will load, whenever the
\* manager believes the file is current: the belief that lets set() skip the
\* write and the restart.
GetTellsNextBoot ==
    \A c \in Comp :
        /\ current[c] # NULL
        /\ persisted_clean[c]
        /\ vfs
        /\ ~(Saving /\ op.c = c)
        => BootDoc(desc(c), json[c]) = current[c]

\* Flash wear: set() and the boot pass never write a file that already holds
\* what they are about to write (a component whose defaults its own schema
\* rejects, or whose file could not be read, is rewritten at every boot).
NoRedundantWrite ==
    /\ op.at = "open"
    /\ op.by \in {"set", "restore", "load"}
    /\ op.by = "load" => sm_validate_entry(desc(op.c), op.doc)
    /\ op.by # "load" => persisted_clean[op.c]
    /\ vfs
    => json[op.c] # sm_codec_encode(desc(op.c), op.doc)

\* The save in progress, as ConfigStore sees it.
StoreCall ==
    IF Saving
    THEN [c |-> op.c, file |-> sm_codec_encode(desc(op.c), op.doc),
          state |-> IF op.at # "saved" THEN "pending"
                    ELSE IF op.err = "ESP_OK" THEN "ok" ELSE "failed"]
    ELSE NULL

Store == INSTANCE ConfigStore WITH
            File <- Files, store <- json, call <- StoreCall, erased <- (wiped # "never")

\* save_job's temp file, fsync and rename replace a settings file at one
\* instant, and the result sm_storage_save reports is what happened.
ImplementsConfigStore == Store!Spec
=============================================================================

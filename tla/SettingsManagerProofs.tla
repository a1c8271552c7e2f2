----------------------- MODULE SettingsManagerProofs -----------------------
(***************************************************************************)
(* Proofs about SettingsManager.  The inductive invariant adds to the types *)
(* (OpInv) what the call in progress has established so far, (PartInv) how  *)
(* the partition, the mount and the files agree, (BeliefInv) what           *)
(* persisted_clean stands for, and (PromiseInv) what the stored file owes   *)
(* the user.                                                                *)
(***************************************************************************)
EXTENDS SettingsManager, TLAPS

Ours == blk0 = "ours" /\ blk1 = "ours"

BootOp == op.by \in {"load", "noload", "fallback"}

\* What the save in progress writes: the envelope, or, where a failed flush
\* goes unnoticed, less than that.
Written(file) ==
    \/ file = sm_codec_encode(desc(op.c), op.doc)
    \/ FlushMayFail /\ file = Torn

\* A save stays inside the registry, saves a document that boots to itself,
\* and has put on the media what its stage says.
OpInv ==
    /\ op.at = "load" => op.i > 0
    /\ op.at \in {"apply", "reapply"} => op.i \in 1..Len(s_registry)
    /\ Saving => /\ op.c \in Comp
                 /\ op.doc \in Docs
                 /\ BootDoc(desc(op.c), sm_codec_encode(desc(op.c), op.doc)) = op.doc
    /\ Saving /\ op.by = "fallback" => current[op.c] = op.doc
    /\ Saving /\ BootOp => op.i \in 1..Len(s_registry)
    /\ op.at = "write" => tmp[op.c] = Torn
    /\ op.at = "rename" => Written(tmp[op.c])
    /\ op.at = "saved" /\ op.err = "ESP_OK" => Written(json[op.c])
    /\ op.at \in {"write", "rename"} => vfs
    /\ op.at = "saved" /\ op.err = "ESP_OK" => vfs
    /\ op.at \in {"erase", "erase1", "erase2"} => ~vfs
    /\ op.at \in {"erase1", "erase2"} => wiped = "now" /\ blk0 = "blank"

PartInv ==
    /\ vfs => Ours
    /\ wiped = "never" => /\ blk0 = blk1
                          /\ ~Ours => json = NoFiles
                          /\ ~FlushMayFail => \A c \in Comp : json[c] # Torn

\* The rename has happened and its result is on its way to the caller.
Committed(c) == op.at = "saved" /\ op.err = "ESP_OK" /\ op.c = c

BeliefInv ==
    \A c \in Comp :
        /\ current[c] # NULL
        /\ persisted_clean[c]
        /\ vfs
        /\ ~Committed(c)
        /\ ~(Saving /\ op.by = "fallback" /\ op.c = c)
        /\ FlushMayFail => json[c] # Torn
        => BootDoc(desc(c), json[c]) = current[c]

PromiseInv ==
    ~FlushMayFail => \A c \in Comp : ack[c] # {} =>
        /\ Ours
        /\ ~Committed(c) => BootDoc(desc(c), json[c]) \in ack[c]
        /\ vfs /\ current[c] # NULL => current[c] \in ack[c]
        /\ Saving /\ op.c = c => op.by \in {"set", "restore", "load"}
        /\ Saving /\ op.c = c /\ op.by = "load" /\ vfs => op.doc \in ack[c]

-----------------------------------------------------------------------------
(* What the pure operators return                                           *)

Descriptor == [version  : Versions,
               props    : [Keys -> SUBSET Vals],
               required : SUBSET Keys,
               defaults : Docs,
               on_validate : SUBSET Docs,
               migrate  : [Files -> Docs \cup {NULL}]]

\* Filling a document from complete or partial defaults gives a document, and
\* filling it again changes nothing (sm_fill_missing).
LEMMA FillLemma ==
    ASSUME NEW d \in Docs, NEW defs \in Docs
    PROVE  /\ sm_fill_missing(d, defs) \in Docs
           /\ sm_fill_missing(sm_fill_missing(d, defs), defs) = sm_fill_missing(d, defs)
           /\ sm_fill_missing(defs, defs) = defs
BY DEF sm_fill_missing, Docs

\* The markers are neither documents nor files, and an envelope is a file.
LEMMA FileLemma ==
    ASSUME NEW e \in Descriptor, NEW d \in Docs
    PROVE  /\ sm_codec_encode(e, d) \in Files
           /\ sm_codec_encode(e, d).data = d
           /\ ~(sm_codec_encode(e, d).version < e.version)
           /\ sm_build_defaults(e) \in Docs
           /\ NULL \notin Docs /\ NULL \notin Comp
           /\ Missing \notin Files /\ Torn \notin Files
<1>1. e.version \in Versions /\ e.version \in Nat
  BY SettingsAssumption DEF Descriptor, SettingsAssumption
<1>2. sm_build_defaults(e) \in Docs
  BY DEF Descriptor, sm_build_defaults
<1>3. sm_codec_encode(e, d) \in Files
  BY <1>1 DEF sm_codec_encode, Files
<1>4. NULL \notin Docs /\ NULL \notin Comp /\ Missing \notin Files /\ Torn \notin Files
  BY SettingsAssumption DEF SettingsAssumption
<1> QED
  BY <1>1, <1>2, <1>3, <1>4 DEF sm_codec_encode

\* A descriptor the firmware registers is a descriptor.
LEMMA DescLemma ==
    ASSUME NEW c \in Comp, fw \in Fw
    PROVE  desc(c) \in Descriptor
BY SettingsAssumption DEF SettingsAssumption, Descriptor, desc

\* A complete, valid document that is stored is what the next boot loads;
\* stored defaults come back as defaults, valid or not.
LEMMA StoredLemma ==
    ASSUME NEW e \in Descriptor, NEW d \in Docs,
           \/ /\ sm_fill_missing(d, sm_build_defaults(e)) = d
              /\ sm_validate_entry(e, d)
           \/ d = sm_build_defaults(e)
    PROVE  BootDoc(e, sm_codec_encode(e, d)) = d
<1> DEFINE file == sm_codec_encode(e, d)
<1>1. file \in Files /\ file.data = d /\ ~(file.version < e.version)
  BY FileLemma
<1>2. sm_fill_missing(d, sm_build_defaults(e)) = d
  BY FileLemma, FillLemma
<1>3. Migrated(e, file) = d /\ d # NULL /\ file \notin {Missing, Torn}
  BY <1>1, FileLemma DEF Migrated
<1> QED
  BY <1>2, <1>3 DEF BootDoc, Usable

\* boot_load returns a document, storing it makes the next boot return the
\* same one, and only a readable file is left unwritten.
LEMMA BootDocLemma ==
    ASSUME NEW e \in Descriptor, NEW file \in Files \cup {Missing, Torn}
    PROVE  /\ BootDoc(e, file) \in Docs
           /\ BootDoc(e, sm_codec_encode(e, BootDoc(e, file))) = BootDoc(e, file)
           /\ ~BootPersists(e, file) => file \in Files
<1>1. sm_build_defaults(e) \in Docs
  BY DEF Descriptor, sm_build_defaults
<1>2. CASE Usable(e, file)
  <2> DEFINE m == Migrated(e, file)
  <2>1. file \in Files
    BY <1>2 DEF Usable
  <2>2. m \in Docs
    BY <1>2, <2>1 DEF Usable, Migrated, Descriptor, Files
  <2>3. BootDoc(e, file) = sm_fill_missing(m, sm_build_defaults(e))
    BY <1>2 DEF BootDoc
  <2>4. sm_validate_entry(e, BootDoc(e, file))
    BY <1>2, <2>3 DEF Usable
  <2>5. /\ BootDoc(e, file) \in Docs
        /\ sm_fill_missing(BootDoc(e, file), sm_build_defaults(e)) = BootDoc(e, file)
    BY <1>1, <2>2, <2>3, FillLemma
  <2> QED
    BY <2>1, <2>4, <2>5, StoredLemma
<1>3. CASE ~Usable(e, file)
  <2>1. BootDoc(e, file) = sm_build_defaults(e)
    BY <1>3 DEF BootDoc
  <2> QED
    BY <1>1, <2>1, StoredLemma DEF BootPersists
<1> QED
  BY <1>2, <1>3

-----------------------------------------------------------------------------
IInv == TypeOK /\ OpInv /\ PartInv /\ BeliefInv /\ PromiseInv

LEMMA InitInv == Init => IInv
<1> SUFFICES ASSUME Init PROVE IInv
  OBVIOUS
<1> USE DEF Init, NoFiles, NoDocs, NoFlags, Idle
<1>b. <<>> \in Seq(Comp) /\ Len(<<>>) = 0
  OBVIOUS
<1>1. TypeOK
  <2>1. FlashTypeOK
    BY DEF FlashTypeOK, Blocks
  <2>3. SM_MAX_COMPONENTS \in Nat
    BY SettingsAssumption DEF SettingsAssumption
  <2>4. s_registry \in Seq(Comp) /\ Len(s_registry) = 0
    BY <1>b
  <2>5. RegistryTypeOK
    <3>1. Len(s_registry) <= SM_MAX_COMPONENTS
      BY <2>3, <2>4
    <3> QED
      BY <2>4, <3>1 DEF RegistryTypeOK
  <2>2. EntryTypeOK /\ OpTypeOK /\ HistoryTypeOK
    BY DEF EntryTypeOK, OpTypeOK, HistoryTypeOK
  <2> QED
    BY <2>1, <2>2, <2>5 DEF TypeOK
<1>a. Missing # Torn
  BY SettingsAssumption DEF SettingsAssumption
<1>2. OpInv /\ PartInv /\ BeliefInv /\ PromiseInv
  BY <1>a DEF OpInv, PartInv, BeliefInv, PromiseInv, Saving
<1> QED
  BY <1>1, <1>2 DEF IInv

LEMMA StepInv ==
    ASSUME IInv, [Next]_vars
    PROVE  IInv'
<1> USE DEF flashVars, mountVars, regVars, historyVars, entryVars, NoFiles, NoDocs, NoFlags, Idle,
        NoEntries, InitRegistry, Mounted, BeginSave, SaveEnds, BootAt, Loaded, Apply, Answer, Saving, desc
<1>a. /\ NULL \notin Comp /\ NULL \notin Docs
      /\ Missing \notin Files /\ Torn \notin Files /\ Missing # Torn
      /\ SM_MAX_COMPONENTS \in Nat /\ FlushMayFail \in BOOLEAN
  BY SettingsAssumption DEF SettingsAssumption
<1>b. \A c \in Comp : /\ desc(c) \in Descriptor
                      /\ sm_build_defaults(desc(c)) \in Docs
                      /\ \A d \in Docs : sm_codec_encode(desc(c), d) \in Files
  <2> SUFFICES ASSUME NEW c \in Comp
               PROVE  /\ desc(c) \in Descriptor
                      /\ sm_build_defaults(desc(c)) \in Docs
                      /\ \A d \in Docs : sm_codec_encode(desc(c), d) \in Files
    OBVIOUS
  <2>1. desc(c) \in Descriptor
    BY DescLemma DEF IInv, TypeOK, FlashTypeOK
  <2>2. sm_build_defaults(desc(c)) \in Docs
    BY <2>1 DEF Descriptor, sm_build_defaults
  <2> QED
    BY <2>1, <2>2, FileLemma
<1>c. \A c \in Comp : \A file \in Files \cup {Missing, Torn} :
          /\ BootDoc(desc(c), file) \in Docs
          /\ BootDoc(desc(c), sm_codec_encode(desc(c), BootDoc(desc(c), file)))
                = BootDoc(desc(c), file)
          /\ ~BootPersists(desc(c), file) => file \in Files
  BY <1>b, BootDocLemma
<1>d. \A c \in Comp :
          BootDoc(desc(c), sm_codec_encode(desc(c), sm_build_defaults(desc(c))))
             = sm_build_defaults(desc(c))
  BY <1>b, StoredLemma
<1>e. <<>> \in Seq(Comp) /\ Len(<<>>) = 0
  OBVIOUS
<1>f. \A i \in 1..Len(s_registry) : s_registry[i] \in Comp
  BY DEF IInv, TypeOK, RegistryTypeOK
<1> USE <1>a DEF IInv, TypeOK
<1>1. CASE MountFormats
  <2> USE <1>1 DEF MountFormats
  <2>1. FlashTypeOK'
    BY DEF FlashTypeOK, Blocks
  <2>2. RegistryTypeOK'
    <3>1. s_registry' \in Seq(Comp) /\ Len(s_registry') = 0
      BY <1>e
    <3>2. Len(s_registry') <= SM_MAX_COMPONENTS
      BY <3>1, <1>a
    <3> QED
      BY <3>1, <3>2 DEF RegistryTypeOK
  <2>3. EntryTypeOK'
    BY <1>b DEF EntryTypeOK, OpInv, OpTypeOK, RegistryTypeOK, FlashTypeOK
  <2>4. OpTypeOK'
    BY <1>b DEF OpTypeOK, OpInv, RegistryTypeOK
  <2>5. HistoryTypeOK'
    BY <1>b DEF HistoryTypeOK, OpInv, OpTypeOK, RegistryTypeOK, FlashTypeOK
  <2>6. OpInv'
    BY <1>b DEF FlashTypeOK, OpTypeOK, RegistryTypeOK, OpInv, Written, BootOp
  <2>7. PartInv'
    BY DEF PartInv, Ours
  <2>8. BeliefInv'
    BY DEF BeliefInv
  <2>9. PromiseInv'
    BY DEF PromiseInv, Committed, Ours, NotOurs, sm_lfs_probe
  <2> QED
    BY <2>1, <2>2, <2>3, <2>4, <2>5, <2>6, <2>7, <2>8, <2>9
<1>2. CASE MountOurs
  <2> USE <1>2 DEF MountOurs
  <2>1. FlashTypeOK'
    BY <1>b DEF FlashTypeOK, OpInv, OpTypeOK, RegistryTypeOK
  <2>2. RegistryTypeOK'
    <3>1. s_registry' \in Seq(Comp) /\ Len(s_registry') = 0
      BY <1>e
    <3>2. Len(s_registry') <= SM_MAX_COMPONENTS
      BY <3>1, <1>a
    <3> QED
      BY <3>1, <3>2 DEF RegistryTypeOK
  <2>3. EntryTypeOK'
    BY <1>b DEF EntryTypeOK, OpInv, OpTypeOK, RegistryTypeOK, FlashTypeOK
  <2>4. OpTypeOK'
    BY <1>b DEF OpTypeOK, OpInv, RegistryTypeOK
  <2>5. HistoryTypeOK'
    BY <1>b DEF HistoryTypeOK, OpInv, OpTypeOK, RegistryTypeOK, FlashTypeOK
  <2>6. OpInv'
    BY <1>b DEF FlashTypeOK, OpTypeOK, RegistryTypeOK, OpInv, Written, BootOp
  <2>7. PartInv'
    BY DEF PartInv, Ours
  <2>8. BeliefInv'
    BY DEF BeliefInv
  <2>9. PromiseInv'
    BY DEF PromiseInv, Committed, Ours
  <2> QED
    BY <2>1, <2>2, <2>3, <2>4, <2>5, <2>6, <2>7, <2>8, <2>9
<1>3. CASE MountHalf
  <2> USE <1>3 DEF MountHalf
  <2>1. FlashTypeOK'
    BY DEF FlashTypeOK, Blocks
  <2>2. RegistryTypeOK'
    <3>1. s_registry' \in Seq(Comp) /\ Len(s_registry') = 0
      BY <1>e
    <3>2. Len(s_registry') <= SM_MAX_COMPONENTS
      BY <3>1, <1>a
    <3> QED
      BY <3>1, <3>2 DEF RegistryTypeOK
  <2>3. EntryTypeOK'
    BY <1>b DEF EntryTypeOK, OpInv, OpTypeOK, RegistryTypeOK, FlashTypeOK
  <2>4. OpTypeOK'
    BY <1>b DEF OpTypeOK, OpInv, RegistryTypeOK
  <2>5. HistoryTypeOK'
    BY <1>b DEF HistoryTypeOK, OpInv, OpTypeOK, RegistryTypeOK, FlashTypeOK
  <2>6. OpInv'
    BY <1>b DEF FlashTypeOK, OpTypeOK, RegistryTypeOK, OpInv, Written, BootOp
  <2>7. PartInv'
    BY DEF PartInv, Ours, NotOurs, sm_lfs_probe, FlashTypeOK, Blocks
  <2>8. BeliefInv'
    BY DEF BeliefInv
  <2>9. PromiseInv'
    BY DEF PromiseInv, Ours
  <2> QED
    BY <2>1, <2>2, <2>3, <2>4, <2>5, <2>6, <2>7, <2>8, <2>9
<1>4. CASE MountUnusable
  <2> USE <1>4 DEF MountUnusable
  <2>1. FlashTypeOK'
    BY <1>b DEF FlashTypeOK, OpInv, OpTypeOK, RegistryTypeOK
  <2>2. RegistryTypeOK'
    <3>1. s_registry' \in Seq(Comp) /\ Len(s_registry') = 0
      BY <1>e
    <3>2. Len(s_registry') <= SM_MAX_COMPONENTS
      BY <3>1, <1>a
    <3> QED
      BY <3>1, <3>2 DEF RegistryTypeOK
  <2>3. EntryTypeOK'
    BY <1>b DEF EntryTypeOK, OpInv, OpTypeOK, RegistryTypeOK, FlashTypeOK
  <2>4. OpTypeOK'
    BY <1>b DEF OpTypeOK, OpInv, RegistryTypeOK
  <2>5. HistoryTypeOK'
    BY <1>b DEF HistoryTypeOK, OpInv, OpTypeOK, RegistryTypeOK, FlashTypeOK
  <2>6. OpInv'
    BY <1>b DEF FlashTypeOK, OpTypeOK, RegistryTypeOK, OpInv, Written, BootOp
  <2>7. PartInv'
    BY DEF PartInv, Ours
  <2>8. BeliefInv'
    BY DEF BeliefInv
  <2>9. PromiseInv'
    BY DEF PromiseInv, Committed, Ours
  <2> QED
    BY <2>1, <2>2, <2>3, <2>4, <2>5, <2>6, <2>7, <2>8, <2>9
<1>5. CASE MountFails
  <2> USE <1>5 DEF MountFails
  <2>1. FlashTypeOK'
    BY <1>b DEF FlashTypeOK, OpInv, OpTypeOK, RegistryTypeOK
  <2>2. RegistryTypeOK'
    <3>1. s_registry' \in Seq(Comp) /\ Len(s_registry') = 0
      BY <1>e
    <3>2. Len(s_registry') <= SM_MAX_COMPONENTS
      BY <3>1, <1>a
    <3> QED
      BY <3>1, <3>2 DEF RegistryTypeOK
  <2>3. EntryTypeOK'
    BY <1>b DEF EntryTypeOK, OpInv, OpTypeOK, RegistryTypeOK, FlashTypeOK
  <2>4. OpTypeOK'
    BY <1>b DEF OpTypeOK, OpInv, RegistryTypeOK
  <2>5. HistoryTypeOK'
    BY <1>b DEF HistoryTypeOK, OpInv, OpTypeOK, RegistryTypeOK, FlashTypeOK
  <2>6. OpInv'
    BY <1>b DEF FlashTypeOK, OpTypeOK, RegistryTypeOK, OpInv, Written, BootOp
  <2>7. PartInv'
    BY DEF PartInv, Ours
  <2>8. BeliefInv'
    BY DEF BeliefInv
  <2>9. PromiseInv'
    BY DEF PromiseInv, Committed, Ours
  <2> QED
    BY <2>1, <2>2, <2>3, <2>4, <2>5, <2>6, <2>7, <2>8, <2>9
<1>6. CASE settings_manager_start
  <2> USE <1>6 DEF settings_manager_start
  <2>1. FlashTypeOK'
    BY <1>b DEF FlashTypeOK, OpInv, OpTypeOK, RegistryTypeOK
  <2>2. RegistryTypeOK'
    BY <1>b DEF RegistryTypeOK, OpInv, OpTypeOK, FlashTypeOK
  <2>3. EntryTypeOK'
    BY <1>b DEF EntryTypeOK, OpInv, OpTypeOK, RegistryTypeOK, FlashTypeOK
  <2>4. OpTypeOK'
    BY <1>b DEF OpTypeOK, OpInv, RegistryTypeOK
  <2>5. HistoryTypeOK'
    BY <1>b DEF HistoryTypeOK, OpInv, OpTypeOK, RegistryTypeOK, FlashTypeOK
  <2>6. OpInv'
    BY <1>b DEF FlashTypeOK, OpTypeOK, RegistryTypeOK, OpInv, Written, BootOp
  <2>7. PartInv'
    BY DEF PartInv, Ours
  <2>8. BeliefInv'
    BY DEF BeliefInv, Committed
  <2>9. PromiseInv'
    BY DEF PromiseInv, Committed, Ours
  <2> QED
    BY <2>1, <2>2, <2>3, <2>4, <2>5, <2>6, <2>7, <2>8, <2>9
<1>7. CASE SaveRefused
  <2> USE <1>7 DEF SaveRefused
  <2>1. FlashTypeOK'
    BY <1>b DEF FlashTypeOK, OpInv, OpTypeOK, RegistryTypeOK
  <2>2. RegistryTypeOK'
    BY <1>b DEF RegistryTypeOK, OpInv, OpTypeOK, FlashTypeOK
  <2>3. EntryTypeOK'
    BY <1>b DEF EntryTypeOK, OpInv, OpTypeOK, RegistryTypeOK, FlashTypeOK
  <2>4. OpTypeOK'
    BY <1>b DEF OpTypeOK, OpInv, RegistryTypeOK
  <2>5. HistoryTypeOK'
    BY <1>b DEF HistoryTypeOK, OpInv, OpTypeOK, RegistryTypeOK, FlashTypeOK
  <2>6. OpInv'
    BY <1>b DEF FlashTypeOK, OpTypeOK, RegistryTypeOK, OpInv, Written, BootOp
  <2>7. PartInv'
    BY DEF PartInv, Ours
  <2>8. BeliefInv'
    BY DEF BeliefInv, Committed
  <2>9. PromiseInv'
    BY DEF PromiseInv, Committed, Ours
  <2> QED
    BY <2>1, <2>2, <2>3, <2>4, <2>5, <2>6, <2>7, <2>8, <2>9
<1>8. CASE SaveStarts
  <2> USE <1>8 DEF SaveStarts
  <2>1. FlashTypeOK'
    BY <1>b DEF FlashTypeOK, OpInv, OpTypeOK, RegistryTypeOK
  <2>2. RegistryTypeOK'
    BY <1>b DEF RegistryTypeOK, OpInv, OpTypeOK, FlashTypeOK
  <2>3. EntryTypeOK'
    BY <1>b DEF EntryTypeOK, OpInv, OpTypeOK, RegistryTypeOK, FlashTypeOK
  <2>4. OpTypeOK'
    BY <1>b DEF OpTypeOK, OpInv, RegistryTypeOK
  <2>5. HistoryTypeOK'
    BY <1>b DEF HistoryTypeOK, OpInv, OpTypeOK, RegistryTypeOK, FlashTypeOK
  <2>6. OpInv'
    BY <1>b DEF FlashTypeOK, OpTypeOK, RegistryTypeOK, OpInv, Written, BootOp
  <2>7. PartInv'
    BY DEF PartInv, Ours
  <2>8. BeliefInv'
    BY DEF BeliefInv, Committed
  <2>9. PromiseInv'
    BY DEF PromiseInv, Committed, Ours
  <2> QED
    BY <2>1, <2>2, <2>3, <2>4, <2>5, <2>6, <2>7, <2>8, <2>9
<1>9. CASE SaveOpen
  <2> USE <1>9 DEF SaveOpen
  <2>1. FlashTypeOK'
    BY <1>b DEF FlashTypeOK, OpInv, OpTypeOK, RegistryTypeOK
  <2>2. RegistryTypeOK'
    BY <1>b DEF RegistryTypeOK, OpInv, OpTypeOK, FlashTypeOK
  <2>3. EntryTypeOK'
    BY <1>b DEF EntryTypeOK, OpInv, OpTypeOK, RegistryTypeOK, FlashTypeOK
  <2>4. OpTypeOK'
    BY <1>b DEF OpTypeOK, OpInv, RegistryTypeOK
  <2>5. HistoryTypeOK'
    BY <1>b DEF HistoryTypeOK, OpInv, OpTypeOK, RegistryTypeOK, FlashTypeOK
  <2>6. OpInv'
    BY <1>b DEF FlashTypeOK, OpTypeOK, RegistryTypeOK, OpInv, Written, BootOp
  <2>7. PartInv'
    BY DEF PartInv, Ours
  <2>8. BeliefInv'
    BY DEF BeliefInv, Committed
  <2>9. PromiseInv'
    BY DEF PromiseInv, Committed, Ours
  <2> QED
    BY <2>1, <2>2, <2>3, <2>4, <2>5, <2>6, <2>7, <2>8, <2>9
<1>10. CASE SaveOpenFails
  <2> USE <1>10 DEF SaveOpenFails
  <2>1. FlashTypeOK'
    BY <1>b DEF FlashTypeOK, OpInv, OpTypeOK, RegistryTypeOK
  <2>2. RegistryTypeOK'
    BY <1>b DEF RegistryTypeOK, OpInv, OpTypeOK, FlashTypeOK
  <2>3. EntryTypeOK'
    BY <1>b DEF EntryTypeOK, OpInv, OpTypeOK, RegistryTypeOK, FlashTypeOK
  <2>4. OpTypeOK'
    BY <1>b DEF OpTypeOK, OpInv, RegistryTypeOK
  <2>5. HistoryTypeOK'
    BY <1>b DEF HistoryTypeOK, OpInv, OpTypeOK, RegistryTypeOK, FlashTypeOK
  <2>6. OpInv'
    BY <1>b DEF FlashTypeOK, OpTypeOK, RegistryTypeOK, OpInv, Written, BootOp
  <2>7. PartInv'
    BY DEF PartInv, Ours
  <2>8. BeliefInv'
    BY DEF BeliefInv, Committed
  <2>9. PromiseInv'
    BY DEF PromiseInv, Committed, Ours
  <2> QED
    BY <2>1, <2>2, <2>3, <2>4, <2>5, <2>6, <2>7, <2>8, <2>9
<1>11. CASE SaveWrite
  <2> USE <1>11 DEF SaveWrite
  <2>1. FlashTypeOK'
    BY <1>b DEF FlashTypeOK, OpInv, OpTypeOK, RegistryTypeOK
  <2>2. RegistryTypeOK'
    BY <1>b DEF RegistryTypeOK, OpInv, OpTypeOK, FlashTypeOK
  <2>3. EntryTypeOK'
    BY <1>b DEF EntryTypeOK, OpInv, OpTypeOK, RegistryTypeOK, FlashTypeOK
  <2>4. OpTypeOK'
    BY <1>b DEF OpTypeOK, OpInv, RegistryTypeOK
  <2>5. HistoryTypeOK'
    BY <1>b DEF HistoryTypeOK, OpInv, OpTypeOK, RegistryTypeOK, FlashTypeOK
  <2>6. OpInv'
    BY <1>b DEF FlashTypeOK, OpTypeOK, RegistryTypeOK, OpInv, Written, BootOp
  <2>7. PartInv'
    BY DEF PartInv, Ours
  <2>8. BeliefInv'
    BY DEF BeliefInv, Committed
  <2>9. PromiseInv'
    BY DEF PromiseInv, Committed, Ours
  <2> QED
    BY <2>1, <2>2, <2>3, <2>4, <2>5, <2>6, <2>7, <2>8, <2>9
<1>12. CASE SaveShortWrite
  <2> USE <1>12 DEF SaveShortWrite
  <2>1. FlashTypeOK'
    BY <1>b DEF FlashTypeOK, OpInv, OpTypeOK, RegistryTypeOK
  <2>2. RegistryTypeOK'
    BY <1>b DEF RegistryTypeOK, OpInv, OpTypeOK, FlashTypeOK
  <2>3. EntryTypeOK'
    BY <1>b DEF EntryTypeOK, OpInv, OpTypeOK, RegistryTypeOK, FlashTypeOK
  <2>4. OpTypeOK'
    BY <1>b DEF OpTypeOK, OpInv, RegistryTypeOK
  <2>5. HistoryTypeOK'
    BY <1>b DEF HistoryTypeOK, OpInv, OpTypeOK, RegistryTypeOK, FlashTypeOK
  <2>6. OpInv'
    BY <1>b DEF FlashTypeOK, OpTypeOK, RegistryTypeOK, OpInv, Written, BootOp
  <2>7. PartInv'
    BY DEF PartInv, Ours
  <2>8. BeliefInv'
    BY DEF BeliefInv, Committed
  <2>9. PromiseInv'
    BY DEF PromiseInv, Committed, Ours
  <2> QED
    BY <2>1, <2>2, <2>3, <2>4, <2>5, <2>6, <2>7, <2>8, <2>9
<1>13. CASE SaveRename
  <2> USE <1>13 DEF SaveRename
  <2>1. FlashTypeOK'
    BY <1>b DEF FlashTypeOK, OpInv, OpTypeOK, RegistryTypeOK
  <2>2. RegistryTypeOK'
    BY <1>b DEF RegistryTypeOK, OpInv, OpTypeOK, FlashTypeOK
  <2>3. EntryTypeOK'
    BY <1>b DEF EntryTypeOK, OpInv, OpTypeOK, RegistryTypeOK, FlashTypeOK
  <2>4. OpTypeOK'
    BY <1>b DEF OpTypeOK, OpInv, RegistryTypeOK
  <2>5. HistoryTypeOK'
    BY <1>b DEF HistoryTypeOK, OpInv, OpTypeOK, RegistryTypeOK, FlashTypeOK
  <2>6. OpInv'
    BY <1>b DEF FlashTypeOK, OpTypeOK, RegistryTypeOK, OpInv, Written, BootOp
  <2>7. PartInv'
    BY <1>b DEF FlashTypeOK, OpTypeOK, OpInv, Written, PartInv, Ours
  <2>8. BeliefInv'
    BY DEF BeliefInv, Committed
  <2>9. PromiseInv'
    BY DEF PromiseInv, Committed, Ours
  <2> QED
    BY <2>1, <2>2, <2>3, <2>4, <2>5, <2>6, <2>7, <2>8, <2>9
<1>14. CASE SaveRenameFails
  <2> USE <1>14 DEF SaveRenameFails
  <2>1. FlashTypeOK'
    BY <1>b DEF FlashTypeOK, OpInv, OpTypeOK, RegistryTypeOK
  <2>2. RegistryTypeOK'
    BY <1>b DEF RegistryTypeOK, OpInv, OpTypeOK, FlashTypeOK
  <2>3. EntryTypeOK'
    BY <1>b DEF EntryTypeOK, OpInv, OpTypeOK, RegistryTypeOK, FlashTypeOK
  <2>4. OpTypeOK'
    BY <1>b DEF OpTypeOK, OpInv, RegistryTypeOK
  <2>5. HistoryTypeOK'
    BY <1>b DEF HistoryTypeOK, OpInv, OpTypeOK, RegistryTypeOK, FlashTypeOK
  <2>6. OpInv'
    BY <1>b DEF FlashTypeOK, OpTypeOK, RegistryTypeOK, OpInv, Written, BootOp
  <2>7. PartInv'
    BY DEF PartInv, Ours
  <2>8. BeliefInv'
    BY DEF BeliefInv, Committed
  <2>9. PromiseInv'
    BY DEF PromiseInv, Committed, Ours
  <2> QED
    BY <2>1, <2>2, <2>3, <2>4, <2>5, <2>6, <2>7, <2>8, <2>9
<1>15. CASE SetReturns
  <2> USE <1>15 DEF SetReturns
  <2>1. FlashTypeOK'
    BY <1>b DEF FlashTypeOK, OpInv, OpTypeOK, RegistryTypeOK
  <2>2. RegistryTypeOK'
    BY <1>b DEF RegistryTypeOK, OpInv, OpTypeOK, FlashTypeOK
  <2>3. EntryTypeOK'
    BY <1>b DEF EntryTypeOK, OpInv, OpTypeOK, RegistryTypeOK, FlashTypeOK
  <2>4. OpTypeOK'
    BY <1>b DEF OpTypeOK, OpInv, RegistryTypeOK
  <2>5. HistoryTypeOK'
    BY <1>b DEF HistoryTypeOK, OpInv, OpTypeOK, RegistryTypeOK, FlashTypeOK
  <2>6. OpInv'
    BY <1>b DEF FlashTypeOK, OpTypeOK, RegistryTypeOK, OpInv, Written, BootOp
  <2>7. PartInv'
    BY DEF PartInv, Ours
  <2>8. BeliefInv'
    BY DEF EntryTypeOK, OpInv, Written, BeliefInv, Committed
  <2>9. PromiseInv'
    BY DEF HistoryTypeOK, EntryTypeOK, OpInv, Written, PartInv, PromiseInv, Committed, Ours
  <2> QED
    BY <2>1, <2>2, <2>3, <2>4, <2>5, <2>6, <2>7, <2>8, <2>9
<1>16. CASE BootLoad
  <2> USE <1>16 DEF BootLoad
  <2>1. FlashTypeOK'
    BY <1>b DEF FlashTypeOK, OpInv, OpTypeOK, RegistryTypeOK
  <2>2. RegistryTypeOK'
    BY <1>b DEF RegistryTypeOK, OpInv, OpTypeOK, FlashTypeOK
  <2>3. EntryTypeOK'
    <3> DEFINE c == s_registry[op.i]
    <3>1. op.i \in 1..Len(s_registry) /\ c \in Comp
      BY <1>f DEF OpInv, OpTypeOK, RegistryTypeOK
    <3>2. sm_storage_load(c) \in Files \cup {Missing, Torn}
      BY <3>1 DEF sm_storage_load, FlashTypeOK
    <3> DEFINE d == BootDoc(desc(c), sm_storage_load(c))
    <3>3. d \in Docs /\ BootDoc(desc(c), sm_codec_encode(desc(c), d)) = d
      BY <3>1, <3>2, <1>c
    <3>5. CASE BootPersists(desc(c), sm_storage_load(c))
      BY <3>5 DEF EntryTypeOK
    <3>6. CASE ~BootPersists(desc(c), sm_storage_load(c))
      <4>1. Loaded(c, d, TRUE)
        BY <3>6
      <4> HIDE DEF c, d
      <4> QED
        BY <3>1, <3>3, <4>1 DEF EntryTypeOK, Loaded
    <3> QED
      BY <3>5, <3>6
  <2>4. OpTypeOK'
    <3> DEFINE c == s_registry[op.i]
    <3>1. op.i \in 1..Len(s_registry) /\ c \in Comp
      BY <1>f DEF OpInv, OpTypeOK, RegistryTypeOK
    <3>2. sm_storage_load(c) \in Files \cup {Missing, Torn}
      BY <3>1 DEF sm_storage_load, FlashTypeOK
    <3> DEFINE d == BootDoc(desc(c), sm_storage_load(c))
    <3>3. d \in Docs /\ BootDoc(desc(c), sm_codec_encode(desc(c), d)) = d
      BY <3>1, <3>2, <1>c
    <3>4. op.i \in Nat
      BY DEF OpTypeOK
    <3> HIDE DEF d
    <3>5. CASE BootPersists(desc(c), sm_storage_load(c))
      <4>1. op' = [at |-> "encode", by |-> "load", c |-> c, doc |-> d, err |-> "ESP_OK", i |-> op.i]
        BY <3>5 DEF d
      <4> QED
        BY <3>1, <3>3, <3>4, <4>1 DEF OpTypeOK
    <3>6. CASE ~BootPersists(desc(c), sm_storage_load(c))
      <4>1. BootAt("apply", op.i)
        BY <3>6
      <4>2. op' = [at |-> "apply", by |-> NULL, c |-> NULL, doc |-> NULL, err |-> "ESP_OK", i |-> op.i]
        BY <4>1
      <4> QED
        BY <3>4, <4>2 DEF OpTypeOK
    <3> QED
      BY <3>5, <3>6
  <2>5. HistoryTypeOK'
    BY <1>b DEF HistoryTypeOK, OpInv, OpTypeOK, RegistryTypeOK, FlashTypeOK
  <2>6. OpInv'
    <3> DEFINE c == s_registry[op.i]
    <3>1. op.i \in 1..Len(s_registry) /\ c \in Comp
      BY <1>f DEF OpInv, OpTypeOK, RegistryTypeOK
    <3>2. sm_storage_load(c) \in Files \cup {Missing, Torn}
      BY <3>1 DEF sm_storage_load, FlashTypeOK
    <3> DEFINE d == BootDoc(desc(c), sm_storage_load(c))
    <3>3. d \in Docs /\ BootDoc(desc(c), sm_codec_encode(desc(c), d)) = d
      BY <3>1, <3>2, <1>c
    <3> HIDE DEF d
    <3>5. CASE BootPersists(desc(c), sm_storage_load(c))
      <4>1. op' = [at |-> "encode", by |-> "load", c |-> c, doc |-> d, err |-> "ESP_OK", i |-> op.i]
        BY <3>5 DEF d
      <4> HIDE DEF c
      <4> QED
        BY <3>1, <3>3, <4>1 DEF OpInv, Written, BootOp
    <3>6. CASE ~BootPersists(desc(c), sm_storage_load(c))
      BY <3>6, <3>1 DEF OpInv
    <3> QED
      BY <3>5, <3>6
  <2>7. PartInv'
    BY DEF PartInv, Ours
  <2>8. BeliefInv'
    BY <1>c, <1>f DEF EntryTypeOK, sm_storage_load, BeliefInv, Committed
  <2>9. PromiseInv'
    <3> DEFINE c == s_registry[op.i]
    <3>1. op.i \in 1..Len(s_registry) /\ c \in Comp
      BY <1>f DEF OpInv, OpTypeOK, RegistryTypeOK
    <3>2. sm_storage_load(c) \in Files \cup {Missing, Torn}
      BY <3>1 DEF sm_storage_load, FlashTypeOK
    <3> DEFINE d == BootDoc(desc(c), sm_storage_load(c))
    <3>3. d \in Docs /\ BootDoc(desc(c), sm_codec_encode(desc(c), d)) = d
      BY <3>1, <3>2, <1>c
    <3> SUFFICES ASSUME ~FlushMayFail, NEW x \in Comp, ack[x] # {}
                 PROVE  /\ Ours'
                        /\ ~Committed(x)' => BootDoc(desc(x), json[x])' \in ack'[x]
                        /\ (vfs /\ current[x] # NULL)' => current'[x] \in ack'[x]
                        /\ (Saving /\ op.c = x)' => op'.by \in {"set", "restore", "load"}
                        /\ (Saving /\ op.c = x /\ op.by = "load" /\ vfs)' => op'.doc \in ack'[x]
      BY DEF PromiseInv
    <3>4. /\ Ours /\ BootDoc(desc(x), json[x]) \in ack[x]
          /\ vfs /\ current[x] # NULL => current[x] \in ack[x]
      BY DEF PromiseInv, Committed
    <3>5. CASE BootPersists(desc(c), sm_storage_load(c))
      BY <3>1, <3>4, <3>5 DEF Committed, Ours, sm_storage_load
    <3>6. CASE ~BootPersists(desc(c), sm_storage_load(c))
      <4>1. CASE x = c
        <5>1. vfs => sm_storage_load(c) = json[c]
          BY DEF sm_storage_load
        <5>2. current'[c] = d
          BY <3>1, <3>6 DEF EntryTypeOK
        <5> QED
          BY <3>1, <3>4, <3>6, <4>1, <5>1, <5>2 DEF Committed, Ours
      <4>2. CASE x # c
        <5>1. current'[x] = current[x]
          BY <3>1, <3>6, <4>2 DEF EntryTypeOK
        <5> QED
          BY <3>1, <3>4, <3>6, <4>2, <5>1 DEF Committed, Ours
      <4> QED
        BY <4>1, <4>2
    <3> QED
      BY <3>5, <3>6
  <2> QED
    BY <2>1, <2>2, <2>3, <2>4, <2>5, <2>6, <2>7, <2>8, <2>9
<1>17. CASE BootLoadFails
  <2> USE <1>17 DEF BootLoadFails
  <2>1. FlashTypeOK'
    BY <1>b DEF FlashTypeOK, OpInv, OpTypeOK, RegistryTypeOK
  <2>2. RegistryTypeOK'
    BY <1>b DEF RegistryTypeOK, OpInv, OpTypeOK, FlashTypeOK
  <2>3. EntryTypeOK'
    BY <1>b DEF EntryTypeOK, OpInv, OpTypeOK, RegistryTypeOK, FlashTypeOK
  <2>4. OpTypeOK'
    BY <1>b DEF OpTypeOK, OpInv, RegistryTypeOK
  <2>5. HistoryTypeOK'
    BY <1>b DEF HistoryTypeOK, OpInv, OpTypeOK, RegistryTypeOK, FlashTypeOK
  <2>6. OpInv'
    <3> DEFINE c == s_registry[op.i]
    <3>1. op.i \in 1..Len(s_registry) /\ c \in Comp
      BY <1>f DEF OpInv, OpTypeOK, RegistryTypeOK
    <3> DEFINE d == sm_build_defaults(desc(c))
    <3>3. d \in Docs /\ BootDoc(desc(c), sm_codec_encode(desc(c), d)) = d
      BY <3>1, <1>b, <1>d
    <3>4. op' = [at |-> "encode", by |-> "noload", c |-> c, doc |-> d, err |-> "ESP_OK", i |-> op.i]
      OBVIOUS
    <3> HIDE DEF c, d
    <3> QED
      BY <3>1, <3>3, <3>4, EntryTypeOK DEF OpInv, Written, BootOp, EntryTypeOK
  <2>7. PartInv'
    BY DEF PartInv, Ours
  <2>8. BeliefInv'
    BY DEF BeliefInv, Committed
  <2>9. PromiseInv'
    BY <1>f DEF HistoryTypeOK, PromiseInv, Committed, Ours
  <2> QED
    BY <2>1, <2>2, <2>3, <2>4, <2>5, <2>6, <2>7, <2>8, <2>9
<1>18. CASE BootPersisted
  <2> USE <1>18 DEF BootPersisted
  <2>1. FlashTypeOK'
    BY <1>b DEF FlashTypeOK, OpInv, OpTypeOK, RegistryTypeOK
  <2>2. RegistryTypeOK'
    BY <1>b DEF RegistryTypeOK, OpInv, OpTypeOK, FlashTypeOK
  <2>3. EntryTypeOK'
    BY <1>b DEF EntryTypeOK, OpInv, OpTypeOK, RegistryTypeOK, FlashTypeOK
  <2>4. OpTypeOK'
    BY <1>b DEF OpTypeOK, OpInv, RegistryTypeOK
  <2>5. HistoryTypeOK'
    BY <1>b DEF HistoryTypeOK, OpInv, OpTypeOK, RegistryTypeOK, FlashTypeOK
  <2>6. OpInv'
    BY <1>b DEF FlashTypeOK, OpTypeOK, RegistryTypeOK, OpInv, Written, BootOp
  <2>7. PartInv'
    BY DEF PartInv, Ours
  <2>8. BeliefInv'
    BY DEF EntryTypeOK, OpInv, Written, BeliefInv, Committed
  <2>9. PromiseInv'
    BY DEF OpInv, Written, PromiseInv, Committed, Ours
  <2> QED
    BY <2>1, <2>2, <2>3, <2>4, <2>5, <2>6, <2>7, <2>8, <2>9
<1>19. CASE on_apply_ok
  <2> USE <1>19 DEF on_apply_ok
  <2>1. FlashTypeOK'
    BY <1>b DEF FlashTypeOK, OpInv, OpTypeOK, RegistryTypeOK
  <2>2. RegistryTypeOK'
    BY <1>b DEF RegistryTypeOK, OpInv, OpTypeOK, FlashTypeOK
  <2>3. EntryTypeOK'
    BY <1>b DEF EntryTypeOK, OpInv, OpTypeOK, RegistryTypeOK, FlashTypeOK
  <2>4. OpTypeOK'
    <3>1. op.i + 1 \in Nat
      BY DEF OpTypeOK
    <3> QED
      BY <3>1 DEF OpTypeOK
  <2>5. HistoryTypeOK'
    BY <1>b DEF HistoryTypeOK, OpInv, OpTypeOK, RegistryTypeOK, FlashTypeOK
  <2>6. OpInv'
    BY <1>b DEF FlashTypeOK, OpTypeOK, RegistryTypeOK, OpInv, Written, BootOp
  <2>7. PartInv'
    BY DEF PartInv, Ours
  <2>8. BeliefInv'
    BY DEF BeliefInv, Committed
  <2>9. PromiseInv'
    BY DEF PromiseInv, Committed, Ours
  <2> QED
    BY <2>1, <2>2, <2>3, <2>4, <2>5, <2>6, <2>7, <2>8, <2>9
<1>20. CASE on_apply_fails
  <2> USE <1>20 DEF on_apply_fails
  <2>1. FlashTypeOK'
    BY <1>b DEF FlashTypeOK, OpInv, OpTypeOK, RegistryTypeOK
  <2>2. RegistryTypeOK'
    BY <1>b DEF RegistryTypeOK, OpInv, OpTypeOK, FlashTypeOK
  <2>3. EntryTypeOK'
    BY <1>b DEF EntryTypeOK, OpInv, OpTypeOK, RegistryTypeOK, FlashTypeOK
  <2>4. OpTypeOK'
    BY <1>b DEF OpTypeOK, OpInv, RegistryTypeOK
  <2>5. HistoryTypeOK'
    BY <1>b DEF HistoryTypeOK, OpInv, OpTypeOK, RegistryTypeOK, FlashTypeOK
  <2>6. OpInv'
    <3> DEFINE c == s_registry[op.i]
    <3>1. op.i \in 1..Len(s_registry) /\ c \in Comp
      BY <1>f DEF OpInv, OpTypeOK, RegistryTypeOK
    <3> DEFINE d == sm_build_defaults(desc(c))
    <3>3. d \in Docs /\ BootDoc(desc(c), sm_codec_encode(desc(c), d)) = d
      BY <3>1, <1>b, <1>d
    <3>4. op' = [at |-> "encode", by |-> "fallback", c |-> c, doc |-> d, err |-> "ESP_OK", i |-> op.i]
      OBVIOUS
    <3> HIDE DEF c, d
    <3> QED
      BY <3>1, <3>3, <3>4, EntryTypeOK DEF OpInv, Written, BootOp, EntryTypeOK
  <2>7. PartInv'
    BY DEF PartInv, Ours
  <2>8. BeliefInv'
    BY DEF BeliefInv, Committed
  <2>9. PromiseInv'
    BY <1>f DEF HistoryTypeOK, PromiseInv, Committed, Ours
  <2> QED
    BY <2>1, <2>2, <2>3, <2>4, <2>5, <2>6, <2>7, <2>8, <2>9
<1>21. CASE FallbackPersisted
  <2> USE <1>21 DEF FallbackPersisted
  <2>1. FlashTypeOK'
    BY <1>b DEF FlashTypeOK, OpInv, OpTypeOK, RegistryTypeOK
  <2>2. RegistryTypeOK'
    BY <1>b DEF RegistryTypeOK, OpInv, OpTypeOK, FlashTypeOK
  <2>3. EntryTypeOK'
    BY <1>b DEF EntryTypeOK, OpInv, OpTypeOK, RegistryTypeOK, FlashTypeOK
  <2>4. OpTypeOK'
    BY <1>b DEF OpTypeOK, OpInv, RegistryTypeOK
  <2>5. HistoryTypeOK'
    BY <1>b DEF HistoryTypeOK, OpInv, OpTypeOK, RegistryTypeOK, FlashTypeOK
  <2>6. OpInv'
    BY <1>b DEF FlashTypeOK, OpTypeOK, RegistryTypeOK, OpInv, Written, BootOp
  <2>7. PartInv'
    BY DEF PartInv, Ours
  <2>8. BeliefInv'
    <3>1. op'.at = "reapply"
      OBVIOUS
    <3>2. op.err = "ESP_OK" /\ (FlushMayFail => json[op.c] # Torn)
             => BootDoc(desc(op.c), json[op.c]) = op.doc /\ op.doc = current[op.c]
      BY DEF OpInv, Written
    <3> QED
      BY <3>1, <3>2 DEF BeliefInv, Committed, EntryTypeOK, OpInv, Written
  <2>9. PromiseInv'
    BY DEF PromiseInv, Committed, Ours
  <2> QED
    BY <2>1, <2>2, <2>3, <2>4, <2>5, <2>6, <2>7, <2>8, <2>9
<1>22. CASE on_reapply
  <2> USE <1>22 DEF on_reapply
  <2>1. FlashTypeOK'
    BY <1>b DEF FlashTypeOK, OpInv, OpTypeOK, RegistryTypeOK
  <2>2. RegistryTypeOK'
    BY <1>b DEF RegistryTypeOK, OpInv, OpTypeOK, FlashTypeOK
  <2>3. EntryTypeOK'
    BY <1>b DEF EntryTypeOK, OpInv, OpTypeOK, RegistryTypeOK, FlashTypeOK
  <2>4. OpTypeOK'
    <3>1. op.i + 1 \in Nat
      BY DEF OpTypeOK
    <3> QED
      BY <3>1 DEF OpTypeOK
  <2>5. HistoryTypeOK'
    BY <1>b DEF HistoryTypeOK, OpInv, OpTypeOK, RegistryTypeOK, FlashTypeOK
  <2>6. OpInv'
    BY <1>b DEF FlashTypeOK, OpTypeOK, RegistryTypeOK, OpInv, Written, BootOp
  <2>7. PartInv'
    BY DEF PartInv, Ours
  <2>8. BeliefInv'
    BY DEF BeliefInv, Committed
  <2>9. PromiseInv'
    BY DEF PromiseInv, Committed, Ours
  <2> QED
    BY <2>1, <2>2, <2>3, <2>4, <2>5, <2>6, <2>7, <2>8, <2>9
<1>23. CASE BootDone
  <2> USE <1>23 DEF BootDone
  <2>1. FlashTypeOK'
    BY <1>b DEF FlashTypeOK, OpInv, OpTypeOK, RegistryTypeOK
  <2>2. RegistryTypeOK'
    BY <1>b DEF RegistryTypeOK, OpInv, OpTypeOK, FlashTypeOK
  <2>3. EntryTypeOK'
    BY <1>b DEF EntryTypeOK, OpInv, OpTypeOK, RegistryTypeOK, FlashTypeOK
  <2>4. OpTypeOK'
    BY <1>b DEF OpTypeOK, OpInv, RegistryTypeOK
  <2>5. HistoryTypeOK'
    BY <1>b DEF HistoryTypeOK, OpInv, OpTypeOK, RegistryTypeOK, FlashTypeOK
  <2>6. OpInv'
    BY <1>b DEF FlashTypeOK, OpTypeOK, RegistryTypeOK, OpInv, Written, BootOp
  <2>7. PartInv'
    BY DEF PartInv, Ours
  <2>8. BeliefInv'
    BY DEF BeliefInv, Committed
  <2>9. PromiseInv'
    BY DEF PromiseInv, Committed, Ours
  <2> QED
    BY <2>1, <2>2, <2>3, <2>4, <2>5, <2>6, <2>7, <2>8, <2>9
<1>24. CASE settings_manager_factory_reset
  <2> USE <1>24 DEF settings_manager_factory_reset
  <2>1. FlashTypeOK'
    BY <1>b DEF FlashTypeOK, OpInv, OpTypeOK, RegistryTypeOK
  <2>2. RegistryTypeOK'
    BY <1>b DEF RegistryTypeOK, OpInv, OpTypeOK, FlashTypeOK
  <2>3. EntryTypeOK'
    BY <1>b DEF EntryTypeOK, OpInv, OpTypeOK, RegistryTypeOK, FlashTypeOK
  <2>4. OpTypeOK'
    BY <1>b DEF OpTypeOK, OpInv, RegistryTypeOK
  <2>5. HistoryTypeOK'
    BY <1>b DEF HistoryTypeOK, OpInv, OpTypeOK, RegistryTypeOK, FlashTypeOK
  <2>6. OpInv'
    BY <1>b DEF FlashTypeOK, OpTypeOK, RegistryTypeOK, OpInv, Written, BootOp
  <2>7. PartInv'
    BY DEF PartInv, Ours
  <2>8. BeliefInv'
    BY DEF BeliefInv, Committed
  <2>9. PromiseInv'
    BY DEF PromiseInv, Committed, Ours
  <2> QED
    BY <2>1, <2>2, <2>3, <2>4, <2>5, <2>6, <2>7, <2>8, <2>9
<1>25. CASE settings_manager_stop
  <2> USE <1>25 DEF settings_manager_stop
  <2>1. FlashTypeOK'
    BY <1>b DEF FlashTypeOK, OpInv, OpTypeOK, RegistryTypeOK
  <2>2. RegistryTypeOK'
    <3>1. s_registry' \in Seq(Comp) /\ Len(s_registry') = 0
      BY <1>e
    <3>2. Len(s_registry') <= SM_MAX_COMPONENTS
      BY <3>1, <1>a
    <3> QED
      BY <3>1, <3>2 DEF RegistryTypeOK
  <2>3. EntryTypeOK'
    BY <1>b DEF EntryTypeOK, OpInv, OpTypeOK, RegistryTypeOK, FlashTypeOK
  <2>4. OpTypeOK'
    BY <1>b DEF OpTypeOK, OpInv, RegistryTypeOK
  <2>5. HistoryTypeOK'
    BY <1>b DEF HistoryTypeOK, OpInv, OpTypeOK, RegistryTypeOK, FlashTypeOK
  <2>6. OpInv'
    BY <1>b DEF FlashTypeOK, OpTypeOK, RegistryTypeOK, OpInv, Written, BootOp
  <2>7. PartInv'
    BY DEF PartInv, Ours
  <2>8. BeliefInv'
    BY DEF BeliefInv
  <2>9. PromiseInv'
    BY DEF PromiseInv, Committed, Ours
  <2> QED
    BY <2>1, <2>2, <2>3, <2>4, <2>5, <2>6, <2>7, <2>8, <2>9
<1>26. CASE WipeUnmount
  <2> USE <1>26 DEF WipeUnmount
  <2>1. FlashTypeOK'
    BY <1>b DEF FlashTypeOK, OpInv, OpTypeOK, RegistryTypeOK
  <2>2. RegistryTypeOK'
    BY <1>b DEF RegistryTypeOK, OpInv, OpTypeOK, FlashTypeOK
  <2>3. EntryTypeOK'
    BY <1>b DEF EntryTypeOK, OpInv, OpTypeOK, RegistryTypeOK, FlashTypeOK
  <2>4. OpTypeOK'
    BY <1>b DEF OpTypeOK, OpInv, RegistryTypeOK
  <2>5. HistoryTypeOK'
    BY <1>b DEF HistoryTypeOK, OpInv, OpTypeOK, RegistryTypeOK, FlashTypeOK
  <2>6. OpInv'
    BY <1>b DEF FlashTypeOK, OpTypeOK, RegistryTypeOK, OpInv, Written, BootOp
  <2>7. PartInv'
    BY DEF PartInv, Ours
  <2>8. BeliefInv'
    BY DEF BeliefInv, Committed
  <2>9. PromiseInv'
    BY DEF PromiseInv, Committed, Ours
  <2> QED
    BY <2>1, <2>2, <2>3, <2>4, <2>5, <2>6, <2>7, <2>8, <2>9
<1>27. CASE EraseBegins
  <2> USE <1>27 DEF EraseBegins
  <2>1. FlashTypeOK'
    BY DEF FlashTypeOK, Blocks
  <2>2. RegistryTypeOK'
    BY <1>b DEF RegistryTypeOK, OpInv, OpTypeOK, FlashTypeOK
  <2>3. EntryTypeOK'
    BY <1>b DEF EntryTypeOK, OpInv, OpTypeOK, RegistryTypeOK, FlashTypeOK
  <2>4. OpTypeOK'
    BY <1>b DEF OpTypeOK, OpInv, RegistryTypeOK
  <2>5. HistoryTypeOK'
    BY <1>b DEF HistoryTypeOK, OpInv, OpTypeOK, RegistryTypeOK, FlashTypeOK
  <2>6. OpInv'
    BY <1>b DEF FlashTypeOK, OpTypeOK, RegistryTypeOK, OpInv, Written, BootOp
  <2>7. PartInv'
    BY DEF OpInv, PartInv
  <2>8. BeliefInv'
    BY DEF OpInv, BeliefInv
  <2>9. PromiseInv'
    BY DEF PromiseInv
  <2> QED
    BY <2>1, <2>2, <2>3, <2>4, <2>5, <2>6, <2>7, <2>8, <2>9
<1>28. CASE EraseSecond
  <2> USE <1>28 DEF EraseSecond
  <2>1. FlashTypeOK'
    BY DEF FlashTypeOK, Blocks
  <2>2. RegistryTypeOK'
    BY <1>b DEF RegistryTypeOK, OpInv, OpTypeOK, FlashTypeOK
  <2>3. EntryTypeOK'
    BY <1>b DEF EntryTypeOK, OpInv, OpTypeOK, RegistryTypeOK, FlashTypeOK
  <2>4. OpTypeOK'
    BY <1>b DEF OpTypeOK, OpInv, RegistryTypeOK
  <2>5. HistoryTypeOK'
    BY <1>b DEF HistoryTypeOK, OpInv, OpTypeOK, RegistryTypeOK, FlashTypeOK
  <2>6. OpInv'
    BY <1>b DEF FlashTypeOK, OpTypeOK, RegistryTypeOK, OpInv, Written, BootOp
  <2>7. PartInv'
    BY DEF OpInv, PartInv
  <2>8. BeliefInv'
    BY DEF OpInv, BeliefInv
  <2>9. PromiseInv'
    BY DEF OpInv, PromiseInv, Ours
  <2> QED
    BY <2>1, <2>2, <2>3, <2>4, <2>5, <2>6, <2>7, <2>8, <2>9
<1>29. CASE EraseEnds
  <2> USE <1>29 DEF EraseEnds
  <2>1. FlashTypeOK'
    BY <1>b DEF FlashTypeOK, OpInv, OpTypeOK, RegistryTypeOK
  <2>2. RegistryTypeOK'
    BY <1>b DEF RegistryTypeOK, OpInv, OpTypeOK, FlashTypeOK
  <2>3. EntryTypeOK'
    BY <1>b DEF EntryTypeOK, OpInv, OpTypeOK, RegistryTypeOK, FlashTypeOK
  <2>4. OpTypeOK'
    BY <1>b DEF OpTypeOK, OpInv, RegistryTypeOK
  <2>5. HistoryTypeOK'
    BY <1>b DEF HistoryTypeOK, OpInv, OpTypeOK, RegistryTypeOK, FlashTypeOK
  <2>6. OpInv'
    BY <1>b DEF FlashTypeOK, OpTypeOK, RegistryTypeOK, OpInv, Written, BootOp
  <2>7. PartInv'
    BY DEF OpInv, PartInv
  <2>8. BeliefInv'
    BY DEF OpInv, BeliefInv
  <2>9. PromiseInv'
    BY DEF OpInv, PromiseInv, Ours
  <2> QED
    BY <2>1, <2>2, <2>3, <2>4, <2>5, <2>6, <2>7, <2>8, <2>9
<1>30. CASE EraseFails
  <2> USE <1>30 DEF EraseFails
  <2>1. FlashTypeOK'
    BY <1>b DEF FlashTypeOK, OpInv, OpTypeOK, RegistryTypeOK
  <2>2. RegistryTypeOK'
    BY <1>b DEF RegistryTypeOK, OpInv, OpTypeOK, FlashTypeOK
  <2>3. EntryTypeOK'
    BY <1>b DEF EntryTypeOK, OpInv, OpTypeOK, RegistryTypeOK, FlashTypeOK
  <2>4. OpTypeOK'
    BY <1>b DEF OpTypeOK, OpInv, RegistryTypeOK
  <2>5. HistoryTypeOK'
    BY <1>b DEF HistoryTypeOK, OpInv, OpTypeOK, RegistryTypeOK, FlashTypeOK
  <2>6. OpInv'
    BY <1>b DEF FlashTypeOK, OpTypeOK, RegistryTypeOK, OpInv, Written, BootOp
  <2>7. PartInv'
    BY DEF PartInv, Ours
  <2>8. BeliefInv'
    BY DEF OpInv, BeliefInv
  <2>9. PromiseInv'
    BY DEF PromiseInv, Committed, Ours
  <2> QED
    BY <2>1, <2>2, <2>3, <2>4, <2>5, <2>6, <2>7, <2>8, <2>9
<1>31. CASE \E c \in Comp : settings_manager_register(c)
  <2> PICK c \in Comp : settings_manager_register(c)
    BY <1>31
  <2> USE DEF settings_manager_register
  <2>1. s_registry' \in Seq(Comp) /\ Len(s_registry') <= SM_MAX_COMPONENTS
    <3>1. CASE s_registry' = s_registry
      BY <3>1 DEF RegistryTypeOK
    <3>2. CASE s_registry' = Append(s_registry, c) /\ Len(s_registry) < SM_MAX_COMPONENTS
      BY <3>2, <1>a DEF RegistryTypeOK
    <3> QED
      BY <3>1, <3>2, <1>a DEF RegistryTypeOK
  <2>2. TypeOK'
    BY <2>1 DEF FlashTypeOK, RegistryTypeOK, EntryTypeOK, OpTypeOK, HistoryTypeOK
  <2>3. OpInv' /\ PartInv'
    BY DEF OpInv, Written, PartInv, Ours
  <2>4. BeliefInv' /\ PromiseInv'
    BY DEF BeliefInv, PromiseInv, Committed, Ours
  <2> QED
    BY <2>2, <2>3, <2>4
<1>g. ASSUME NEW call \in {"set", "restore"}, NEW c \in Comp, NEW in \in Docs,
             op = Idle, SetBegins(call, c, in), sets' \in Nat
      PROVE  IInv'
  <2> DEFINE cand == sm_fill_missing(in, sm_build_defaults(desc(c)))
  <2>1. cand \in Docs /\ sm_fill_missing(cand, sm_build_defaults(desc(c))) = cand
    BY <1>b, FillLemma
  <2>2. sm_validate_entry(desc(c), cand) => BootDoc(desc(c), sm_codec_encode(desc(c), cand)) = cand
    BY <1>b, <2>1, StoredLemma
  <2>3. \/ Answer(call, c, "ESP_ERR_INVALID_ARG") /\ UNCHANGED ack
        \/ /\ IsPersisted(c, cand) /\ Answer(call, c, "ESP_OK")
           /\ ack' = IF vfs THEN [ack EXCEPT ![c] = {cand}] ELSE ack
        \/ /\ sm_validate_entry(desc(c), cand)
           /\ BeginSave(call, c, cand, 0)
           /\ UNCHANGED <<flashVars, mountVars, regVars, entryVars, reply, ack, wiped, boots>>
    BY <1>g DEF SetBegins
  <2> HIDE DEF cand
  <2>4. CASE Answer(call, c, "ESP_ERR_INVALID_ARG") /\ UNCHANGED ack
    BY <2>4, <1>g
       DEF FlashTypeOK, RegistryTypeOK, EntryTypeOK, OpTypeOK, HistoryTypeOK, OpInv, PartInv,
           BeliefInv, PromiseInv, Committed, Ours
  <2>5. CASE /\ IsPersisted(c, cand) /\ Answer(call, c, "ESP_OK")
             /\ ack' = IF vfs THEN [ack EXCEPT ![c] = {cand}] ELSE ack
    <3>1. TypeOK'
      BY <2>5, <2>1, <1>g DEF FlashTypeOK, RegistryTypeOK, EntryTypeOK, OpTypeOK, HistoryTypeOK
    <3>2. OpInv' /\ PartInv' /\ BeliefInv'
      BY <2>5, <1>g DEF OpInv, Written, PartInv, BeliefInv, Committed, Ours
    <3>3. vfs /\ ~FlushMayFail => BootDoc(desc(c), json[c]) = cand /\ current[c] = cand
      BY <2>5, <1>g DEF IsPersisted, BeliefInv, Committed
    <3>4. PromiseInv'
      BY <2>5, <1>g, <3>3 DEF PromiseInv, PartInv, Committed, Ours, HistoryTypeOK
    <3> QED
      BY <3>1, <3>2, <3>4
  <2>6. CASE /\ sm_validate_entry(desc(c), cand)
             /\ BeginSave(call, c, cand, 0)
             /\ UNCHANGED <<flashVars, mountVars, regVars, entryVars, reply, ack, wiped, boots>>
    <3>1. op' = [at |-> "encode", by |-> call, c |-> c, doc |-> cand, err |-> "ESP_OK", i |-> 0]
      BY <2>6
    <3>2. TypeOK'
      BY <2>6, <2>1, <3>1, <1>g DEF FlashTypeOK, RegistryTypeOK, EntryTypeOK, OpTypeOK, HistoryTypeOK
    <3>3. OpInv'
      BY <2>6, <2>1, <2>2, <3>1, <1>g DEF OpInv, Written, BootOp
    <3>4. PartInv' /\ BeliefInv' /\ PromiseInv'
      BY <2>6, <3>1, <1>g DEF PartInv, BeliefInv, PromiseInv, Committed, Ours
    <3> QED
      BY <3>2, <3>3, <3>4
  <2> QED
    BY <2>3, <2>4, <2>5, <2>6
<1>h. ASSUME NEW call, NEW c, NEW err, op = Idle, Answer(call, c, err), UNCHANGED ack, sets' \in Nat
      PROVE  IInv'
  BY <1>h
     DEF FlashTypeOK, RegistryTypeOK, EntryTypeOK, OpTypeOK, HistoryTypeOK, OpInv, PartInv,
         BeliefInv, PromiseInv, Committed, Ours
<1>32. CASE \E c \in Comp, in \in Inputs : settings_manager_set(c, in)
  <2> PICK c \in Comp, in \in Inputs : settings_manager_set(c, in)
    BY <1>32
  <2>1. in \in Docs /\ sets' \in Nat /\ op = Idle
    BY SettingsAssumption DEF SettingsAssumption, settings_manager_set, HistoryTypeOK
  <2>2. CASE SetBegins("set", c, in)
    BY <2>1, <2>2, <1>g
  <2>3. CASE Answer("set", c, "ESP_ERR_NOT_FOUND") /\ UNCHANGED ack
    BY <2>1, <2>3, <1>h
  <2> QED
    BY <2>2, <2>3 DEF settings_manager_set
<1>33. CASE \E c \in Comp, v \in Versions, in \in Inputs, dry_run \in BOOLEAN :
               settings_manager_restore(c, [version |-> v, data |-> in], dry_run)
  <2> PICK c \in Comp, v \in Versions, in \in Inputs, dry_run \in BOOLEAN :
               settings_manager_restore(c, [version |-> v, data |-> in], dry_run)
    BY <1>33
  <2> DEFINE file == [version |-> v, data |-> in]
  <2>1. in \in Docs /\ sets' \in Nat /\ op = Idle
    BY SettingsAssumption DEF SettingsAssumption, settings_manager_restore, HistoryTypeOK
  <2>2. file \in Files
    BY <2>1 DEF Files
  <2>3. Migrated(desc(c), file) \in Docs \cup {NULL}
    BY <1>b, <2>1, <2>2 DEF Migrated, Descriptor
  <2>4. CASE Migrated(desc(c), file) # NULL /\ SetBegins("restore", c, Migrated(desc(c), file))
    BY <2>1, <2>3, <2>4, <1>g
  <2>5. CASE \E call, err : Answer(call, c, err) /\ UNCHANGED ack
    BY <2>1, <2>5, <1>h
  <2> HIDE DEF Answer
  <2> QED
    BY <2>4, <2>5 DEF settings_manager_restore
<1>34. CASE \E f \in Fw : Reset(f)
  <2> PICK f \in Fw : Reset(f)
    BY <1>34
  <2> USE DEF Reset
  <2>1. RegistryTypeOK'
    <3>1. s_registry' \in Seq(Comp) /\ Len(s_registry') = 0
      BY <1>e
    <3>2. Len(s_registry') <= SM_MAX_COMPONENTS
      BY <3>1, <1>a
    <3> QED
      BY <3>1, <3>2 DEF RegistryTypeOK
  <2>2. HistoryTypeOK'
    BY DEF HistoryTypeOK, OpInv
  <2>3. FlashTypeOK' /\ EntryTypeOK' /\ OpTypeOK'
    BY DEF FlashTypeOK, EntryTypeOK, OpTypeOK
  <2>4. OpInv' /\ PartInv' /\ BeliefInv'
    BY DEF OpInv, Written, PartInv, BeliefInv, Committed, Ours
  <2>5. PromiseInv'
    BY DEF OpInv, Written, PromiseInv, Committed, Ours
  <2> QED
    BY <2>1, <2>2, <2>3, <2>4, <2>5
<1>35. CASE UNCHANGED vars
  BY <1>35
     DEF vars, FlashTypeOK, RegistryTypeOK, EntryTypeOK, OpTypeOK, HistoryTypeOK, OpInv,
         Written, PartInv, BeliefInv, PromiseInv, Committed, Ours, BootOp
<1> QED
  BY <1>1, <1>2, <1>3, <1>4, <1>5, <1>6, <1>7, <1>8, <1>9, <1>10, <1>11, <1>12, <1>13, <1>14, <1>15, <1>16, <1>17, <1>18, <1>19, <1>20, <1>21, <1>22, <1>23, <1>24, <1>25, <1>26, <1>27, <1>28, <1>29, <1>30, <1>31, <1>32, <1>33, <1>34, <1>35
     DEF Next, Calls, Steps, settings_manager_init, sm_storage_save, BootPass

LEMMA InvHolds == Spec => []IInv
<1>1. IInv /\ [Next]_vars => IInv'
  BY StepInv
<1> QED
  BY <1>1, InitInv, PTL DEF Spec

\* Flash, registry, call and promises keep their types, for every set of
\* components, documents, schema versions and firmware images.
THEOREM TypeCorrect == Spec => []TypeOK
<1>1. IInv => TypeOK
  BY DEF IInv
<1> QED
  BY <1>1, InvHolds, PTL

\* Whenever the power fails, no stored settings file is torn unless a factory
\* reset has begun to erase the partition (save_job's temp file and rename).
THEOREM FilesWhole == ASSUME FlushMayFail = FALSE PROVE Spec => []NeverTorn
<1>1. IInv => NeverTorn
  BY DEF IInv, PartInv, NeverTorn
<1> QED
  BY <1>1, InvHolds, PTL

\* What set() or restore() confirmed is what get() returns and what a later
\* boot of the same firmware loads.
THEOREM SettingsSurvive == ASSUME FlushMayFail = FALSE PROVE Spec => []ConfirmedSurvives
<1>1. IInv => ConfirmedSurvives
  BY DEF IInv, PromiseInv, ConfirmedSurvives
<1> QED
  BY <1>1, InvHolds, PTL

\* persisted_clean is sound: get() tells what the next boot loads.
THEOREM BeliefSound == ASSUME FlushMayFail = FALSE PROVE Spec => []GetTellsNextBoot
<1>1. IInv => GetTellsNextBoot
  BY DEF IInv, BeliefInv, GetTellsNextBoot, Saving, Committed
<1> QED
  BY <1>1, InvHolds, PTL

-----------------------------------------------------------------------------
(* What is about to be written is not what is there: a save that has not    *)
(* reached the file yet was asked for because the belief, or the boot       *)
(* pass's look at the file, said otherwise.                                 *)

Asked == op.at \in {"encode", "open"}

WearInv ==
    /\ \A c \in Comp : persisted_clean[c] => current[c] # NULL
    /\ Asked /\ op.by \in {"set", "restore"} /\ persisted_clean[op.c] => current[op.c] # op.doc
    /\ Asked /\ op.by = "load" /\ vfs /\ sm_validate_entry(desc(op.c), op.doc)
          => json[op.c] # sm_codec_encode(desc(op.c), op.doc)

\* boot_load saves a valid document only if the file does not hold it already.
LEMMA BootPersistsLemma ==
    ASSUME NEW e \in Descriptor, NEW file \in Files \cup {Missing, Torn},
           BootPersists(e, file), sm_validate_entry(e, BootDoc(e, file))
    PROVE  file # sm_codec_encode(e, BootDoc(e, file))
<1> DEFINE d == BootDoc(e, file)
<1> SUFFICES ASSUME file = sm_codec_encode(e, d) PROVE FALSE
  OBVIOUS
<1>1. d \in Docs /\ sm_build_defaults(e) \in Docs
  BY BootDocLemma DEF Descriptor, sm_build_defaults
<1>2. file \in Files /\ file.data = d /\ ~(file.version < e.version)
  BY <1>1, FileLemma
<1>3. file \notin {Missing, Torn}
  BY <1>2, FileLemma, <1>1
<1>4. sm_fill_missing(d, sm_build_defaults(e)) = d
  <2>1. CASE Usable(e, file)
    <3>1. Migrated(e, file) = d
      BY <1>2 DEF Migrated
    <3>2. d = sm_fill_missing(d, sm_build_defaults(e))
      BY <2>1, <3>1 DEF BootDoc
    <3> QED
      BY <3>2
  <2>2. CASE ~Usable(e, file)
    <3>1. d = sm_build_defaults(e)
      BY <2>2 DEF BootDoc
    <3> QED
      BY <3>1, <1>1, FillLemma
  <2> QED
    BY <2>1, <2>2
<1> QED
  BY <1>2, <1>3, <1>4 DEF BootPersists

LEMMA WearInit == Init => WearInv
BY DEF Init, WearInv, NoFlags, Asked, Idle

LEMMA WearStep ==
    ASSUME IInv, WearInv, [Next]_vars
    PROVE  WearInv'
<1> USE DEF flashVars, mountVars, regVars, historyVars, entryVars, NoFiles, NoDocs, NoFlags, Idle,
        NoEntries, InitRegistry, Mounted, BeginSave, SaveEnds, BootAt, Loaded, Apply, Answer, desc
<1>a. NULL \notin Comp /\ NULL \notin Docs
  BY SettingsAssumption DEF SettingsAssumption
<1>b. \A c \in Comp : desc(c) \in Descriptor /\ sm_build_defaults(desc(c)) \in Docs
  <2>1. \A c \in Comp : desc(c) \in Descriptor
    BY DescLemma DEF IInv, TypeOK, FlashTypeOK
  <2> QED
    BY <2>1 DEF Descriptor, sm_build_defaults
<1>f. \A i \in 1..Len(s_registry) : s_registry[i] \in Comp
  BY DEF IInv, TypeOK, RegistryTypeOK
<1>t. /\ current \in [Comp -> Docs \cup {NULL}]
      /\ persisted_clean \in [Comp -> BOOLEAN]
      /\ OpTypeOK
      /\ op.at \in {"encode", "open", "write", "rename", "saved"} => op.c \in Comp /\ op.doc \in Docs
      /\ op.at \in {"apply", "reapply"} => op.i \in 1..Len(s_registry)
      /\ op.at = "load" => op.i > 0
  BY DEF IInv, TypeOK, EntryTypeOK, OpInv, Saving
<1>1. CASE MountFormats
  BY <1>1, <1>a, <1>b, <1>f, <1>t DEF MountFormats, WearInv, Asked, OpTypeOK
<1>2. CASE MountOurs
  BY <1>2, <1>a, <1>b, <1>f, <1>t DEF MountOurs, WearInv, Asked, OpTypeOK
<1>3. CASE MountHalf
  BY <1>3, <1>a, <1>b, <1>f, <1>t DEF MountHalf, WearInv, Asked, OpTypeOK
<1>4. CASE MountUnusable
  BY <1>4, <1>a, <1>b, <1>f, <1>t DEF MountUnusable, WearInv, Asked, OpTypeOK
<1>5. CASE MountFails
  BY <1>5, <1>a, <1>b, <1>f, <1>t DEF MountFails, WearInv, Asked, OpTypeOK
<1>6. CASE settings_manager_start
  BY <1>6, <1>a, <1>b, <1>f, <1>t DEF settings_manager_start, WearInv, Asked, OpTypeOK
<1>7. CASE SaveRefused
  BY <1>7, <1>a, <1>b, <1>f, <1>t DEF SaveRefused, WearInv, Asked, OpTypeOK
<1>8. CASE SaveStarts
  BY <1>8, <1>a, <1>b, <1>f, <1>t DEF SaveStarts, WearInv, Asked, OpTypeOK
<1>9. CASE SaveOpen
  BY <1>9, <1>a, <1>b, <1>f, <1>t DEF SaveOpen, WearInv, Asked, OpTypeOK
<1>10. CASE SaveOpenFails
  BY <1>10, <1>a, <1>b, <1>f, <1>t DEF SaveOpenFails, WearInv, Asked, OpTypeOK
<1>11. CASE SaveWrite
  BY <1>11, <1>a, <1>b, <1>f, <1>t DEF SaveWrite, WearInv, Asked, OpTypeOK
<1>12. CASE SaveShortWrite
  BY <1>12, <1>a, <1>b, <1>f, <1>t DEF SaveShortWrite, WearInv, Asked, OpTypeOK
<1>13. CASE SaveRename
  BY <1>13, <1>a, <1>b, <1>f, <1>t DEF SaveRename, WearInv, Asked, OpTypeOK
<1>14. CASE SaveRenameFails
  BY <1>14, <1>a, <1>b, <1>f, <1>t DEF SaveRenameFails, WearInv, Asked, OpTypeOK
<1>15. CASE SetReturns
  BY <1>15, <1>a, <1>b, <1>f, <1>t DEF SetReturns, WearInv, Asked, OpTypeOK
<1>16. CASE BootLoadFails
  BY <1>16, <1>a, <1>b, <1>f, <1>t DEF BootLoadFails, WearInv, Asked, OpTypeOK
<1>17. CASE BootPersisted
  BY <1>17, <1>a, <1>b, <1>f, <1>t DEF BootPersisted, WearInv, Asked, OpTypeOK
<1>18. CASE on_apply_ok
  BY <1>18, <1>a, <1>b, <1>f, <1>t DEF on_apply_ok, WearInv, Asked, OpTypeOK
<1>19. CASE on_apply_fails
  BY <1>19, <1>a, <1>b, <1>f, <1>t DEF on_apply_fails, WearInv, Asked, OpTypeOK
<1>20. CASE FallbackPersisted
  <2>1. op.c \in Comp /\ current[op.c] = op.doc /\ op.doc # NULL
    BY <1>20, <1>a, <1>t DEF FallbackPersisted, IInv, OpInv, Saving
  <2>2. /\ persisted_clean' = [persisted_clean EXCEPT ![op.c] = (op.err = "ESP_OK")]
        /\ current' = current /\ op'.at = "reapply"
    BY <1>20 DEF FallbackPersisted
  <2> QED
    BY <2>1, <2>2, <1>t DEF WearInv, Asked
<1>21. CASE on_reapply
  BY <1>21, <1>a, <1>b, <1>f, <1>t DEF on_reapply, WearInv, Asked, OpTypeOK
<1>22. CASE BootDone
  BY <1>22, <1>a, <1>b, <1>f, <1>t DEF BootDone, WearInv, Asked, OpTypeOK
<1>23. CASE settings_manager_factory_reset
  BY <1>23, <1>a, <1>b, <1>f, <1>t DEF settings_manager_factory_reset, WearInv, Asked, OpTypeOK
<1>24. CASE settings_manager_stop
  BY <1>24, <1>a, <1>b, <1>f, <1>t DEF settings_manager_stop, WearInv, Asked, OpTypeOK
<1>25. CASE WipeUnmount
  BY <1>25, <1>a, <1>b, <1>f, <1>t DEF WipeUnmount, WearInv, Asked, OpTypeOK
<1>26. CASE EraseBegins
  BY <1>26, <1>a, <1>b, <1>f, <1>t DEF EraseBegins, WearInv, Asked, OpTypeOK
<1>27. CASE EraseSecond
  BY <1>27, <1>a, <1>b, <1>f, <1>t DEF EraseSecond, WearInv, Asked, OpTypeOK
<1>28. CASE EraseEnds
  BY <1>28, <1>a, <1>b, <1>f, <1>t DEF EraseEnds, WearInv, Asked, OpTypeOK
<1>29. CASE EraseFails
  BY <1>29, <1>a, <1>b, <1>f, <1>t DEF EraseFails, WearInv, Asked, OpTypeOK
<1>30. CASE \E c \in Comp : settings_manager_register(c)
  BY <1>30 DEF settings_manager_register, WearInv, Asked
<1>31. CASE BootLoad
  <2> DEFINE c == s_registry[op.i]
             file == sm_storage_load(c)
  <2>1. op.i \in 1..Len(s_registry) /\ c \in Comp
    BY <1>31, <1>f, <1>t DEF BootLoad, IInv, TypeOK, OpTypeOK, RegistryTypeOK
  <2>2. file \in Files \cup {Missing, Torn} /\ BootDoc(desc(c), file) \in Docs
    <3>1. file \in Files \cup {Missing, Torn}
      BY <2>1 DEF sm_storage_load, IInv, TypeOK, FlashTypeOK
    <3> QED
      BY <2>1, <3>1, <1>b, BootDocLemma
  <2>3. CASE BootPersists(desc(c), file)
    <3>1. /\ op' = [at |-> "encode", by |-> "load", c |-> c, doc |-> BootDoc(desc(c), file),
                    err |-> "ESP_OK", i |-> op.i]
          /\ UNCHANGED <<fw, json, vfs, current, persisted_clean>>
      BY <1>31, <2>3 DEF BootLoad
    <3>2. vfs /\ sm_validate_entry(desc(c), BootDoc(desc(c), file))
             => json[c] # sm_codec_encode(desc(c), BootDoc(desc(c), file))
      BY <2>1, <2>2, <2>3, <1>b, BootPersistsLemma DEF sm_storage_load
    <3> QED
      BY <3>1, <3>2 DEF WearInv
  <2>4. CASE ~BootPersists(desc(c), file)
    <3>1. /\ current' = [current EXCEPT ![c] = BootDoc(desc(c), file)]
          /\ persisted_clean' = [persisted_clean EXCEPT ![c] = TRUE]
          /\ op'.at = "apply"
      BY <1>31, <2>4 DEF BootLoad
    <3> QED
      BY <3>1, <2>2, <1>a, <1>t DEF WearInv, Asked
  <2> QED
    BY <2>3, <2>4
<1>g. ASSUME NEW call \in {"set", "restore"}, NEW c \in Comp, NEW in, SetBegins(call, c, in)
      PROVE  WearInv'
  <2> DEFINE cand == sm_fill_missing(in, sm_build_defaults(desc(c)))
  <2>1. CASE \E err : Answer(call, c, err)
    BY <2>1 DEF WearInv, Asked
  <2>2. CASE ~IsPersisted(c, cand) /\ BeginSave(call, c, cand, 0) /\ UNCHANGED entryVars
    <3>1. /\ op'.c = c /\ op'.doc = cand /\ op'.by = call /\ call # "load"
          /\ UNCHANGED <<current, persisted_clean>>
      BY <2>2
    <3>2. persisted_clean[c] => current[c] # cand
      BY <2>2 DEF WearInv, IsPersisted
    <3> QED
      BY <3>1, <3>2 DEF WearInv
  <2> QED
    BY <1>g, <2>1, <2>2 DEF SetBegins
<1>32. CASE \E c \in Comp, in \in Inputs : settings_manager_set(c, in)
  <2> PICK c \in Comp, in \in Inputs : settings_manager_set(c, in)
    BY <1>32
  <2>1. CASE SetBegins("set", c, in)
    BY <2>1, <1>g
  <2>2. CASE Answer("set", c, "ESP_ERR_NOT_FOUND")
    BY <2>2 DEF WearInv, Asked
  <2> QED
    BY <2>1, <2>2 DEF settings_manager_set
<1>33. CASE \E c \in Comp, v \in Versions, in \in Inputs, dry_run \in BOOLEAN :
              settings_manager_restore(c, [version |-> v, data |-> in], dry_run)
  <2> PICK c \in Comp, v \in Versions, in \in Inputs, dry_run \in BOOLEAN :
               settings_manager_restore(c, [version |-> v, data |-> in], dry_run)
    BY <1>33
  <2> DEFINE file == [version |-> v, data |-> in]
  <2>1. CASE SetBegins("restore", c, Migrated(desc(c), file))
    BY <2>1, <1>g
  <2>2. CASE \E call, err : Answer(call, c, err)
    BY <2>2 DEF WearInv, Asked
  <2> HIDE DEF Answer
  <2> QED
    BY <2>1, <2>2 DEF settings_manager_restore
<1>34. CASE \E f \in Fw : Reset(f)
  BY <1>34 DEF Reset, WearInv, Asked
<1>35. CASE UNCHANGED vars
  BY <1>35 DEF vars, WearInv, Asked
<1> QED
  BY <1>1, <1>2, <1>3, <1>4, <1>5, <1>6, <1>7, <1>8, <1>9, <1>10, <1>11, <1>12, <1>13, <1>14, <1>15, <1>16, <1>17, <1>18, <1>19, <1>20, <1>21, <1>22, <1>23, <1>24, <1>25, <1>26, <1>27, <1>28, <1>29, <1>30, <1>31, <1>32, <1>33, <1>34, <1>35
     DEF Next, Calls, Steps, settings_manager_init, sm_storage_save, BootPass

\* set(), restore() and the boot pass never write a settings file that already
\* holds what they are about to write (the deduplication of
\* settings_manager_set and boot_load's look at the stored document).
THEOREM WearBounded == Spec => []NoRedundantWrite
<1>1. IInv /\ WearInv /\ [Next]_vars => WearInv'
  BY WearStep
<1>2. IInv /\ WearInv => NoRedundantWrite
  <2> SUFFICES ASSUME IInv, WearInv, op.at = "open", op.by \in {"set", "restore"},
                      persisted_clean[op.c], vfs,
                      json[op.c] = sm_codec_encode(desc(op.c), op.doc)
               PROVE  FALSE
    BY DEF NoRedundantWrite, WearInv, Asked
  <2>1. /\ op.c \in Comp /\ op.doc \in Docs
        /\ BootDoc(desc(op.c), sm_codec_encode(desc(op.c), op.doc)) = op.doc
    BY DEF IInv, OpInv, Saving
  <2>2. current[op.c] # NULL /\ current[op.c] # op.doc
    BY <2>1 DEF WearInv, Asked
  <2>3. json[op.c] # Torn
    BY <2>1, DescLemma, FileLemma DEF IInv, TypeOK, FlashTypeOK
  <2>4. BootDoc(desc(op.c), json[op.c]) = current[op.c]
    BY <2>1, <2>2, <2>3 DEF IInv, BeliefInv, Committed
  <2> QED
    BY <2>1, <2>2, <2>4
<1> QED
  BY <1>1, <1>2, WearInit, InvHolds, PTL DEF Spec

-----------------------------------------------------------------------------
(* The storage implements ConfigStore                                       *)

\* Every step of the manager is a step of ConfigStore or leaves it alone.
LEMMA StoreStep ==
    ASSUME IInv, [Next]_vars, FlushMayFail = FALSE
    PROVE  [Store!Next]_(Store!vars)
<1> USE DEF flashVars, mountVars, regVars, historyVars, entryVars, Idle,
        InitRegistry, BeginSave, SaveEnds, BootAt, Apply, Answer, Saving, desc, StoreCall
<1>a. NULL \notin Comp /\ Missing # Torn
  BY SettingsAssumption DEF SettingsAssumption
<1>b. Saving => StoreCall # NULL
  <2> SUFFICES ASSUME Saving PROVE StoreCall \in SaveCalls
    BY SettingsAssumption DEF SettingsAssumption
  <2>1. op.c \in Comp /\ sm_codec_encode(desc(op.c), op.doc) \in Files
    BY DescLemma, FileLemma DEF IInv, TypeOK, FlashTypeOK, OpInv
  <2> QED
    BY <2>1 DEF SaveCalls
<1>s. ASSUME json' = json, StoreCall' = StoreCall, wiped' = "never" <=> wiped = "never"
      PROVE  [Store!Next]_(Store!vars)
  BY <1>s DEF Store!vars
<1>i. Saving' => op'.c \in Comp /\ op'.doc \in Docs
  BY StepInv DEF IInv, OpInv
<1>n. ASSUME ~Saving, Saving', json' = json, wiped' = wiped, op'.at # "saved", fw' = fw
      PROVE  [Store!Next]_(Store!vars)
  <2>1. Store!Begin(op'.c, sm_codec_encode(desc(op'.c), op'.doc))
    BY <1>n DEF Store!Begin
  <2>2. sm_codec_encode(desc(op'.c), op'.doc) \in Files
    BY <1>n, <1>i, DescLemma, FileLemma DEF IInv, TypeOK, FlashTypeOK
  <2> QED
    BY <1>n, <1>i, <2>1, <2>2 DEF Store!Next
<1>1. CASE MountOurs
  BY <1>1, <1>s DEF MountOurs
<1>2. CASE MountUnusable
  BY <1>2, <1>s DEF MountUnusable
<1>3. CASE MountFails
  BY <1>3, <1>s DEF MountFails
<1>4. CASE settings_manager_start
  BY <1>4, <1>s DEF settings_manager_start
<1>5. CASE SaveStarts
  BY <1>5, <1>s DEF SaveStarts
<1>6. CASE SaveOpen
  BY <1>6, <1>s DEF SaveOpen
<1>7. CASE SaveWrite
  BY <1>7, <1>s DEF SaveWrite
<1>8. CASE on_apply_ok
  BY <1>8, <1>s DEF on_apply_ok
<1>9. CASE on_reapply
  BY <1>9, <1>s DEF on_reapply
<1>10. CASE BootDone
  BY <1>10, <1>s DEF BootDone
<1>11. CASE settings_manager_factory_reset
  BY <1>11, <1>s DEF settings_manager_factory_reset
<1>12. CASE settings_manager_stop
  BY <1>12, <1>s DEF settings_manager_stop
<1>13. CASE WipeUnmount
  BY <1>13, <1>s DEF WipeUnmount
<1>14. CASE EraseSecond
  BY <1>14, <1>s DEF EraseSecond
<1>15. CASE EraseFails
  BY <1>15, <1>s DEF EraseFails
<1>16. CASE SaveRefused
  <2>1. Store!Fail
    BY <1>16, <1>b DEF SaveRefused, Store!Fail, IInv, TypeOK, OpTypeOK
  <2> QED
    BY <2>1 DEF Store!Next
<1>17. CASE SaveOpenFails
  <2>1. Store!Fail
    BY <1>17, <1>b DEF SaveOpenFails, Store!Fail, IInv, TypeOK, OpTypeOK
  <2> QED
    BY <2>1 DEF Store!Next
<1>18. CASE SaveShortWrite
  <2>1. Store!Fail
    BY <1>18, <1>b DEF SaveShortWrite, Store!Fail, IInv, TypeOK, OpTypeOK
  <2> QED
    BY <2>1 DEF Store!Next
<1>19. CASE SaveRenameFails
  <2>1. Store!Fail
    BY <1>19, <1>b DEF SaveRenameFails, Store!Fail, IInv, TypeOK, OpTypeOK
  <2> QED
    BY <2>1 DEF Store!Next
<1>20. CASE SetReturns
  <2>1. Store!End
    BY <1>20, <1>b DEF SetReturns, Store!End
  <2> QED
    BY <2>1 DEF Store!Next
<1>21. CASE BootPersisted
  <2>1. Store!End
    BY <1>21, <1>b DEF BootPersisted, Store!End
  <2> QED
    BY <2>1 DEF Store!Next
<1>22. CASE FallbackPersisted
  <2>1. Store!End
    BY <1>22, <1>b DEF FallbackPersisted, Store!End
  <2> QED
    BY <2>1 DEF Store!Next
<1>23. CASE SaveRename
  <2>1. /\ op.at = "rename" /\ op.c \in Comp
        /\ tmp[op.c] = sm_codec_encode(desc(op.c), op.doc)
        /\ op' = [op EXCEPT !.at = "saved", !.err = "ESP_OK"]
        /\ json' = [json EXCEPT ![op.c] = tmp[op.c]] /\ fw' = fw /\ wiped' = wiped
    BY <1>23 DEF SaveRename, IInv, OpInv, Written
  <2>2. op'.at = "saved" /\ op'.err = "ESP_OK" /\ op'.c = op.c /\ op'.doc = op.doc
    BY <2>1 DEF IInv, TypeOK, OpTypeOK
  <2>3. StoreCall = [c |-> op.c, file |-> sm_codec_encode(desc(op.c), op.doc), state |-> "pending"]
    BY <2>1
  <2>4. StoreCall' = [c |-> op.c, file |-> sm_codec_encode(desc(op.c), op.doc), state |-> "ok"]
    BY <2>1, <2>2
  <2>5. StoreCall # NULL
    BY <2>1, <1>b
  <2>6. json' = [json EXCEPT ![op.c] = sm_codec_encode(desc(op.c), op.doc)]
    BY <2>1
  <2> HIDE DEF StoreCall
  <2>7. Store!Commit
    BY <2>1, <2>3, <2>4, <2>5, <2>6 DEF Store!Commit
  <2> QED
    BY <2>7 DEF Store!Next
<1>24. CASE BootLoadFails
  <2>1. ~Saving /\ Saving' /\ op'.at # "saved" /\ json' = json /\ wiped' = wiped /\ fw' = fw
    BY <1>24 DEF BootLoadFails
  <2> QED
    BY <2>1, <1>n
<1>25. CASE on_apply_fails
  <2>1. ~Saving /\ Saving' /\ op'.at # "saved" /\ json' = json /\ wiped' = wiped /\ fw' = fw
    BY <1>25 DEF on_apply_fails
  <2> QED
    BY <2>1, <1>n
<1>26. CASE BootLoad
  <2> DEFINE c == s_registry[op.i]
  <2>a. CASE BootPersists(desc(c), sm_storage_load(c))
    BY <1>26, <2>a, <1>n DEF BootLoad
  <2>b. CASE ~BootPersists(desc(c), sm_storage_load(c))
    BY <1>26, <2>b, <1>s DEF BootLoad
  <2> QED
    BY <2>a, <2>b
<1>27. CASE EraseBegins
  <2>1. Store!Erase
    BY <1>27 DEF EraseBegins, Store!Erase
  <2> QED
    BY <2>1 DEF Store!Next
<1>28. CASE EraseEnds
  <2>1. Store!Lose
    BY <1>28 DEF EraseEnds, Store!Lose, NoFiles, IInv, OpInv
  <2> QED
    BY <2>1 DEF Store!Next
<1>29. CASE MountFormats
  <2>1. /\ StoreCall = NULL /\ StoreCall' = NULL /\ wiped' = wiped
        /\ json' = NoFiles
    BY <1>29 DEF MountFormats
  <2>2. CASE wiped = "never"
    <3>1. json = NoFiles
      BY <1>29, <2>2 DEF MountFormats, NotOurs, sm_lfs_probe, IInv, PartInv, Ours
    <3> QED
      BY <2>1, <3>1, <1>s
  <2>3. CASE wiped # "never"
    <3>1. Store!Lose
      BY <2>1, <2>3 DEF Store!Lose, NoFiles
    <3> QED
      BY <3>1 DEF Store!Next
  <2> QED
    BY <2>2, <2>3
<1>30. CASE MountHalf
  <2>1. /\ StoreCall = NULL /\ StoreCall' = NULL /\ wiped' = wiped
        /\ wiped # "never"
    BY <1>30 DEF MountHalf, NotOurs, sm_lfs_probe, IInv, PartInv, Ours
  <2>2. PICK kept, torn \in SUBSET Comp :
             /\ kept \cap torn = {}
             /\ json' = [c \in Comp |-> IF c \in kept THEN json[c]
                                       ELSE IF c \in torn THEN Torn ELSE Missing]
    BY <1>30 DEF MountHalf
  <2> DEFINE lost == Comp \ (kept \cup torn)
  <2>3. json' = [c \in Comp |-> IF c \in lost THEN Missing
                               ELSE IF c \in torn THEN Torn ELSE json[c]]
    BY <2>2
  <2>4. lost \in SUBSET Comp
    OBVIOUS
  <2> HIDE DEF lost
  <2>5. Store!Lose
    BY <2>1, <2>2, <2>3, <2>4 DEF Store!Lose
  <2> QED
    BY <2>5 DEF Store!Next
<1>31. CASE \E c \in Comp : settings_manager_register(c)
  BY <1>31, <1>s DEF settings_manager_register
<1>32. CASE \E c \in Comp, in \in Inputs : settings_manager_set(c, in)
  <2> PICK c \in Comp, in \in Inputs : settings_manager_set(c, in)
    BY <1>32
  <2>1. ~Saving
    BY DEF settings_manager_set
  <2>2. CASE SetBegins("set", c, in)
    BY <2>1, <2>2, <1>n, <1>s DEF SetBegins
  <2>3. CASE ~Registered(c)
    BY <2>1, <2>3, <1>s DEF settings_manager_set
  <2> QED
    BY <2>2, <2>3 DEF settings_manager_set
<1>33. CASE \E c \in Comp, v \in Versions, in \in Inputs, dry_run \in BOOLEAN :
               settings_manager_restore(c, [version |-> v, data |-> in], dry_run)
  <2> PICK c \in Comp, v \in Versions, in \in Inputs, dry_run \in BOOLEAN :
               settings_manager_restore(c, [version |-> v, data |-> in], dry_run)
    BY <1>33
  <2> DEFINE file == [version |-> v, data |-> in]
  <2>1. ~Saving
    BY DEF settings_manager_restore
  <2>2. CASE SetBegins("restore", c, Migrated(desc(c), file))
    BY <2>1, <2>2, <1>n, <1>s DEF SetBegins
  <2>3. CASE \E call, err : Answer(call, c, err)
    BY <2>1, <2>3, <1>s
  <2> HIDE DEF Answer
  <2> QED
    BY <2>2, <2>3 DEF settings_manager_restore
<1>34. CASE \E f \in Fw : Reset(f)
  <2>1. StoreCall' = NULL /\ json' = json /\ (wiped' = "never" <=> wiped = "never")
    BY <1>34 DEF Reset, IInv, TypeOK, HistoryTypeOK
  <2>2. CASE Saving
    <3>1. Store!End
      BY <1>b, <2>1, <2>2 DEF Store!End
    <3> QED
      BY <3>1 DEF Store!Next
  <2>3. CASE ~Saving
    BY <2>1, <2>3, <1>s
  <2> QED
    BY <2>2, <2>3
<1>35. CASE UNCHANGED vars
  BY <1>35, <1>s DEF vars
<1> QED
  BY <1>1, <1>2, <1>3, <1>4, <1>5, <1>6, <1>7, <1>8, <1>9, <1>10, <1>11, <1>12, <1>13, <1>14, <1>15, <1>16, <1>17, <1>18, <1>19, <1>20, <1>21, <1>22, <1>23, <1>24, <1>25, <1>26, <1>27, <1>28, <1>29, <1>30, <1>31, <1>32, <1>33, <1>34, <1>35
     DEF Next, Calls, Steps, settings_manager_init, sm_storage_save, BootPass

\* The settings storage implements ConfigStore: a save takes effect at one
\* instant or not at all, its result tells which, and a reset at any point
\* leaves the old file or the new one.
THEOREM Implements == ASSUME FlushMayFail = FALSE PROVE Spec => ImplementsConfigStore
<1>1. Init => Store!Init
  BY DEF Init, Store!Init, StoreCall, Saving, Idle, NoFiles
<1>2. IInv /\ [Next]_vars => [Store!Next]_(Store!vars)
  BY StoreStep
<1> QED
  BY <1>1, <1>2, InvHolds, PTL DEF Spec, ImplementsConfigStore, Store!Spec

=============================================================================

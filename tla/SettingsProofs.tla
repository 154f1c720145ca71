--------------------------- MODULE SettingsProofs ---------------------------
(***************************************************************************)
(* What the settings keep. SettingsFile implements SettingRegister, for    *)
(* every set of settings, any number of updates and any number of failing  *)
(* calls and kills: the two stores that read before they write and restore *)
(* a lost live file (meeting profiles, replacement rules) are registers.   *)
(* Profiles and rule sets lose no edit, and the choices of a microphone    *)
(* and of a quality stand.                                                 *)
(***************************************************************************)
EXTENDS SettingsFile, MeetingProfiles, Preferences, FiniteSetTheorems, TLAPS

-----------------------------------------------------------------------------
(* The stores: files and registers                                         *)

SavePcs == {"clear", "stage", "unback", "aside", "promote", "undo", "drop"}

\* A save in progress.
Save == [pc : SavePcs, new : Settings, old : Settings, had : BOOLEAN]

SafeTypeOK ==
    /\ files \in [target : Settings \cup {Missing}, backup : Settings \cup {Missing},
                  tmp : Settings \cup {Missing, Torn}]
    /\ saving \in {Quiet} \cup Save

\* Where the old and the new document are at each step of a save.  Until the
\* live file is set aside, a missing live file means that there is no backup
\* either, because the save began with a load that moves a backup back: the
\* removal of a stale backup therefore never removes the only copy.
SaveInv ==
    /\ saving.pc \in {"clear", "stage", "unback", "aside"} =>
           /\ Loaded(store, files) = saving.old
           /\ files.target = Missing => files.backup = Missing
    /\ saving.pc = "aside" => files.backup = Missing
    /\ saving.pc \in {"unback", "aside", "promote", "undo"} => files.tmp = saving.new
    /\ saving.pc \in {"promote", "undo"} =>
           /\ files.target = Missing
           /\ saving.had <=> files.backup # Missing
           /\ Loaded(store, files) = saving.old
    /\ saving.pc = "drop" => files.target = saving.new

\* The inductive invariant, of the stores that are registers.
RegisterInv == store \in SafeStores => SafeTypeOK /\ SaveInv

-----------------------------------------------------------------------------
(* The stores and the loads                                                *)

\* Every store that restores and reads also stages its document and is tidy.
LEMMA SafeStore ==
    ASSUME NEW s \in SafeStores
    PROVE  s.restores = TRUE /\ s.reads = TRUE /\ s.tidy = TRUE /\ s.staged = TRUE
BY DEF SafeStores, AllStores, MicrophoneStore, ProfileStore, RuleStore, FallbackStore,
       QualityStore, ConsentDocument

LEMMA MarksDiffer == Missing \notin Settings /\ Torn \notin Settings /\ Missing # Torn
BY MarksAreNoSettings DEF Missing, Torn, Refusing

\* A load of a safe store always finds a setting, and moving a backup back
\* does not change what it finds.
LEMMA LoadFinds ==
    ASSUME NEW s \in SafeStores, NEW f,
           f \in [target : Settings \cup {Missing}, backup : Settings \cup {Missing},
                  tmp : Settings \cup {Missing, Torn}]
    PROVE  /\ Loaded(s, f) \in Settings
           /\ Restored(s, f) \in [target : Settings \cup {Missing}, backup : Settings \cup {Missing},
                                  tmp : Settings \cup {Missing, Torn}]
           /\ Loaded(s, Restored(s, f)) = Loaded(s, f)
           /\ Restored(s, f).target = Missing => Restored(s, f).backup = Missing
BY SafeStore, MarksDiffer, SettingConstants DEF Loaded, Restored

-----------------------------------------------------------------------------
(* The invariant                                                           *)

LEMMA RegisterInvInit == SettingInit => RegisterInv
BY DEF SettingInit, RegisterInv, SafeTypeOK, SaveInv, Quiet

LEMMA RegisterInvStep == RegisterInv /\ [SettingNext]_settingVars => RegisterInv'
<1> SUFFICES ASSUME RegisterInv, [SettingNext]_settingVars, store' \in SafeStores
             PROVE  SafeTypeOK' /\ SaveInv'
  BY DEF RegisterInv
<1>1. store' = store
  BY DEF SettingNext, settingVars, LoadSetting, BeginUpdate, ClearTemporary, Failed,
         StageSetting, RemoveBackup, TargetAside, PromoteSetting, UndoPromotion, FinishUpdate,
         RewriteDocument, Interrupted
<1>2. store \in SafeStores /\ SafeTypeOK /\ SaveInv
  BY <1>1 DEF RegisterInv
<1>3. store.restores = TRUE /\ store.reads = TRUE /\ store.tidy = TRUE /\ store.staged = TRUE
  BY <1>2, SafeStore
<1> USE <1>1, <1>2, <1>3, MarksDiffer
<1>4. CASE LoadSetting
  BY <1>4, LoadFinds DEF LoadSetting, SafeTypeOK, SaveInv, Quiet, Save, SavePcs
<1>5. ASSUME NEW v \in Settings, BeginUpdate(v)
      PROVE  SafeTypeOK' /\ SaveInv'
  BY <1>5, LoadFinds DEF BeginUpdate, SafeTypeOK, SaveInv, Quiet, Save, SavePcs
<1>6. ASSUME NEW tmp \in Settings \cup {Missing, Torn}, Failed(tmp)
      PROVE  SafeTypeOK' /\ SaveInv'
  BY <1>6 DEF Failed, SafeTypeOK, SaveInv, Quiet, Save, SavePcs
<1>7. CASE ClearTemporary
  BY <1>6, <1>7 DEF ClearTemporary, Step, SafeTypeOK, SaveInv, Quiet, Save, SavePcs, Loaded
<1>8. CASE StageSetting
  BY <1>6, <1>8 DEF StageSetting, Step, SafeTypeOK, SaveInv, Quiet, Save, SavePcs, Loaded
<1>9. CASE RemoveBackup
  BY <1>6, <1>9 DEF RemoveBackup, Step, SafeTypeOK, SaveInv, Quiet, Save, SavePcs, Loaded
<1>10. CASE TargetAside
  <2>1. CASE Failed(files.tmp)
    BY <1>6, <2>1 DEF SafeTypeOK
  <2>2. CASE ~Failed(files.tmp)
    <3>1. /\ saving.pc = "aside" /\ saving \in Save
          /\ files' = [files EXCEPT !.backup = files.target, !.target = Missing]
      BY <1>10, <2>2 DEF TargetAside, SafeTypeOK, Quiet
    <3>2. PICK moved \in BOOLEAN : /\ moved <=> files.target # Missing
                                  /\ saving' = [saving EXCEPT !.pc = "promote", !.had = moved]
      BY <1>10, <2>2, Zenon DEF TargetAside
    <3>5. /\ saving' \in Save /\ saving'.pc = "promote" /\ (saving'.had <=> moved)
          /\ saving'.new = saving.new /\ saving'.old = saving.old
      BY <3>1, <3>2 DEF Save, SavePcs
    <3>3. /\ files'.target = Missing /\ files'.backup = files.target /\ files'.tmp = files.tmp
      BY <3>1 DEF SafeTypeOK
    <3>4. Loaded(store, files') = Loaded(store, files)
      BY <3>1, <3>3 DEF Loaded, SafeTypeOK, SaveInv
    <3>6. QED
      BY <3>1, <3>2, <3>5, <3>3, <3>4 DEF SaveInv, SafeTypeOK, Save, SavePcs
  <2> QED
    BY <2>1, <2>2
<1>11. CASE PromoteSetting
  <2>1. saving \in Save /\ saving.pc = "promote"
    BY <1>11 DEF PromoteSetting, SafeTypeOK, Quiet
  <2>2. CASE saving' = [saving EXCEPT !.pc = "drop"]
             /\ files' = [files EXCEPT !.target = files.tmp, !.tmp = Missing]
    BY <2>1, <2>2 DEF SafeTypeOK, SaveInv, Save, SavePcs
  <2>3. CASE saving' = [saving EXCEPT !.pc = "undo"] /\ files' = files
    <3>1. saving' \in Save /\ saving'.pc = "undo" /\ (saving'.had <=> saving.had)
          /\ saving'.new = saving.new /\ saving'.old = saving.old
      BY <2>1, <2>3 DEF Save, SavePcs
    <3>2. QED
      BY <2>1, <2>3, <3>1 DEF SafeTypeOK, SaveInv, Loaded
  <2> QED
    BY <1>11, <2>2, <2>3 DEF PromoteSetting
<1>12. CASE UndoPromotion
  BY <1>12 DEF UndoPromotion, SafeTypeOK, SaveInv, Quiet, Save, SavePcs
<1>13. CASE FinishUpdate
  BY <1>13 DEF FinishUpdate, SafeTypeOK, SaveInv, Quiet, Save, SavePcs
<1>14. CASE RewriteDocument
  BY <1>14 DEF RewriteDocument, Step, SafeTypeOK, SaveInv, Quiet, Save, SavePcs
<1>15. CASE Interrupted
  BY <1>15 DEF Interrupted, SafeTypeOK, SaveInv, Quiet, Save, SavePcs
<1>16. CASE UNCHANGED settingVars
  BY <1>16 DEF settingVars, SafeTypeOK, SaveInv, Loaded
<1> QED
  BY <1>4, <1>5, <1>7, <1>8, <1>9, <1>10, <1>11, <1>12, <1>13, <1>14, <1>15, <1>16 DEF SettingNext

\* Wherever a save of a safe store stands, and after every failed call and
\* kill, the files hold the old document or the new one.
THEOREM SettingInvariant == SettingSpec => []RegisterInv
<1>1. QED
  BY RegisterInvInit, RegisterInvStep, PTL DEF SettingSpec
-----------------------------------------------------------------------------
(* The refinement                                                          *)

\* What the register holds, and the update it is in, for a safe store.
LEMMA RegisterStep ==
    ASSUME RegisterInv, [SettingNext]_settingVars, store \in SafeStores, store' = store
    PROVE  LET value == Loaded(store, files) IN
           \/ \E v \in Settings : /\ Update = Quiet /\ Update' = [new |-> v, old |-> value]
                                  /\ value' = value
           \/ /\ Update # Quiet /\ value = Update.old /\ value' = Update.new
              /\ Update' = Update
           \/ /\ Update # Quiet /\ value \in {Update.old, Update.new}
              /\ Update' = Quiet /\ value' = value
           \/ Update' = Update /\ value' = value
<1> DEFINE value == Loaded(store, files)
<1>1. SafeTypeOK /\ SaveInv
  BY DEF RegisterInv
<1>2. store.restores = TRUE /\ store.reads = TRUE /\ store.tidy = TRUE /\ store.staged = TRUE
  BY SafeStore
<1>3. saving.pc \in SavePcs => Update = [new |-> saving.new, old |-> saving.old] /\ Update # Quiet
  BY <1>1 DEF SafeTypeOK, Save, SavePcs, Quiet, Update
<1> USE <1>1, <1>2, MarksDiffer
<1>4. CASE LoadSetting
  BY <1>4, LoadFinds DEF LoadSetting, SafeTypeOK, Update
<1>5. ASSUME NEW v \in Settings, BeginUpdate(v)
      PROVE  Update = Quiet /\ Update' = [new |-> v, old |-> value] /\ value' = value
  BY <1>5, LoadFinds DEF BeginUpdate, SafeTypeOK, Update, Quiet
\* A save that goes on and has not changed what a load finds.
<1>6. ASSUME saving.pc \in SavePcs, saving' \in Save, saving'.new = saving.new,
             saving'.old = saving.old, value' = value
      PROVE  Update' = Update /\ value' = value
  BY <1>3, <1>6 DEF Update, Quiet, Save, SavePcs
\* A save that ends before its promotion, and one that ends after it.
<1>7. ASSUME saving.pc \in SavePcs, saving' = Quiet, value' = value,
             saving.pc # "drop" => value = saving.old, saving.pc = "drop" => value = saving.new
      PROVE  /\ Update # Quiet /\ value \in {Update.old, Update.new}
             /\ Update' = Quiet /\ value' = value
  BY <1>3, <1>7 DEF Update
<1>8. saving.pc \in SavePcs /\ saving.pc # "drop" => value = saving.old
  BY DEF SaveInv, SavePcs
<1>9. saving.pc = "drop" => value = saving.new
  BY DEF SaveInv, Loaded, SafeTypeOK, Save, SavePcs, Quiet
<1>10. ASSUME NEW tmp, Failed(tmp)
       PROVE  saving' = Quiet /\ value' = value
  BY <1>10 DEF Failed, Loaded, SafeTypeOK
<1>11. CASE ClearTemporary \/ StageSetting \/ RemoveBackup
  <2>1. saving.pc \in SavePcs /\ saving.pc # "drop" /\ value' = value
    BY <1>10, <1>11 DEF ClearTemporary, StageSetting, RemoveBackup, Step, SaveInv, SavePcs,
                        SafeTypeOK, Loaded
  <2>2. saving' = Quiet \/ (saving' \in Save /\ saving'.new = saving.new /\ saving'.old = saving.old)
    BY <1>10, <1>11 DEF ClearTemporary, StageSetting, RemoveBackup, Step, SafeTypeOK, Save,
                        SavePcs, Quiet
  <2> QED
    BY <1>6, <1>7, <1>8, <2>1, <2>2
<1>12. CASE TargetAside
  <2>1. saving.pc = "aside" /\ value' = value
    BY <1>10, <1>12 DEF TargetAside, SaveInv, SafeTypeOK, Loaded
  <2>2. saving' = Quiet \/ (saving' \in Save /\ saving'.new = saving.new /\ saving'.old = saving.old)
    <3>1. saving \in Save
      BY <2>1 DEF SafeTypeOK, Quiet
    <3>2. ASSUME NEW moved \in BOOLEAN, saving' = [saving EXCEPT !.pc = "promote", !.had = moved]
          PROVE  saving' \in Save /\ saving'.new = saving.new /\ saving'.old = saving.old
      BY <3>1, <3>2 DEF Save, SavePcs
    <3>3. (files.target # Missing) \in BOOLEAN
      OBVIOUS
    <3> QED
      BY <1>10, <1>12, <3>2, <3>3, Zenon DEF TargetAside
  <2> QED
    BY <1>6, <1>7, <1>8, <2>1, <2>2 DEF SavePcs
<1>13. CASE PromoteSetting
  <2>1. saving.pc = "promote" /\ saving \in Save
    BY <1>13 DEF PromoteSetting, SafeTypeOK, Quiet
  <2>2. saving' \in Save /\ saving'.new = saving.new /\ saving'.old = saving.old
    BY <1>13, <2>1 DEF PromoteSetting, Save, SavePcs
  <2>3. Update' = Update
    BY <1>3, <2>1, <2>2 DEF Update, Quiet, Save, SavePcs
  <2>4. CASE files' = [files EXCEPT !.target = files.tmp, !.tmp = Missing]
    BY <1>3, <1>8, <2>1, <2>3, <2>4 DEF SavePcs, SaveInv, Loaded, SafeTypeOK, Save
  <2>5. CASE files' = files
    BY <2>3, <2>5 DEF Loaded
  <2> QED
    BY <1>13, <2>4, <2>5 DEF PromoteSetting
<1>14. CASE UndoPromotion
  <2>1. saving.pc = "undo" /\ saving' = Quiet /\ value' = value
    BY <1>14 DEF UndoPromotion, SaveInv, SafeTypeOK, Loaded
  <2> QED
    BY <1>7, <1>8, <2>1 DEF SavePcs
<1>15. CASE FinishUpdate
  <2>1. saving.pc = "drop" /\ saving' = Quiet /\ value' = value
    BY <1>15 DEF FinishUpdate, SaveInv, SafeTypeOK, Loaded, Save, SavePcs, Quiet
  <2> QED
    BY <1>7, <1>9, <2>1 DEF SavePcs
<1>16. CASE RewriteDocument
  BY <1>16 DEF RewriteDocument, Step, SafeTypeOK, Save, SavePcs, Quiet
<1>17. CASE Interrupted
  <2>1. saving.pc \in SavePcs /\ saving' = Quiet /\ value' = value
    BY <1>17 DEF Interrupted, SafeTypeOK, Save, Loaded
  <2> QED
    BY <1>7, <1>8, <1>9, <2>1
<1>18. CASE UNCHANGED settingVars
  BY <1>18 DEF settingVars, Update, Loaded
<1> QED
  BY <1>4, <1>5, <1>11, <1>12, <1>13, <1>14, <1>15, <1>16, <1>17, <1>18 DEF SettingNext

\* The detailed store implements the register: an update takes effect at one
\* moment, the promotion, or not at all.  An acknowledged update has taken
\* effect, a refused one has not, and a kill at any point leaves the old or
\* the new setting (write_profiles_atomically, write_rules_atomically).
THEOREM SettingImplementsRegister == SettingSpec => SettingIsRegister
<1> DEFINE value == IF store \in SafeStores THEN Loaded(store, files) ELSE DefaultSetting
           update == IF store \in SafeStores THEN Update ELSE Quiet
<1>1. SettingInit => SafeRegister!RegisterInit
  BY SettingConstants, LoadFinds
     DEF SettingInit, SafeRegister!RegisterInit, Update, Quiet
<1>2. RegisterInv /\ [SettingNext]_settingVars => [SafeRegister!RegisterNext]_<<value, update>>
  <2> SUFFICES ASSUME RegisterInv, [SettingNext]_settingVars
               PROVE  [SafeRegister!RegisterNext]_<<value, update>>
    OBVIOUS
  <2>1. store' = store
    BY DEF SettingNext, settingVars, LoadSetting, BeginUpdate, ClearTemporary, Failed,
           StageSetting, RemoveBackup, TargetAside, PromoteSetting, UndoPromotion, FinishUpdate,
           RewriteDocument, Interrupted
  <2>2. CASE store \notin SafeStores
    BY <2>1, <2>2
  <2>3. CASE store \in SafeStores
    BY <2>1, <2>3, RegisterStep
       DEF SafeRegister!RegisterNext, SafeRegister!Begin, SafeRegister!TakeEffect,
           SafeRegister!Acknowledge, SafeRegister!Refuse
  <2> QED
    BY <2>2, <2>3
<1>3. QED
  BY <1>1, <1>2, SettingInvariant, PTL DEF SettingSpec, SettingIsRegister, SafeRegister!RegisterSpec

-----------------------------------------------------------------------------
(* Meeting profiles and replacement rules                                  *)

\* Every version ever stored (ever): its kind, its id and the document; re
\* holds the kinds and ids that were created twice.
HistoryInv(ever, re) ==
    /\ \A e \in ever : e = <<e[1], e[2], e[3]>> /\ e[3].version \in Nat
    /\ \A e, f \in ever :
           /\ e[1] = f[1] /\ e[2] = f[2] /\ e[3].version = f[3].version
           /\ <<e[1], e[2]>> \notin re
           => e = f

\* What a window has seen of a kind are versions that were stored ...
SeenInv(kind, docs, ever) == \A id \in DOMAIN docs : <<kind, id, docs[id]>> \in ever

\* ... and the stored documents are the latest ones.
LatestInv(kind, docs, ever, re) ==
    /\ SeenInv(kind, docs, ever)
    /\ \A e \in ever : e[1] = kind /\ e[2] \in DOMAIN docs /\ <<kind, e[2]>> \notin re
           => e[3].version <= docs[e[2]].version

\* The token of a preview holds what the window shows.
PreviewInv(v) ==
    v # Nothing => v.token.out = Output(v.shown) /\ v.token.protected = v.shown.protected

\* A profile as validate_profile accepted it.
ModelFits(p) ==
    /\ p.tier \in {"fast", "balanced", "maximum"}
    /\ p.speech \in {ModelFor(p.tier, p.language), "parakeet"}

WindowsInv ==
    /\ DOMAIN lists = Windows /\ DOMAIN previews = Windows
    /\ \A w \in Windows : /\ SeenInv("profile", lists[w].profiles, everStored)
                          /\ SeenInv("rules", lists[w].ruleSets, everStored)
                          /\ PreviewInv(previews[w])

ProfileInv ==
    /\ HistoryInv(everStored, reused)
    /\ LatestInv("profile", profiles, everStored, reused)
    /\ LatestInv("rules", ruleSets, everStored, reused)
    /\ WindowsInv
    /\ \A id \in DOMAIN profiles : ModelFits(profiles[id])
    /\ ActiveResolves /\ NoLostEdit /\ SnapshotAsSelected /\ AppliedAsPreviewed

-----------------------------------------------------------------------------
(* Lemmas                                                                  *)

\* A window that sent the stored version has seen the stored document.
LEMMA SeenIsStored ==
    ASSUME NEW ever, NEW re, HistoryInv(ever, re), NEW kind, NEW docs, NEW seen, NEW id,
           LatestInv(kind, docs, ever, re), SeenInv(kind, seen, ever), Unchanged(docs, seen, id)
    PROVE  seen[id] = docs[id] \/ <<kind, id>> \in re
<1> SUFFICES ASSUME <<kind, id>> \notin re PROVE seen[id] = docs[id]
  OBVIOUS
<1>1. <<kind, id, docs[id]>> \in ever /\ <<kind, id, seen[id]>> \in ever
  BY DEF LatestInv, SeenInv, Unchanged
<1>2. seen[id].version = docs[id].version
  BY DEF Unchanged
<1>3. <<kind, id, docs[id]>> = <<kind, id, seen[id]>>
  BY <1>1, <1>2 DEF HistoryInv
<1> QED
  BY <1>3

\* The speech model a profile is stored with is one that a capture accepts.
LEMMA ModelFitsSnapshot ==
    ASSUME NEW p, ModelFits(p)
    PROVE  AcceptedSnapshot(p)
BY DEF ModelFits, AcceptedSnapshot, ModelFor, TierOf

\* Version n of the id is above every stored one, or the id is created anew.
Above(ever, re, kind, id, n) ==
    <<kind, id>> \in re \/ \A e \in ever : e[1] = kind /\ e[2] = id => e[3].version < n

\* A document of such a version may be added ...
LEMMA AddVersion ==
    ASSUME NEW ever, NEW re, HistoryInv(ever, re), NEW re2, re \subseteq re2, NEW kind, NEW id, NEW doc,
           doc.version \in Nat, Above(ever, re2, kind, id, doc.version)
    PROVE  HistoryInv(ever \cup {<<kind, id, doc>>}, re2)
<1> DEFINE more == ever \cup {<<kind, id, doc>>}
<1>1. \A e \in more : e = <<e[1], e[2], e[3]>> /\ e[3].version \in Nat
  BY DEF HistoryInv
<1>2. ASSUME NEW e \in more, NEW f \in more, e[1] = f[1], e[2] = f[2], <<e[1], e[2]>> \notin re2,
             e[3].version = f[3].version
      PROVE  e = f
  <2>1. CASE e \in ever /\ f \in ever
    BY <1>2, <2>1 DEF HistoryInv
  <2>2. CASE e = <<kind, id, doc>> /\ f \in ever
    <3>1. f[1] = kind /\ f[2] = id /\ f[3].version = doc.version /\ <<kind, id>> \notin re2
      BY <1>2, <2>2
    <3> QED
      BY <2>2, <3>1 DEF Above
  <2>3. CASE f = <<kind, id, doc>> /\ e \in ever
    <3>1. e[1] = kind /\ e[2] = id /\ e[3].version = doc.version /\ <<kind, id>> \notin re2
      BY <1>2, <2>3
    <3> QED
      BY <2>3, <3>1 DEF Above
  <2> QED
    BY <2>1, <2>2, <2>3
<1> QED
  BY <1>1, <1>2 DEF HistoryInv

\* ... and is the latest of its id.
LEMMA StoreVersion ==
    ASSUME NEW ever, NEW re, HistoryInv(ever, re), NEW re2, re \subseteq re2, NEW kind, NEW docs, NEW id,
           NEW doc, LatestInv(kind, docs, ever, re), doc.version \in Nat,
           Above(ever, re2, kind, id, doc.version)
    PROVE  LatestInv(kind, With(docs, id, doc), ever \cup {<<kind, id, doc>>}, re2)
<1> DEFINE new == With(docs, id, doc)
           more == ever \cup {<<kind, id, doc>>}
<1>1. DOMAIN new = DOMAIN docs \cup {id} /\ new[id] = doc
      /\ \A i \in DOMAIN docs : i # id => new[i] = docs[i]
  BY DEF With
<1>2. \A i \in DOMAIN new : <<kind, i, new[i]>> \in more
  BY <1>1 DEF LatestInv, SeenInv
<1>3. ASSUME NEW e \in more, e[1] = kind, e[2] \in DOMAIN new, <<kind, e[2]>> \notin re2
      PROVE  e[3].version <= new[e[2]].version
  <2>1. CASE e = <<kind, id, doc>>
    BY <1>1, <2>1
  <2>2. CASE e \in ever /\ e[2] = id
    <3>1. e[3].version \in Nat /\ e[3].version < doc.version
      BY <1>3, <2>2 DEF HistoryInv, Above
    <3> QED
      BY <1>1, <2>2, <3>1
  <2>3. CASE e \in ever /\ e[2] # id
    BY <1>1, <1>3, <2>3 DEF LatestInv
  <2> QED
    BY <2>1, <2>2, <2>3
<1> HIDE DEF new, more
<1> QED
  BY <1>2, <1>3 DEF LatestInv, SeenInv, new, more

\* A document of another kind does not concern it.
LEMMA OtherKindKept ==
    ASSUME NEW ever, NEW re, NEW re2, re \subseteq re2, NEW kind, NEW other, NEW docs, NEW id, NEW doc,
           kind # other, LatestInv(kind, docs, ever, re)
    PROVE  LatestInv(kind, docs, ever \cup {<<other, id, doc>>}, re2)
BY DEF LatestInv, SeenInv

\* The version after the stored one is above every version of its id.
LEMMA NextIsNew ==
    ASSUME NEW ever, NEW re, HistoryInv(ever, re), NEW kind, NEW docs, NEW id \in DOMAIN docs,
           LatestInv(kind, docs, ever, re)
    PROVE  NextVersion(docs[id]) \in Nat /\ Above(ever, re, kind, id, NextVersion(docs[id]))
<1>1. docs[id].version \in Nat
  BY DEF LatestInv, SeenInv, HistoryInv
<1>2. ASSUME <<kind, id>> \notin re, NEW e \in ever, e[1] = kind, e[2] = id
      PROVE  e[3].version < NextVersion(docs[id])
  <2>1. e[3].version \in Nat /\ e[3].version <= docs[id].version
    BY <1>2 DEF HistoryInv, LatestInv
  <2> QED
    BY <1>1, <2>1 DEF NextVersion
<1> QED
  BY <1>1, <1>2 DEF NextVersion, Above

\* A first version is above every version of its id, or the id is created anew.
LEMMA FirstIsNew ==
    ASSUME NEW kind, NEW id, NEW n,
           reused' = IF Reuses(kind, id) THEN reused \cup {<<kind, id>>} ELSE reused
    PROVE  reused \subseteq reused' /\ Above(everStored, reused', kind, id, n)
BY DEF Reuses, Above

\* What was seen stays so.
LEMMA HistoryGrows ==
    ASSUME NEW ever, NEW more, ever \subseteq more
    PROVE  \A kind, docs : SeenInv(kind, docs, ever) => SeenInv(kind, docs, more)
BY DEF SeenInv

-----------------------------------------------------------------------------
(* The invariant                                                           *)

LEMMA ProfileInvInit == ProfileInit => ProfileInv
<1> SUFFICES ASSUME ProfileInit PROVE ProfileInv
  OBVIOUS
<1>1. /\ DOMAIN profiles = {} /\ DOMAIN ruleSets = {} /\ everStored = {}
      /\ DOMAIN lists = Windows /\ DOMAIN previews = Windows
      /\ \A w \in Windows : /\ DOMAIN lists[w].profiles = {} /\ DOMAIN lists[w].ruleSets = {}
                            /\ previews[w] = Nothing
  BY DEF ProfileInit
<1>2. HistoryInv(everStored, reused) /\ WindowsInv
  BY <1>1 DEF HistoryInv, WindowsInv, SeenInv, PreviewInv
<1>3. LatestInv("profile", profiles, everStored, reused) /\ LatestInv("rules", ruleSets, everStored, reused)
  BY <1>1 DEF LatestInv, SeenInv
<1>4. ActiveResolves /\ NoLostEdit /\ SnapshotAsSelected /\ AppliedAsPreviewed
  BY DEF ProfileInit, ActiveResolves, Exists, NoLostEdit, SnapshotAsSelected, AppliedAsPreviewed
<1> QED
  BY <1>1, <1>2, <1>3, <1>4 DEF ProfileInv

\* The windows keep what they saw when a document is stored or deleted.
LEMMA WindowsKept ==
    ASSUME WindowsInv, UNCHANGED <<lists, previews>>, everStored \subseteq everStored'
    PROVE  WindowsInv'
BY HistoryGrows DEF WindowsInv

LEMMA CreateProfileStep ==
    ASSUME ProfileInv, NEW id \in ProfileIds, NEW d \in Drafts, CreateProfile(id, d)
    PROVE  ProfileInv'
<1>1. PICK p : p = ProfileFrom(d, 1)
  OBVIOUS
<1>2. /\ AcceptedProfile(p) /\ profiles' = With(profiles, id, p)
      /\ everStored' = everStored \cup {<<"profile", id, p>>}
      /\ lastEdit'.was = Nothing /\ lastEdit'.saw = Nothing
      /\ reused' = IF Reuses("profile", id) THEN reused \cup {<<"profile", id>>} ELSE reused
      /\ UNCHANGED <<ruleSets, active, lists, previews, snapshot, selected, applied>>
  BY <1>1 DEF CreateProfile, Created, Edited, Stored
<1>3. p.version \in Nat /\ ModelFits(p)
  BY <1>1, <1>2, ProfileConstants DEF ProfileFrom, AcceptedProfile, ModelFits
<1>4. reused \subseteq reused' /\ Above(everStored, reused', "profile", id, p.version)
  BY <1>2, FirstIsNew
<1>5. HistoryInv(everStored', reused') /\ LatestInv("profile", profiles', everStored', reused')
  BY <1>2, <1>3, <1>4, AddVersion, StoreVersion DEF ProfileInv
<1>6. LatestInv("rules", ruleSets', everStored', reused')
  BY <1>2, <1>4, OtherKindKept DEF ProfileInv
<1>7. WindowsInv'
  BY <1>2, WindowsKept DEF ProfileInv
<1>8. \A i \in DOMAIN profiles' : ModelFits(profiles'[i])
  BY <1>2, <1>3 DEF ProfileInv, With
<1>9. (ActiveResolves /\ NoLostEdit /\ SnapshotAsSelected /\ AppliedAsPreviewed)'
  BY <1>2, <1>4 DEF ProfileInv, ActiveResolves, Exists, NoLostEdit, SnapshotAsSelected,
              AppliedAsPreviewed, With
<1> QED
  BY <1>5, <1>6, <1>7, <1>8, <1>9 DEF ProfileInv

LEMMA UpdateProfileStep ==
    ASSUME ProfileInv, NEW w \in Windows, NEW id \in ProfileIds, NEW d \in Drafts,
           UpdateProfile(w, id, d)
    PROVE  ProfileInv'
<1>1. PICK p : p = ProfileFrom(d, NextVersion(profiles[id]))
  OBVIOUS
<1>2. /\ Unchanged(profiles, lists[w].profiles, id) /\ AcceptedProfile(p)
      /\ profiles' = With(profiles, id, p)
      /\ everStored' = everStored \cup {<<"profile", id, p>>}
      /\ lastEdit' = [doc |-> <<"profile", id>>, was |-> profiles[id], saw |-> lists[w].profiles[id]]
      /\ UNCHANGED <<reused, ruleSets, active, lists, previews, snapshot, selected, applied>>
  BY <1>1 DEF UpdateProfile, Edited, Stored
<1>3. id \in DOMAIN profiles /\ p.version = NextVersion(profiles[id]) /\ ModelFits(p)
  BY <1>1, <1>2, ProfileConstants DEF ProfileFrom, AcceptedProfile, ModelFits, Unchanged
<1>4. p.version \in Nat /\ Above(everStored, reused', "profile", id, p.version)
  BY <1>2, <1>3, NextIsNew DEF ProfileInv
<1>5. HistoryInv(everStored', reused') /\ LatestInv("profile", profiles', everStored', reused')
  BY <1>2, <1>4, AddVersion, StoreVersion DEF ProfileInv
<1>6. LatestInv("rules", ruleSets', everStored', reused')
  BY <1>2, OtherKindKept DEF ProfileInv
<1>7. WindowsInv'
  BY <1>2, WindowsKept DEF ProfileInv
<1>8. \A i \in DOMAIN profiles' : ModelFits(profiles'[i])
  BY <1>2, <1>3 DEF ProfileInv, With
<1>9. profiles[id] = lists[w].profiles[id] \/ <<"profile", id>> \in reused
  BY <1>2, SeenIsStored DEF ProfileInv, WindowsInv
<1>10. (ActiveResolves /\ NoLostEdit /\ SnapshotAsSelected /\ AppliedAsPreviewed)'
  BY <1>2, <1>9 DEF ProfileInv, ActiveResolves, Exists, NoLostEdit, SnapshotAsSelected,
              AppliedAsPreviewed, With
<1> QED
  BY <1>5, <1>6, <1>7, <1>8, <1>10 DEF ProfileInv

\* A deletion leaves the other documents.
LEMMA DeletionKept ==
    ASSUME NEW ever, NEW re, NEW kind, NEW docs, NEW id, LatestInv(kind, docs, ever, re)
    PROVE  LatestInv(kind, Without(docs, id), ever, re)
<1>1. DOMAIN Without(docs, id) \subseteq DOMAIN docs
      /\ \A x \in DOMAIN Without(docs, id) : Without(docs, id)[x] = docs[x]
  BY DEF Without
<1> QED
  BY <1>1 DEF LatestInv, SeenInv

LEMMA DeleteProfileStep ==
    ASSUME ProfileInv, NEW w \in Windows, NEW id \in ProfileIds, DeleteProfile(w, id)
    PROVE  ProfileInv'
<1>1. /\ Unchanged(profiles, lists[w].profiles, id)
      /\ profiles' = Without(profiles, id)
      /\ active' = IF active = id THEN BuiltIn ELSE active
      /\ lastEdit' = [doc |-> <<"profile", id>>, was |-> profiles[id], saw |-> lists[w].profiles[id]]
      /\ UNCHANGED <<everStored, reused, ruleSets, lists, previews, snapshot, selected, applied>>
  BY DEF DeleteProfile, Edited
<1>2. /\ HistoryInv(everStored', reused') /\ LatestInv("profile", profiles', everStored', reused')
      /\ LatestInv("rules", ruleSets', everStored', reused')
  BY <1>1, DeletionKept DEF ProfileInv
<1>3. WindowsInv'
  BY <1>1, WindowsKept DEF ProfileInv
<1>4. \A i \in DOMAIN profiles' : ModelFits(profiles'[i])
  BY <1>1 DEF ProfileInv, Without
<1>5. profiles[id] = lists[w].profiles[id] \/ <<"profile", id>> \in reused
  BY <1>1, SeenIsStored DEF ProfileInv, WindowsInv
<1>6. (ActiveResolves /\ NoLostEdit /\ SnapshotAsSelected /\ AppliedAsPreviewed)'
  BY <1>1, <1>5 DEF ProfileInv, ActiveResolves, Exists, NoLostEdit, SnapshotAsSelected,
              AppliedAsPreviewed, Without
<1> QED
  BY <1>2, <1>3, <1>4, <1>6 DEF ProfileInv

LEMMA CreateRulesStep ==
    ASSUME ProfileInv, NEW id \in RuleIds, NEW b \in RuleBodies, CreateRules(id, b)
    PROVE  ProfileInv'
<1>1. PICK r : r = [version |-> 1, body |-> b]
  OBVIOUS
<1>2. /\ ruleSets' = With(ruleSets, id, r)
      /\ everStored' = everStored \cup {<<"rules", id, r>>}
      /\ lastEdit'.was = Nothing /\ lastEdit'.saw = Nothing
      /\ reused' = IF Reuses("rules", id) THEN reused \cup {<<"rules", id>>} ELSE reused
      /\ UNCHANGED <<profiles, active, lists, previews, snapshot, selected, applied>>
  BY <1>1 DEF CreateRules, Created, Edited, Stored
<1>3. r.version \in Nat /\ reused \subseteq reused' /\ Above(everStored, reused', "rules", id, r.version)
  BY <1>1, <1>2, FirstIsNew
<1>4. HistoryInv(everStored', reused') /\ LatestInv("rules", ruleSets', everStored', reused')
  BY <1>2, <1>3, AddVersion, StoreVersion DEF ProfileInv
<1>5. LatestInv("profile", profiles', everStored', reused')
  BY <1>2, <1>3, OtherKindKept DEF ProfileInv
<1>6. WindowsInv'
  BY <1>2, WindowsKept DEF ProfileInv
<1>7. (ActiveResolves /\ NoLostEdit /\ SnapshotAsSelected /\ AppliedAsPreviewed)'
  BY <1>2, <1>3 DEF ProfileInv, ActiveResolves, Exists, NoLostEdit, SnapshotAsSelected,
              AppliedAsPreviewed
<1> QED
  BY <1>2, <1>4, <1>5, <1>6, <1>7 DEF ProfileInv

LEMMA UpdateRulesStep ==
    ASSUME ProfileInv, NEW w \in Windows, NEW id \in RuleIds, NEW b \in RuleBodies,
           UpdateRules(w, id, b)
    PROVE  ProfileInv'
<1>1. PICK r : r = [version |-> NextVersion(ruleSets[id]), body |-> b]
  OBVIOUS
<1>2. /\ Unchanged(ruleSets, lists[w].ruleSets, id)
      /\ ruleSets' = With(ruleSets, id, r)
      /\ everStored' = everStored \cup {<<"rules", id, r>>}
      /\ lastEdit' = [doc |-> <<"rules", id>>, was |-> ruleSets[id], saw |-> lists[w].ruleSets[id]]
      /\ UNCHANGED <<reused, profiles, active, lists, previews, snapshot, selected, applied>>
  BY <1>1 DEF UpdateRules, Edited, Stored
<1>3. id \in DOMAIN ruleSets /\ r.version = NextVersion(ruleSets[id])
  BY <1>1, <1>2 DEF Unchanged
<1>4. r.version \in Nat /\ Above(everStored, reused', "rules", id, r.version)
  BY <1>2, <1>3, NextIsNew DEF ProfileInv
<1>5. HistoryInv(everStored', reused') /\ LatestInv("rules", ruleSets', everStored', reused')
  BY <1>2, <1>4, AddVersion, StoreVersion DEF ProfileInv
<1>6. LatestInv("profile", profiles', everStored', reused')
  BY <1>2, OtherKindKept DEF ProfileInv
<1>7. WindowsInv'
  BY <1>2, WindowsKept DEF ProfileInv
<1>8. ruleSets[id] = lists[w].ruleSets[id] \/ <<"rules", id>> \in reused
  BY <1>2, SeenIsStored DEF ProfileInv, WindowsInv
<1>9. (ActiveResolves /\ NoLostEdit /\ SnapshotAsSelected /\ AppliedAsPreviewed)'
  BY <1>2, <1>8 DEF ProfileInv, ActiveResolves, Exists, NoLostEdit, SnapshotAsSelected,
              AppliedAsPreviewed
<1> QED
  BY <1>2, <1>5, <1>6, <1>7, <1>9 DEF ProfileInv

LEMMA DeleteRulesStep ==
    ASSUME ProfileInv, NEW w \in Windows, NEW id \in RuleIds, DeleteRules(w, id)
    PROVE  ProfileInv'
<1>1. /\ Unchanged(ruleSets, lists[w].ruleSets, id)
      /\ ruleSets' = Without(ruleSets, id)
      /\ lastEdit' = [doc |-> <<"rules", id>>, was |-> ruleSets[id], saw |-> lists[w].ruleSets[id]]
      /\ UNCHANGED <<everStored, reused, profiles, active, lists, previews, snapshot, selected, applied>>
  BY DEF DeleteRules, Edited
<1>2. /\ HistoryInv(everStored', reused') /\ LatestInv("profile", profiles', everStored', reused')
      /\ LatestInv("rules", ruleSets', everStored', reused')
  BY <1>1, DeletionKept DEF ProfileInv
<1>3. WindowsInv'
  BY <1>1, WindowsKept DEF ProfileInv
<1>4. ruleSets[id] = lists[w].ruleSets[id] \/ <<"rules", id>> \in reused
  BY <1>1, SeenIsStored DEF ProfileInv, WindowsInv
<1>5. (ActiveResolves /\ NoLostEdit /\ SnapshotAsSelected /\ AppliedAsPreviewed)'
  BY <1>1, <1>4 DEF ProfileInv, ActiveResolves, Exists, NoLostEdit, SnapshotAsSelected,
              AppliedAsPreviewed
<1> QED
  BY <1>1, <1>2, <1>3, <1>5 DEF ProfileInv

\* The steps that store nothing.
Reading == UNCHANGED <<profiles, ruleSets, lastEdit, everStored, reused>>

LEMMA ReadingKept ==
    ASSUME ProfileInv, Reading
    PROVE  /\ HistoryInv(everStored', reused')
           /\ LatestInv("profile", profiles', everStored', reused')
           /\ LatestInv("rules", ruleSets', everStored', reused')
           /\ \A id \in DOMAIN profiles' : ModelFits(profiles'[id])
           /\ NoLostEdit'
BY DEF ProfileInv, Reading, NoLostEdit

LEMMA ListStep ==
    ASSUME ProfileInv, NEW w \in Windows, List(w)
    PROVE  ProfileInv'
<1>1. Reading
  BY DEF List, Reading
<1>2. WindowsInv'
  BY DEF List, ProfileInv, WindowsInv, LatestInv
<1>3. (ActiveResolves /\ SnapshotAsSelected /\ AppliedAsPreviewed)'
  BY DEF List, ProfileInv, ActiveResolves, Exists, SnapshotAsSelected, AppliedAsPreviewed
<1> QED
  BY <1>1, <1>2, <1>3, ReadingKept DEF ProfileInv

LEMMA PreviewStep ==
    ASSUME ProfileInv, NEW w \in Windows, NEW id \in RuleIds, Preview(w, id)
    PROVE  ProfileInv'
<1>1. Reading
  BY DEF Preview, Reading
<1>2. PICK v : /\ v = [set |-> id, token |-> Token(id, ruleSets[id]), shown |-> ruleSets[id].body]
               /\ previews' = [previews EXCEPT ![w] = v]
  BY DEF Preview
<1>3. PreviewInv(v)
  BY <1>2 DEF PreviewInv, Token
<1>4. WindowsInv'
  BY <1>2, <1>3 DEF Preview, ProfileInv, WindowsInv
<1>5. (ActiveResolves /\ SnapshotAsSelected /\ AppliedAsPreviewed)'
  BY DEF Preview, ProfileInv, ActiveResolves, Exists, SnapshotAsSelected, AppliedAsPreviewed
<1> QED
  BY <1>1, <1>4, <1>5, ReadingKept DEF ProfileInv

LEMMA ApplyStep ==
    ASSUME ProfileInv, NEW w \in Windows, NEW approved \in BOOLEAN, Apply(w, approved)
    PROVE  ProfileInv'
<1>1. Reading
  BY DEF Apply, Reading
<1>2. PICK v : v = previews[w]
  OBVIOUS
<1>3. /\ v # Nothing /\ v.set \in DOMAIN ruleSets /\ Token(v.set, ruleSets[v.set]) = v.token
      /\ ruleSets[v.set].body.protected => approved
      /\ applied' = [text |-> Output(ruleSets[v.set].body), shown |-> Output(v.shown),
                     reviewed |-> v.shown.protected => approved]
  BY <1>2 DEF Apply
<1>4. v.token.out = Output(v.shown) /\ v.token.protected = v.shown.protected
  BY <1>2, <1>3 DEF ProfileInv, WindowsInv, PreviewInv
<1>5. /\ Output(ruleSets[v.set].body) = Output(v.shown)
      /\ ruleSets[v.set].body.protected = v.shown.protected
  BY <1>3, <1>4 DEF Token
<1>9. AppliedAsPreviewed'
  BY <1>3, <1>5 DEF AppliedAsPreviewed
<1>10. (WindowsInv /\ ActiveResolves /\ SnapshotAsSelected)'
  BY DEF Apply, ProfileInv, WindowsInv, ActiveResolves, Exists, SnapshotAsSelected
<1> QED
  BY <1>1, <1>9, <1>10, ReadingKept DEF ProfileInv

LEMMA CaptureStep ==
    ASSUME ProfileInv,
           \/ \E w \in Windows, id \in ProfileIds, source \in {"mic", "system"} : StartSelected(w, id, source)
           \/ \E source \in {"mic", "system"} : StartActive(source)
    PROVE  ProfileInv'
<1>1. Reading /\ UNCHANGED <<active, lists, previews, applied>>
  BY DEF StartSelected, StartActive, Reading
<1>2. snapshot'.profile = selected'.doc \/ <<"profile", selected'.id>> \in reused
  <2>1. ASSUME NEW w \in Windows, NEW id \in ProfileIds, NEW source, StartSelected(w, id, source)
        PROVE  snapshot'.profile = selected'.doc \/ <<"profile", selected'.id>> \in reused
    <3>1. lists[w].profiles[id] = profiles[id] \/ <<"profile", id>> \in reused
      BY <2>1, SeenIsStored DEF StartSelected, ProfileInv, WindowsInv
    <3> QED
      BY <2>1, <3>1 DEF StartSelected, Snapshot
  <2>2. ASSUME NEW source, StartActive(source)
        PROVE  snapshot'.profile = selected'.doc
    BY <2>2 DEF StartActive, Snapshot
  <2> QED
    BY <2>1, <2>2
<1>3. (WindowsInv /\ ActiveResolves /\ SnapshotAsSelected /\ AppliedAsPreviewed)'
  BY <1>1, <1>2 DEF Reading, ProfileInv, WindowsInv, ActiveResolves, Exists, SnapshotAsSelected,
                    AppliedAsPreviewed
<1> QED
  BY <1>1, <1>3, ReadingKept DEF ProfileInv

LEMMA SelectStep ==
    ASSUME ProfileInv, UNCHANGED profileVars \/ \E id : SelectProfile(id)
    PROVE  ProfileInv'
<1>1. Reading /\ UNCHANGED <<lists, previews, snapshot, selected, applied>>
  BY DEF SelectProfile, profileVars, Reading
<1>2. ActiveResolves'
  BY DEF SelectProfile, profileVars, ProfileInv, ActiveResolves, Exists
<1>3. (WindowsInv /\ SnapshotAsSelected /\ AppliedAsPreviewed)'
  BY <1>1 DEF Reading, ProfileInv, WindowsInv, SnapshotAsSelected, AppliedAsPreviewed
<1> QED
  BY <1>1, <1>2, <1>3, ReadingKept DEF ProfileInv

LEMMA ProfileInvStep == ProfileInv /\ [ProfileNext]_profileVars => ProfileInv'
BY CreateProfileStep, UpdateProfileStep, DeleteProfileStep, CreateRulesStep, UpdateRulesStep,
   DeleteRulesStep, ListStep, PreviewStep, ApplyStep, CaptureStep, SelectStep
DEF ProfileNext

\* ProfilesSound for all windows, profiles, rule sets and edits: the active
\* profile exists, a stored profile is one a capture accepts, and a replacement
\* that is applied is the one that was previewed; and for an id that is not
\* created again after its deletion, a version names one content, no window
\* overwrites or deletes an edit it has not seen, and a capture uses the profile
\* that was shown (meeting_profiles.rs, replacement_rules.rs).
THEOREM ProfilesAreSound == ProfileSpec => []ProfilesSound
<1>1. ProfileInv => ProfilesSound
  BY ModelFitsSnapshot DEF ProfileInv, ProfilesSound, HistoryInv, VersionNamesContent,
                           StoredProfilesUsable
<1> QED
  BY <1>1, ProfileInvInit, ProfileInvStep, PTL DEF ProfileSpec

-----------------------------------------------------------------------------
(* The microphone and the quality tier                                     *)

\* The saved microphone is the row the user chose.
MicInv ==
    /\ preferred # Unset => preferred.print = chosen
    /\ MicrophoneAsChosen

\* A tier that passed was measured on the release the policy names, and fast
\* enough; a choice stands.
QualityInv ==
    /\ policy \in [tier : Tiers, explicit : BOOLEAN, state : {"not-run", "measured", "failed"},
                   passed : [MeasuredTiers -> BOOLEAN], release : [MeasuredTiers -> Nat]]
    /\ trusted \in [MeasuredTiers -> Nat] /\ granted \in Tiers
    /\ measured \in [MeasuredTiers -> [release : Nat, factor : Nat]]
    /\ \A t \in MeasuredTiers : policy.passed[t] =>
           measured[t].release = policy.release[t] /\ measured[t].factor <= Limit(t)
    /\ ChoiceKept /\ TierEarned

LEMMA MicInvInit == MicInit => MicInv
BY DEF MicInit, MicInv, MicrophoneAsChosen

\* The one device that matches has the saved fingerprint.
LEMMA OneMatch ==
    ASSUME Cardinality(Matching) = 1
    PROVE  devices[CHOOSE n \in Matching : TRUE] = preferred.print
<1>1. Matching # {}
  BY FS_EmptySet
<1>2. (CHOOSE n \in Matching : TRUE) \in Matching
  BY <1>1
<1> QED
  BY <1>2 DEF Matching

LEMMA OpenMicrophoneStep ==
    ASSUME MicInv, NEW kind, NEW request, OpenMicrophone(kind, request)
    PROVE  MicInv'
<1>1. preferred' = preferred /\ chosen' = chosen
  BY DEF OpenMicrophone
<1>2. opened' = [got |-> SelectedDevice(request),
                 asked |-> IF request = "default" THEN "default" ELSE chosen, kind |-> kind]
  BY DEF OpenMicrophone
<1>3. CASE Selection(request) = "default"
  BY <1>1, <1>2, <1>3 DEF MicInv, MicrophoneAsChosen, SelectedDevice, DefaultDevice
<1>4. CASE Selection(request) # "default" /\ Cardinality(Matching) = 1
  <2>1. request # "default" /\ preferred # Unset
    BY <1>4 DEF Selection
  <2>2. SelectedDevice(request).device = chosen
    BY <1>4, <2>1, OneMatch DEF SelectedDevice, MicInv
  <2> QED
    BY <1>1, <1>2, <2>1, <2>2 DEF MicInv, MicrophoneAsChosen
<1>5. CASE Selection(request) # "default" /\ Cardinality(Matching) # 1
  BY <1>1, <1>2, <1>5 DEF MicInv, MicrophoneAsChosen, SelectedDevice, DefaultDevice
<1> QED
  BY <1>3, <1>4, <1>5

LEMMA MicInvStep == MicInv /\ [MicNext]_micVars => MicInv'
<1> SUFFICES ASSUME MicInv, [MicNext]_micVars PROVE MicInv'
  OBVIOUS
<1>1. CASE UNCHANGED micVars
  BY <1>1 DEF micVars, MicInv, MicrophoneAsChosen
<1>2. ASSUME NEW items, AcknowledgeItems(items) PROVE MicInv'
  BY <1>2 DEF AcknowledgeItems, MicInv, MicrophoneAsChosen
<1>3. ASSUME NEW list, PlugDevices(list) PROVE MicInv'
  BY <1>3 DEF PlugDevices, MicInv, MicrophoneAsChosen
<1>4. CASE ListDevices \/ PreferDefault
  BY <1>4 DEF ListDevices, PreferDefault, MicInv, MicrophoneAsChosen
<1>5. ASSUME NEW n, SavePreferred(n) PROVE MicInv'
  BY <1>5 DEF SavePreferred, MicInv, MicrophoneAsChosen
<1> QED
  BY <1>1, <1>2, <1>3, <1>4, <1>5, OpenMicrophoneStep DEF MicNext

LEMMA PageAlwaysAgrees == PageAgrees
BY DEF PageAgrees, SelectedDevice, ShownResolution, Selection, DefaultDevice

LEMMA QualityInvInit == QualityInit => QualityInv
BY DEF QualityInit, QualityInv, ChoiceKept, TierEarned, Unmeasured, Tiers

LEMMA ChooseTierStep ==
    ASSUME QualityInv, NEW tier \in Tiers, ChooseTier(tier)
    PROVE  QualityInv'
<1>1. PICK use \in Tiers : /\ policy' = [policy EXCEPT !.tier = use, !.explicit = TRUE]
                           /\ granted' = use
  BY DEF ChooseTier, Recommended, Tiers
<1> QED
  BY <1>1 DEF ChooseTier, QualityInv, ChoiceKept, TierEarned

LEMMA RecordBenchmarkStep ==
    ASSUME QualityInv, NEW tier \in MeasuredTiers, NEW factor \in Factors,
           RecordBenchmark(tier, factor)
    PROVE  QualityInv'
<1>1. factor \in Nat
  BY PreferenceConstants
<1>2. (factor <= Limit(tier)) \in BOOLEAN
  BY <1>1 DEF Limit
<1>3. PICK fast, p :
        /\ fast \in BOOLEAN /\ (fast <=> factor <= Limit(tier))
        /\ p = [policy EXCEPT !.passed[tier] = fast, !.release[tier] = trusted[tier], !.state = "measured"]
        /\ policy' = [p EXCEPT !.tier = IF factor <= Limit(tier) /\ ~p.explicit
                                        THEN Recommended(p) ELSE @]
  <2>1. PICK p : /\ p = [policy EXCEPT !.passed[tier] = factor <= Limit(tier),
                                       !.release[tier] = trusted[tier], !.state = "measured"]
                 /\ policy' = [p EXCEPT !.tier = IF factor <= Limit(tier) /\ ~p.explicit
                                                 THEN Recommended(p) ELSE @]
    BY Zenon DEF RecordBenchmark
  <2>2. PICK fast : fast = (factor <= Limit(tier))
    BY Zenon
  <2>3. p = [policy EXCEPT !.passed[tier] = fast, !.release[tier] = trusted[tier], !.state = "measured"]
    BY <2>1, <2>2, Zenon
  <2>5. fast \in BOOLEAN /\ (fast <=> factor <= Limit(tier))
    BY <1>2, <2>2, Zenon
  <2> QED
    BY <2>1, <2>3, <2>5, Zenon
<1>4. /\ p \in [tier : Tiers, explicit : BOOLEAN, state : {"not-run", "measured", "failed"},
                passed : [MeasuredTiers -> BOOLEAN], release : [MeasuredTiers -> Nat]]
      /\ p.passed = [policy.passed EXCEPT ![tier] = fast]
      /\ p.release = [policy.release EXCEPT ![tier] = trusted[tier]]
      /\ p.explicit = policy.explicit /\ p.tier = policy.tier
  BY <1>3 DEF QualityInv
<1>5. PICK use \in Tiers : policy' = [p EXCEPT !.tier = use] /\ (p.explicit => use = p.tier)
  BY <1>3, <1>4 DEF Recommended, Tiers
<1>6. /\ policy' \in [tier : Tiers, explicit : BOOLEAN, state : {"not-run", "measured", "failed"},
                      passed : [MeasuredTiers -> BOOLEAN], release : [MeasuredTiers -> Nat]]
      /\ policy'.passed = p.passed /\ policy'.release = p.release
      /\ policy'.explicit = p.explicit /\ (policy.explicit => policy'.tier = policy.tier)
  BY <1>4, <1>5
<1>7. measured' = [measured EXCEPT ![tier] = [release |-> trusted[tier], factor |-> factor]]
  BY DEF RecordBenchmark
<1> QED
  BY <1>1, <1>3, <1>4, <1>6, <1>7 DEF RecordBenchmark, QualityInv, ChoiceKept, TierEarned

\* What the policy decides for was measured.
LEMMA TranscribeStep ==
    ASSUME QualityInv, NEW named, NEW bound, Transcribe(named, bound)
    PROVE  QualityInv'
<1>1. UNCHANGED <<policy, trusted, measured, granted>>
  BY DEF Transcribe
<1>2. ASSUME ran'.by = "policy", ran'.tier # "fast"
      PROVE  /\ ran'.measured.release = ran'.on /\ ran'.measured.factor <= Limit(ran'.tier)
             /\ Memory >= NeededMemory(ran'.tier)
  <2>1. /\ ran'.tier = Resolved /\ Resolved # "fast"
        /\ ran'.on = trusted[Resolved] /\ ran'.measured = measured[Resolved]
    BY <1>2 DEF Transcribe
  <2>2. Resolved \in MeasuredTiers
    BY <2>1 DEF Resolved, Recommended, QualityInv, Tiers, MeasuredTiers
  <2>3. /\ Memory >= NeededMemory(Resolved) /\ policy.passed[Resolved]
        /\ policy.release[Resolved] = trusted[Resolved]
    BY <2>1 DEF Resolved, Recommended, Available, AvailableIn
  <2> QED
    BY <2>1, <2>2, <2>3 DEF QualityInv
<1> QED
  BY <1>1, <1>2 DEF QualityInv, ChoiceKept, TierEarned

LEMMA QualityInvStep == QualityInv /\ [QualityNext]_qualityVars => QualityInv'
<1> SUFFICES ASSUME QualityInv, [QualityNext]_qualityVars PROVE QualityInv'
  OBVIOUS
<1>1. CASE UNCHANGED qualityVars
  BY <1>1 DEF qualityVars, QualityInv, ChoiceKept, TierEarned
<1>2. CASE RecordBenchmarkFailure
  BY <1>2 DEF RecordBenchmarkFailure, QualityInv, ChoiceKept, TierEarned
<1>3. ASSUME NEW tier \in MeasuredTiers, UpgradeModel(tier) PROVE QualityInv'
  BY <1>3 DEF UpgradeModel, QualityInv, ChoiceKept, TierEarned
<1> QED
  BY <1>1, <1>2, <1>3, ChooseTierStep, RecordBenchmarkStep, TranscribeStep DEF QualityNext

\* ChoicesSound for every number of devices, plugs, benchmarks, releases and
\* factors: a microphone that is opened without asking for a new selection is
\* the default or the one whose row the user saved, the settings page says
\* what a capture would open, a transcription for which the quality policy
\* decided ran above the fast tier only when that tier was measured fast
\* enough with the model in use, and no benchmark replaces the tier the user chose (capture_service.rs,
\* transcription_quality.rs).
THEOREM ChoicesAreSound == PreferenceSpec => []ChoicesSound
<1>1. MicInit /\ QualityInit => MicInv /\ QualityInv
  BY MicInvInit, QualityInvInit
<1>2. MicInv /\ QualityInv /\ [PreferenceNext]_<<micVars, qualityVars>> => MicInv' /\ QualityInv'
  BY MicInvStep, QualityInvStep DEF PreferenceNext
<1>3. MicInv /\ QualityInv => ChoicesSound
  BY PageAlwaysAgrees DEF MicInv, QualityInv, ChoicesSound
<1> QED
  BY <1>1, <1>2, <1>3, PTL DEF PreferenceSpec
=============================================================================

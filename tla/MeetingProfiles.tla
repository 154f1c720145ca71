-------------------------- MODULE MeetingProfiles --------------------------
(***************************************************************************)
(* Meeting profiles (meeting_profiles.rs) and replacement rule sets        *)
(* (replacement_rules.rs) as several windows edit them: each works from    *)
(* the list it last fetched and sends the version it saw.  A capture takes *)
(* a snapshot of a profile.  A document is read, changed and replaced      *)
(* under its lock; SettingsFile shows the replacement.  A new document may *)
(* name any id that is not stored, one that was deleted too.               *)
(***************************************************************************)
EXTENDS Naturals, FiniteSets

CONSTANTS
    Windows,        \* the windows that edit
    ProfileIds, RuleIds,    \* the ids of custom documents
    BuiltIn,        \* the built-in profile that is active at first
    Drafts,         \* the profiles a user may enter
    RuleBodies,     \* the rules a user may enter: [form, out, protected]
    ProfileLimit, RuleSetLimit,
    MaxProfileEdits \* bound on changes

ASSUME ProfileConstants ==
    /\ BuiltIn \notin ProfileIds /\ {ProfileLimit, RuleSetLimit, MaxProfileEdits} \subseteq Nat
    /\ \A d \in Drafts : d.tier \in {"fast", "balanced", "maximum"}

VARIABLES
    profiles, ruleSets,     \* the stored documents, by id
    active,                 \* active_profile_id
    lists,                  \* what each window fetched last
    previews,               \* the preview each window shows
    snapshot, selected,     \* the profile of the last capture; the one asked for
    applied,                \* the last applied replacement
    lastEdit,               \* the document an edit replaced, as stored and as seen
    everStored, reused,     \* every version ever stored; the ids created twice
    edits                   \* changes made

profileVars == <<profiles, ruleSets, active, lists, previews, snapshot, selected, applied,
                 lastEdit, everStored, reused, edits>>

Nothing == [version |-> 0]

---------------------------------------------------------------------------
(* A profile is [version, source, tier, language, speech, rules].          *)

Normalized(language) == IF language = "padded-en" THEN "en" ELSE language
IsEnglish(language) == language \in {"en", "en-GB"}

ModelFor(tier, language) ==
    CASE tier = "fast" -> IF IsEnglish(language) THEN "small.en" ELSE "small"
      [] tier = "balanced" -> "large-v3-turbo"
      [] tier = "maximum" -> "large-v3"

SpeechModels == {"small.en", "small", "large-v3-turbo", "large-v3", "parakeet"}

TierOf(model) ==
    CASE model = "large-v3" -> "maximum"
      [] model = "large-v3-turbo" -> "balanced"
      [] OTHER -> "fast"

\* The name, the dictionary ids and the template are in their allowed form.
WellFormed(d) == d.form = "good"

\* validate_profile_input: a chosen model fits the tier.
AcceptedDraft(d) ==
    /\ WellFormed(d)
    /\ d.speech # "unset" =>
        d.speech \in SpeechModels /\ d.speech \in {ModelFor(d.tier, d.language), "parakeet"}

\* The profile a draft becomes.
ProfileFrom(d, version) ==
    [version |-> version, source |-> d.source, tier |-> d.tier,
     language |-> Normalized(d.language), rules |-> d.rules,
     speech |-> IF d.speech = "unset" THEN ModelFor(d.tier, d.language) ELSE d.speech]

\* Mutant of AcceptedProfile: the model is not compared with the tier again.
AcceptedAnyModel(p) == p.version > 0 /\ p.speech \in SpeechModels

\* validate_profile, on the profile as it will be stored.
AcceptedProfile(p) ==
    p.version > 0 /\ p.speech \in {ModelFor(p.tier, p.language), "parakeet"}

\* MeetingProcessingProfileSnapshot::validate, which knows the tier only by
\* the model.
AcceptedSnapshot(p) == p.speech \in {ModelFor(TierOf(p.speech), p.language), "parakeet"}

General == [version |-> 1, source |-> "mic", tier |-> "balanced", language |-> "auto",
            rules |-> "none", speech |-> "large-v3-turbo"]
Resolve(id) == IF id = BuiltIn THEN General ELSE profiles[id]
Exists(id) == id = BuiltIn \/ id \in DOMAIN profiles

---------------------------------------------------------------------------
(* Editing.  A refused request changes nothing.                            *)

With(f, id, d) == [i \in DOMAIN f \cup {id} |-> IF i = id THEN d ELSE f[i]]
Without(f, id) == [i \in DOMAIN f \ {id} |-> f[i]]

\* An edit of a document that was stored so and that the window saw so.
Edited(kind, id, was, saw) ==
    /\ edits < MaxProfileEdits /\ edits' = edits + 1
    /\ lastEdit' = [doc |-> <<kind, id>>, was |-> was, saw |-> saw]

Stored(kind, id, doc) == everStored' = everStored \cup {<<kind, id, doc>>}

\* Whether a new document takes the id of a deleted one.
Reuses(kind, id) == \E e \in everStored : e[1] = kind /\ e[2] = id
Created(kind, id, doc) ==
    /\ Edited(kind, id, Nothing, Nothing) /\ Stored(kind, id, doc)
    /\ reused' = IF Reuses(kind, id) THEN reused \cup {<<kind, id>>} ELSE reused

List(w) ==
    /\ lists' = [lists EXCEPT ![w] = [profiles |-> profiles, ruleSets |-> ruleSets]]
    /\ UNCHANGED <<profiles, ruleSets, active, previews, snapshot, selected, applied, lastEdit,
                   everStored, reused, edits>>

CreateProfile(id, d) ==
    LET p == ProfileFrom(d, 1) IN
    /\ id \notin DOMAIN profiles /\ Cardinality(DOMAIN profiles) < ProfileLimit
    /\ AcceptedDraft(d) /\ AcceptedProfile(p)
    /\ profiles' = With(profiles, id, p)
    /\ Created("profile", id, p)
    /\ UNCHANGED <<ruleSets, active, lists, previews, snapshot, selected, applied>>

\* Mutant of NextVersion: an update keeps the version.
SameVersion(doc) == doc.version

NextVersion(doc) == doc.version + 1

\* Mutant of Unchanged: the version the window saw is not compared.
AnyVersion(f, seen, id) == id \in DOMAIN seen /\ id \in DOMAIN f

\* The version the window sent is the stored one.
Unchanged(f, seen, id) ==
    id \in DOMAIN seen /\ id \in DOMAIN f /\ seen[id].version = f[id].version

UpdateProfile(w, id, d) ==
    LET seen == lists[w].profiles IN
    /\ Unchanged(profiles, seen, id)
    /\ LET p == ProfileFrom(d, NextVersion(profiles[id])) IN
        /\ AcceptedDraft(d) /\ AcceptedProfile(p)
        /\ profiles' = With(profiles, id, p)
        /\ Edited("profile", id, profiles[id], seen[id]) /\ Stored("profile", id, p)
    /\ UNCHANGED <<reused, ruleSets, active, lists, previews, snapshot, selected, applied>>

\* Mutant of DeleteProfile: the active profile stays selected.
DeleteProfileOnly(w, id) ==
    LET seen == lists[w].profiles IN
    /\ Unchanged(profiles, seen, id)
    /\ profiles' = Without(profiles, id)
    /\ Edited("profile", id, profiles[id], seen[id])
    /\ UNCHANGED <<everStored, reused, ruleSets, active, lists, previews, snapshot, selected, applied>>

DeleteProfile(w, id) ==
    LET seen == lists[w].profiles IN
    /\ Unchanged(profiles, seen, id)
    /\ profiles' = Without(profiles, id)
    /\ active' = IF active = id THEN BuiltIn ELSE active
    /\ Edited("profile", id, profiles[id], seen[id])
    /\ UNCHANGED <<everStored, reused, ruleSets, lists, previews, snapshot, selected, applied>>

SelectProfile(id) ==
    /\ Exists(id) /\ active' = id
    /\ UNCHANGED <<profiles, ruleSets, lists, previews, snapshot, selected, applied, lastEdit,
                   everStored, reused, edits>>

\* validate_rules: no empty or repeated pattern, within the limits.
AcceptedRules(b) == b.form = "good"

CreateRules(id, b) ==
    LET r == [version |-> 1, body |-> b] IN
    /\ AcceptedRules(b) /\ id \notin DOMAIN ruleSets /\ Cardinality(DOMAIN ruleSets) < RuleSetLimit
    /\ ruleSets' = With(ruleSets, id, r)
    /\ Created("rules", id, r)
    /\ UNCHANGED <<profiles, active, lists, previews, snapshot, selected, applied>>

UpdateRules(w, id, b) ==
    LET seen == lists[w].ruleSets IN
    /\ AcceptedRules(b) /\ Unchanged(ruleSets, seen, id)
    /\ LET r == [version |-> NextVersion(ruleSets[id]), body |-> b] IN
        /\ ruleSets' = With(ruleSets, id, r)
        /\ Edited("rules", id, ruleSets[id], seen[id]) /\ Stored("rules", id, r)
    /\ UNCHANGED <<reused, profiles, active, lists, previews, snapshot, selected, applied>>

\* A rule set may be deleted while profiles refer to it.
DeleteRules(w, id) ==
    LET seen == lists[w].ruleSets IN
    /\ Unchanged(ruleSets, seen, id)
    /\ ruleSets' = Without(ruleSets, id)
    /\ Edited("rules", id, ruleSets[id], seen[id])
    /\ UNCHANGED <<everStored, reused, profiles, active, lists, previews, snapshot, selected, applied>>

---------------------------------------------------------------------------
(* Captures and replacements.                                              *)

\* processing_snapshot_from_profile: the rules are copied into the snapshot.
Snapshot(p) ==
    [profile |-> p, rules |-> IF p.rules = "none" THEN Nothing ELSE ruleSets[p.rules]]
Snappable(p) == (p.rules = "none" \/ p.rules \in DOMAIN ruleSets) /\ AcceptedSnapshot(p)

\* Mutant of StartSelected: the version the window showed is not compared.
StartAnyVersion(w, id, source) ==
    /\ id \in DOMAIN lists[w].profiles /\ id \in DOMAIN profiles
    /\ profiles[id].source = source /\ Snappable(profiles[id])
    /\ snapshot' = Snapshot(profiles[id]) /\ selected' = [id |-> id, doc |-> lists[w].profiles[id]]
    /\ UNCHANGED <<profiles, ruleSets, active, lists, previews, applied, lastEdit, everStored, reused,
                   edits>>

\* A capture started from a window that shows the profile and its version.
StartSelected(w, id, source) ==
    /\ Unchanged(profiles, lists[w].profiles, id)
    /\ profiles[id].source = source /\ Snappable(profiles[id])
    /\ snapshot' = Snapshot(profiles[id]) /\ selected' = [id |-> id, doc |-> lists[w].profiles[id]]
    /\ UNCHANGED <<profiles, ruleSets, active, lists, previews, applied, lastEdit, everStored, reused,
                   edits>>

\* A capture without a choice uses the active profile.
StartActive(source) ==
    /\ Resolve(active).source = source /\ Snappable(Resolve(active))
    /\ snapshot' = Snapshot(Resolve(active)) /\ selected' = [id |-> active, doc |-> Resolve(active)]
    /\ UNCHANGED <<profiles, ruleSets, active, lists, previews, applied, lastEdit, everStored, reused,
                   edits>>

\* What the rules make of a text, and the token that binds a preview to it:
\* the rule set and its version, the result and the changes.
Output(body) == body.out

\* Mutant of Token: it names the rule set only.
TokenOfSet(id, r) == [set |-> id, version |-> 0, out |-> "any", protected |-> FALSE]

Token(id, r) ==
    [set |-> id, version |-> r.version, out |-> Output(r.body), protected |-> r.body.protected]

Preview(w, id) ==
    /\ id \in DOMAIN ruleSets
    /\ previews' = [previews EXCEPT ![w] =
                      [set |-> id, token |-> Token(id, ruleSets[id]), shown |-> ruleSets[id].body]]
    /\ UNCHANGED <<profiles, ruleSets, active, lists, snapshot, selected, applied, lastEdit,
                   everStored, reused, edits>>

\* apply computes the preview again and compares the tokens.
Apply(w, approved) ==
    LET v == previews[w] IN
    /\ v # Nothing /\ v.set \in DOMAIN ruleSets
    /\ Token(v.set, ruleSets[v.set]) = v.token
    /\ ruleSets[v.set].body.protected => approved
    /\ applied' = [text |-> Output(ruleSets[v.set].body), shown |-> Output(v.shown),
                   reviewed |-> v.shown.protected => approved]
    /\ UNCHANGED <<profiles, ruleSets, active, lists, previews, snapshot, selected, lastEdit,
                   everStored, reused, edits>>

---------------------------------------------------------------------------
ProfileInit ==
    /\ profiles = [i \in {} |-> Nothing] /\ ruleSets = [i \in {} |-> Nothing]
    /\ active = BuiltIn
    /\ lists = [w \in Windows |-> [profiles |-> profiles, ruleSets |-> ruleSets]]
    /\ previews = [w \in Windows |-> Nothing]
    /\ snapshot = Nothing /\ selected = Nothing
    /\ applied = [text |-> "", shown |-> "", reviewed |-> TRUE]
    /\ lastEdit = [doc |-> <<"none", BuiltIn>>, was |-> Nothing, saw |-> Nothing]
    /\ everStored = {} /\ reused = {} /\ edits = 0

ProfileNext ==
    \/ \E w \in Windows :
        \/ List(w)
        \/ \E id \in ProfileIds :
            \/ \E d \in Drafts : UpdateProfile(w, id, d)
            \/ DeleteProfile(w, id)
            \/ \E source \in {"mic", "system"} : StartSelected(w, id, source)
        \/ \E id \in RuleIds :
            \/ \E b \in RuleBodies : UpdateRules(w, id, b)
            \/ DeleteRules(w, id) \/ Preview(w, id)
        \/ \E approved \in BOOLEAN : Apply(w, approved)
    \/ \E id \in ProfileIds, d \in Drafts : CreateProfile(id, d)
    \/ \E id \in RuleIds, b \in RuleBodies : CreateRules(id, b)
    \/ \E id \in ProfileIds \cup {BuiltIn} : SelectProfile(id)
    \/ \E source \in {"mic", "system"} : StartActive(source)

ProfileSpec == ProfileInit /\ [][ProfileNext]_profileVars

---------------------------------------------------------------------------
(* Properties.                                                             *)

\* The active profile can always be resolved, whatever was deleted by
\* whichever window.
ActiveResolves == Exists(active)

\* A version of a document names one content for ever: a recording that
\* notes a profile id and version can be explained later.  That ends with the
\* id: a document that is created under the id of a deleted one begins again
\* at version 1.
VersionNamesContent ==
    \A e, f \in everStored :
        /\ e[1] = f[1] /\ e[2] = f[2] /\ e[3].version = f[3].version
        /\ <<e[1], e[2]>> \notin reused
        => e = f

\* No window overwrites or deletes an edit it has not seen, unless the id was
\* created anew behind it.
NoLostEdit == lastEdit.was = lastEdit.saw \/ lastEdit.doc \in reused

\* A profile the editor accepted is one a capture accepts: the two
\* validations of its speech model agree although one knows the tier and
\* the other only the model.
StoredProfilesUsable == \A id \in DOMAIN profiles : AcceptedSnapshot(profiles[id])

\* A capture uses the profile the window showed when it was started, with
\* the same exception.
SnapshotAsSelected ==
    snapshot # Nothing => snapshot.profile = selected.doc \/ <<"profile", selected.id>> \in reused

\* A replacement that is applied is the one that was previewed, and a
\* protected term is changed only after approval of what was shown.
AppliedAsPreviewed == applied.text = applied.shown /\ applied.reviewed

\* The promise to windows that edit, preview and select at the same time: no
\* edit is lost, a version names one content as long as its id is not created
\* anew, the active profile exists and can be used, and what is used is what
\* was selected or previewed.
ProfilesSound ==
    /\ ActiveResolves /\ VersionNamesContent /\ NoLostEdit
    /\ StoredProfilesUsable /\ SnapshotAsSelected /\ AppliedAsPreviewed
=============================================================================

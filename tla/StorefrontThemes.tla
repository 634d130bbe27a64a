-------------------------- MODULE StorefrontThemes --------------------------
(***************************************************************************)
(* The storefront's theme: drafts, publication and rollback                *)
(* (src/src/domain/storefront-themes.ts), used from settings pages that    *)
(* show what they last loaded                                              *)
(* (src/src/app/admin/settings/storefront-theme-manager.tsx).              *)
(*                                                                         *)
(* A version is its place in the list of versions.  Each operation is one  *)
(* transaction; the page's answer is a separate read after it, and may be  *)
(* lost, which leaves the page as it was.  The page shows the twelve       *)
(* latest versions: MaxVersions stays below that.                          *)
(***************************************************************************)
EXTENDS Naturals, Sequences

CONSTANTS
  Theme, DefaultTheme, \* STOREFRONT_THEME_KEYS and the shop's default
  Designer,            \* members of staff with a settings page open
  MaxVersions          \* bound: versions ever made

ASSUME ThemeConstants == DefaultTheme \in Theme /\ MaxVersions \in Nat

VARIABLES
  versions,   \* the sequence of versions: theme and status of each
  liveTheme,  \* shops.storefrontTheme, what customers see
  themePage,  \* themePage[s]: the page of s
  resaved     \* history: pages whose draft was saved again after they loaded

themeVars == <<versions, liveTheme, themePage, resaved>>

VersionStatus == {"DRAFT", "PUBLISHED", "SUPERSEDED", "DISCARDED"}
Version(theme, status) == [theme |-> theme, status |-> status]

VersionsIn(status) == {v \in DOMAIN versions : versions[v].status = status}
Marked(list, from, to) ==
  [v \in DOMAIN list |-> IF list[v].status = from
                         THEN [list[v] EXCEPT !.status = to] ELSE list[v]]

NoDraft == 0
LatestDraft ==
  CHOOSE d \in VersionsIn("DRAFT") : \A e \in VersionsIn("DRAFT") : e <= d

\* What a page shows: its draft and the draft's theme, and how many versions
\* it has seen; busy from a request to its answer.
Page(draft, theme, seen, busy) ==
  [draft |-> draft, theme |-> theme, seen |-> seen, busy |-> busy]

\* getStorefrontThemeState: the live theme, the draft and the versions.
ThemeState ==
  IF VersionsIn("DRAFT") = {} THEN Page(NoDraft, liveTheme, Len(versions), FALSE)
  ELSE Page(LatestDraft, versions[LatestDraft].theme, Len(versions), FALSE)

ThemesInit ==
  /\ versions = << >>
  /\ liveTheme = DefaultTheme
  /\ themePage = [s \in Designer |-> Page(NoDraft, DefaultTheme, 0, FALSE)]
  /\ resaved = {}

Requests(s) == themePage' = [themePage EXCEPT ![s].busy = TRUE]

\* load() when the page opens, and the read that answers a request.
ShowThemes(s) ==
  /\ themePage' = [themePage EXCEPT ![s] = ThemeState]
  /\ resaved' = resaved \ {s}
  /\ UNCHANGED <<versions, liveTheme>>

\* The answer does not arrive: an error message, the page as it was.
AnswerLost(s) ==
  /\ themePage[s].busy
  /\ themePage' = [themePage EXCEPT ![s].busy = FALSE]
  /\ UNCHANGED <<versions, liveTheme, resaved>>

\* Mutant of Saved: the latest version is overwritten whatever its status.
SavedOverLatest(t) ==
  IF versions = << >> THEN <<Version(t, "DRAFT")>>
  ELSE [versions EXCEPT ![Len(versions)].theme = t]

\* saveStorefrontThemeDraft: the draft changes in place, or one is started.
Saved(t) ==
  IF VersionsIn("DRAFT") = {} THEN Append(versions, Version(t, "DRAFT"))
  ELSE [versions EXCEPT ![LatestDraft].theme = t]

SaveDraft(s, t) ==
  /\ ~themePage[s].busy
  /\ VersionsIn("DRAFT") = {} => Len(versions) < MaxVersions
  /\ versions' = Saved(t)
  /\ Requests(s)
  /\ resaved' = resaved \cup {p \in Designer : themePage[p].draft \in VersionsIn("DRAFT")}
  /\ UNCHANGED liveTheme

Published(d) ==
  [Marked(versions, "PUBLISHED", "SUPERSEDED") EXCEPT ![d].status = "PUBLISHED"]

\* Mutant of PublishedDraft: whichever draft there is by now.
PublishedDraftLatest(s) == VersionsIn("DRAFT")

\* publishStorefrontThemeDraft: the draft the page names, if it still is one.
PublishedDraft(s) == {themePage[s].draft} \cap VersionsIn("DRAFT")

PublishDraft(s) ==
  /\ ~themePage[s].busy /\ themePage[s].draft # NoDraft
  /\ \E d \in PublishedDraft(s) :
       /\ versions' = Published(d)
       /\ liveTheme' = versions[d].theme
  /\ Requests(s)
  /\ UNCHANGED resaved

\* Mutant of LiveAfterRollback: the shop's row is forgotten.
LiveAfterRollbackKept(v) == liveTheme

LiveAfterRollback(v) == versions[v].theme

\* rollbackStorefrontTheme: a version the page knows, published by now (the
\* function asks for no more, though the page offers only what was published
\* when it loaded); the draft is discarded and a copy published.
RestoreVersion(s, v) ==
  /\ ~themePage[s].busy
  /\ v \in 1..themePage[s].seen /\ Len(versions) < MaxVersions
  /\ versions[v].status \in {"PUBLISHED", "SUPERSEDED"}
  /\ versions' = Append(Marked(Marked(versions, "DRAFT", "DISCARDED"),
                               "PUBLISHED", "SUPERSEDED"),
                        Version(versions[v].theme, "PUBLISHED"))
  /\ liveTheme' = LiveAfterRollback(v)
  /\ Requests(s)
  /\ UNCHANGED resaved

\* discardStorefrontThemeDraft: one conditional update.
DiscardDraft(s) ==
  /\ ~themePage[s].busy
  /\ themePage[s].draft \in VersionsIn("DRAFT")
  /\ versions' = [versions EXCEPT ![themePage[s].draft].status = "DISCARDED"]
  /\ Requests(s)
  /\ UNCHANGED <<liveTheme, resaved>>

ThemesNext ==
  \E s \in Designer :
    \/ ShowThemes(s) \/ AnswerLost(s)
    \/ \E t \in Theme : SaveDraft(s, t)
    \/ PublishDraft(s) \/ DiscardDraft(s)
    \/ \E v \in 1..MaxVersions : RestoreVersion(s, v)

ThemesSpec == ThemesInit /\ [][ThemesNext]_themeVars
-----------------------------------------------------------------------------
ThemesTypeOK ==
  /\ versions \in Seq([theme : Theme, status : VersionStatus])
  /\ Len(versions) <= MaxVersions
  /\ liveTheme \in Theme
  /\ themePage \in [Designer -> [draft : Nat, theme : Theme, seen : Nat, busy : BOOLEAN]]
  /\ resaved \subseteq Designer

\* What customers see is the theme of the one published version, or the
\* default while nothing was published: two pages that save, publish, roll
\* back and discard in any order never leave two drafts, two published
\* versions, or a shop row that no version accounts for.
LiveIsPublished ==
  /\ \A v, w \in DOMAIN versions :
       versions[v].status = versions[w].status
         /\ versions[v].status \in {"DRAFT", "PUBLISHED"} => v = w
  /\ \A v \in VersionsIn("PUBLISHED") : versions[v].theme = liveTheme
  /\ VersionsIn("PUBLISHED") = {} =>
       liveTheme = DefaultTheme /\ VersionsIn("SUPERSEDED") = {}

\* What was published stays as it was, so that a rollback restores what
\* customers saw: no later save, rollback or discard rewrites its theme or
\* takes it out of the list of versions that can be restored.
PublishedIsKept ==
  [][\A v \in DOMAIN versions : versions[v].status \in {"PUBLISHED", "SUPERSEDED"} =>
       /\ v \in DOMAIN versions'
       /\ versions'[v].theme = versions[v].theme
       /\ versions'[v].status \in {"PUBLISHED", "SUPERSEDED"}]_themeVars

\* A page publishes the theme it shows, unless its draft was saved again
\* after the page loaded it: the draft keeps its id then, and the code's
\* "Theme draft changed" does not notice.  (A request that changes which
\* version is published and makes no new one is publishDraft.)
PublishesWhatItShows ==
  [][\A s \in Designer :
       /\ ~themePage[s].busy /\ themePage'[s].busy
       /\ Len(versions') = Len(versions)
       /\ VersionsIn("PUBLISHED")' # VersionsIn("PUBLISHED")
       => liveTheme' = themePage[s].theme \/ s \in resaved]_themeVars
=============================================================================

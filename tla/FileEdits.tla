------------------------------ MODULE FileEdits ------------------------------
(* The Preview Tab's editor of a GUI window (ADR 0045): the text a person    *)
(* types, its saves, the questions about text that is about to be lost, and  *)
(* everything that moves the file or the Tab meanwhile: other Clients, other *)
(* programs, renames, lost connections and a Server with another Session.    *)
(*                                                                           *)
(* One connection and one Workspace, so at most one Preview Tab.  A file's   *)
(* content is a number, which is its version too; a file that cannot be read *)
(* or edited is Gone.  Line endings, the size limit, images and how the text *)
(* is drawn are left out.                                                    *)
EXTENDS Integers, Sequences, SequencesExt

CONSTANTS
    Paths,     \* files of the Workspace
    NoPath, NoTab, NoEditor, NoAnswer, Nothing,
    MaxIds     \* bound: requests at once; a number that is free is used again

ASSUME EditAssumption == MaxIds \in Nat \ {0}

VARIABLES
    disk,     \* the file system: the content of each path
    root,     \* the Session the Server runs, and so the Workspace's root
    tab,      \* the Session's Preview Tab: NoTab or its id and path
    tabs,     \* ids given to Preview Tabs in this Session
    threads,  \* mutations received and not answered, each on a thread
    news,     \* the watcher has a change to publish
    inbox,    \* messages on their way to the window
    gui,      \* the window and its connection
    left      \* bounds: how often each of these may still happen

editVars == <<disk, root, tab, tabs, threads, news, inbox, gui, left>>

Gone == 0   \* no content, and no version
Torn == 1   \* a file written halfway

(* What the person and the world may do.                                     *)
Budgets == {"types", "undos", "saves", "shows", "closes", "renames", "looks", "others",
            "touches", "failures", "losses", "restarts", "hands", "overflows"}
Spend(what) == left[what] > 0 /\ left' = [left EXCEPT ![what] = @ - 1]

(* The window: c stands for gui.                                             *)
Ids(c) ==
    {c.pending[p] : p \in Paths} \cup {s.id : s \in c.saves} \cup {r.id : r \in c.renames}
        \cup {m.id : m \in ToSet(c.out)} \cup (IF c.ed = NoEditor THEN {} ELSE {c.ed.saving})
(* ServerConnection::next_request_id, where numbers that are in nobody's     *)
(* hands come back.                                                          *)
NextId(c) ==
    CHOOSE n \in 1 .. MaxIds :
        /\ n \notin Ids(c) \cup {m.id : m \in ToSet(inbox)} \cup {m.id : m \in threads}
        /\ \A k \in 1 .. n - 1 :
              k \in Ids(c) \cup {m.id : m \in ToSet(inbox)} \cup {m.id : m \in threads}

EditorOf(c, id) == c.ed # NoEditor /\ c.ed.tab = id
NewEditor(c) ==
    [tab |-> c.tab.id, root |-> c.root, kind |-> "loading", path |-> NoPath, current |-> FALSE,
     text |-> Gone, base |-> Gone, version |-> Gone, dirty |-> FALSE, saving |-> 0,
     after |-> Nothing]

(* request_file: only the answer to the last request for a path lands.       *)
Requested(c, p) ==
    IF ~c.up THEN c
    ELSE [c EXCEPT !.pending[p] = NextId(c),
                   !.out = Append(@, [op |-> "read", id |-> NextId(c), path |-> p])]

(* send_write for a Tab's text or for text whose Tab is gone: only what is   *)
(* sent is waited for.                                                       *)
WriteSent(c, save, base) ==
    [c EXCEPT !.saves = @ \cup {save},
              !.out = Append(@, [op |-> "write", id |-> save.id, path |-> save.path,
                                 text |-> save.text, base |-> base, root |-> c.root])]

(* Broken: text whose save is on its way is not kept.                        *)
KeptUnlessSaving(c) ==
    IF c.ed = NoEditor \/ ~c.ed.dirty THEN c
    ELSE IF c.ed.path = NoPath \/ c.ed.saving # 0 THEN [c EXCEPT !.ed.dirty = FALSE]
    ELSE [c EXCEPT !.ed.dirty = FALSE,
                   !.prompts = Append(@, [kind |-> "unsaved", root |-> c.ed.root,
                                          path |-> c.ed.path, text |-> c.ed.text,
                                          version |-> c.ed.version, conflicted |-> FALSE])]
(* keep_unsaved: text its Tab loses is asked about.                          *)
KeptText(c) ==
    IF c.ed = NoEditor \/ ~c.ed.dirty THEN c
    ELSE IF c.ed.path = NoPath THEN [c EXCEPT !.ed.dirty = FALSE]
    ELSE [c EXCEPT !.ed.dirty = FALSE,
                   !.prompts = Append(@, [kind |-> "unsaved", root |-> c.ed.root,
                                          path |-> c.ed.path, text |-> c.ed.text,
                                          version |-> c.ed.version, conflicted |-> FALSE])]

(* What an agreed action does: show another file, or close the Tab.          *)
Performed(c, then) ==
    IF c.up THEN [c EXCEPT !.out = Append(@, then)] ELSE c

(* confirm_unsaved: the action goes on once its Tab holds no unsaved text.   *)
AskedFirst(c, id, then) ==
    IF EditorOf(c, id) /\ c.ed.dirty /\ c.ed.path # NoPath
    THEN [c EXCEPT !.dialogs = Append(@, [kind |-> "confirm", tab |-> id, path |-> c.ed.path,
                                          root |-> c.ed.root, can |-> c.up, then |-> then])]
    ELSE Performed(c, then)
GoneOn(c, after) == IF after = Nothing THEN c ELSE AskedFirst(c, after.tab, after.then)

(* write_file: one save at a time.                                           *)
SaveStarted(c, id, versioned, after) ==
    IF ~EditorOf(c, id) \/ c.ed.saving # 0 \/ c.ed.version = Gone \/ c.ed.path = NoPath THEN c
    ELSE IF versioned /\ ~c.ed.dirty THEN GoneOn(c, after)
    ELSE IF ~c.up THEN c
    ELSE LET n == NextId(c)
         IN  [WriteSent(c, [id |-> n, path |-> c.ed.path, text |-> c.ed.text, tab |-> id,
                             unsaved |-> Nothing],
                        IF versioned THEN c.ed.version ELSE Gone)
                  EXCEPT !.ed.saving = n, !.ed.after = after]

(* discard_file_edits: whatever the next answer holds is shown.              *)
EditsDiscarded(c, id) ==
    IF ~EditorOf(c, id) THEN c
    ELSE LET d == [c EXCEPT !.ed.dirty = FALSE]
         IN  IF d.ed.path = NoPath THEN d
             ELSE Requested([d EXCEPT !.ed.current = FALSE, !.ed.version = Gone], d.ed.path)

(* History: the person let the text go, or it reached its file.              *)
LetGo(c, text) == [c EXCEPT !.owed = @ \ {text}]
Landed(c, at, path, text) == [LetGo(c, text) EXCEPT !.seen = @ \cup {<<at, path, text>>}]
(* A choice acts on the editor as it is now.  History notes a choice that    *)
(* acts on another file than the one its question named.                     *)
Chosen(c, d, id) ==
    IF ~EditorOf(c, id) THEN c
    ELSE IF <<c.ed.root, c.ed.path>> = <<d.root, d.path>> THEN LetGo(c, c.ed.text)
    ELSE [c EXCEPT !.misapplied = @ \/ c.ed.dirty]

(* file_saved, for a Tab's text.                                             *)
TabSaved(c, save, result) ==
    IF ~EditorOf(c, save.tab) \/ c.ed.saving # save.id
    THEN IF result = "done" THEN Landed(c, c.root, save.path, save.text) ELSE c
    ELSE LET after == c.ed.after
             free  == [c EXCEPT !.ed.saving = 0, !.ed.after = Nothing]
         IN  CASE result = "done" ->
                    LET kept == [Landed(free, c.root, save.path, save.text) EXCEPT
                                     !.ed.version = save.text, !.ed.base = save.text,
                                     !.ed.dirty = c.ed.text # save.text,
                                     !.crossed = @ \/ c.ed.path # save.path]
                    IN  [Requested(kept, save.path) EXCEPT
                             !.later = IF after = Nothing THEN @ ELSE Append(@, after)]
               [] result = "conflict" ->
                    [free EXCEPT !.prompts =
                         Append(@, [kind |-> "conflict", tab |-> save.tab, after |-> after])]
               [] OTHER -> free
(* ... and for text whose Tab is gone: it comes back unless it was saved.    *)
PromptSaved(c, unsaved, result) ==
    IF result = "done" THEN Landed(c, c.root, unsaved.path, unsaved.text)
    ELSE [c EXCEPT !.prompts =
             Append(@, [unsaved EXCEPT !.conflicted = @ \/ result = "conflict"])]

(* entry_done: the text follows the file this window renamed.                *)
EditorMoved(c, from, to) ==
    IF c.ed # NoEditor /\ c.ed.path = from
    THEN [c EXCEPT !.ed.path = to, !.ed.current = FALSE,
                   !.seen = @ \cup {<<c.ed.root, to, s[3]>> :
                                        s \in {s \in @ : s[1] = c.ed.root /\ s[2] = from}}]
    ELSE c
(* file_mutated                                                              *)
MutationAnswered(c, id, result) ==
    LET save    == {s \in c.saves : s.id = id}
        renamed == {r \in c.renames : r.id = id}
        d       == [c EXCEPT !.saves = @ \ save, !.renames = @ \ renamed]
        undrawn == [d EXCEPT !.behind = TRUE]
    IN  IF save # {}
        THEN LET s == CHOOSE s \in save : TRUE
             IN  IF s.tab = 0 THEN PromptSaved(d, s.unsaved, result)
                 ELSE TabSaved(IF result = "done" THEN d ELSE undrawn, s, result)
        ELSE IF renamed # {} /\ result = "done"
        THEN LET r == CHOOSE r \in renamed : TRUE IN EditorMoved(undrawn, r.from, r.to)
        ELSE IF renamed # {} THEN undrawn
        ELSE d

(* forget_file_saves and forget_entry_requests                               *)
SavesForgotten(c) ==
    LET lost == {s \in c.saves : s.tab = 0}
        d    == [c EXCEPT !.saves = {}, !.renames = {}, !.dropped = {},
                          !.prompts = @ \o SetToSeq({s.unsaved : s \in lost})]
    IN  IF \E s \in c.saves : EditorOf(c, s.tab)
        THEN [d EXCEPT !.ed.saving = 0, !.ed.after = Nothing] ELSE d

(* prune_files_state, and clear_files_state where the Session is another.    *)
Pruned(c, all) ==
    IF c.ed # NoEditor /\ (all \/ c.tab = NoTab \/ c.tab.id # c.ed.tab)
    THEN [KeptText(c) EXCEPT !.ed = NoEditor] ELSE c
(* A layout is applied; what this window asked for, it presents.             *)
LaidOut(c, t, shown) ==
    LET d == Pruned([c EXCEPT !.tab = t], FALSE)
        p == t # NoTab /\ (shown \/ (c.presented /\ c.tab # NoTab /\ c.tab.id = t.id))
    IN  [d EXCEPT !.presented = p, !.sync = p /\ (@ \/ shown \/ c.tab # t)]
(* apply_bootstrap empties every cache; nothing is pending any more.         *)
Bootstrapped(c, t, r) ==
    LET d == [c EXCEPT !.tab = t, !.root = r, !.cache = [p \in Paths |-> NoAnswer],
                       !.pending = [p \in Paths |-> 0]]
        p == c.presented /\ t # NoTab /\ c.tab # NoTab /\ c.tab.id = t.id
    IN  [Pruned(d, r # c.root) EXCEPT !.presented = p, !.sync = p]

(* accept_file: an answer that changes nothing keeps its generation.         *)
FileAnswered(c, p, id, content) ==
    IF c.pending[p] # id THEN c
    ELSE LET d == [c EXCEPT !.pending[p] = 0, !.cache[p] = content, !.sync = c.presented]
         IN  IF c.ed # NoEditor /\ c.ed.path = p /\ c.cache[p] # content
             THEN [d EXCEPT !.ed.current = FALSE] ELSE d

(* refresh_workspace_files: answers on their way are out of date.            *)
Refreshed(c) ==
    LET shown == IF c.tab = NoTab THEN NoPath ELSE c.tab.path
        d     == [c EXCEPT !.cache = [p \in Paths |-> IF p = shown THEN @[p] ELSE NoAnswer],
                           !.pending = [p \in Paths |-> 0]]
    IN  IF shown = NoPath THEN d ELSE Requested(d, shown)

(* rename_in_flight: the Tab waits for the answer.                           *)
RenameUnderWay(c) == c.ed # NoEditor /\ \E r \in c.renames : r.from = c.ed.path

(* Broken: a read under unsaved text moves the version on.                   *)
ShownUnderText(c, p, content) ==
    IF c.ed.path = p /\ c.ed.saving # 0 THEN c
    ELSE IF c.ed.path = p /\ (c.ed.dirty \/ (content # Gone /\ content = c.ed.version))
    THEN [c EXCEPT !.ed.current = TRUE, !.ed.version = content]
    ELSE [c EXCEPT !.ed.path = p, !.ed.current = TRUE, !.ed.text = content,
                   !.ed.base = content, !.ed.version = content, !.ed.dirty = FALSE,
                   !.ed.kind = IF content = Gone THEN "other" ELSE "text",
                   !.seen = @ \cup {<<c.ed.root, p, content>>}]
(* The editor takes over what was read, unless it holds a save's or a        *)
(* person's text of the same file.                                           *)
Shown(c, p, content) ==
    IF c.ed.path = p /\ c.ed.saving # 0 THEN c
    ELSE IF c.ed.path = p /\ (c.ed.dirty \/ (content # Gone /\ content = c.ed.version))
    THEN [c EXCEPT !.ed.current = TRUE]
    ELSE [c EXCEPT !.ed.path = p, !.ed.current = TRUE, !.ed.text = content,
                   !.ed.base = content, !.ed.version = content, !.ed.dirty = FALSE,
                   !.ed.kind = IF content = Gone THEN "other" ELSE "text",
                   !.seen = @ \cup {<<c.ed.root, p, content>>}]
(* sync_file_editor                                                          *)
Synced(c) ==
    LET p      == c.tab.path
        answer == c.cache[p]
        d      == [IF answer = NoAnswer /\ c.pending[p] = 0 THEN Requested(c, p) ELSE c
                       EXCEPT !.sync = FALSE, !.behind = FALSE]
        other  == c.ed # NoEditor /\ c.ed.path \notin {NoPath, p}
        k      == IF other THEN KeptText(d) ELSE d
        e      == IF k.ed = NoEditor THEN [k EXCEPT !.ed = NewEditor(k)] ELSE k
    IN  IF other /\ RenameUnderWay(c) THEN d
        ELSE IF answer = NoAnswer
        THEN IF e.ed.path = p THEN e
             ELSE [e EXCEPT !.ed.kind = "loading", !.ed.path = NoPath, !.ed.version = Gone]
        ELSE IF e.ed.path = p /\ e.ed.current THEN e
        ELSE Shown(e, p, answer)

(* The person acts on the window that is drawn, behind no dialog.            *)
AtHand == gui.dialogs = <<>> /\ ~gui.sync
Editing == AtHand /\ gui.presented /\ gui.ed # NoEditor /\ gui.ed.kind = "text"

(* file_text_changed: the text is unsaved while it differs from what was     *)
(* read or saved.                                                            *)
TextChanged(c, text) ==
    [c EXCEPT !.ed.text = text, !.ed.dirty = c.ed.version # Gone /\ text # c.ed.base]
NewText == 10 + left.types
Type ==
    /\ Editing /\ gui.ed.version # Gone
    /\ Spend("types")
    /\ LET c == TextChanged(IF gui.ed.dirty THEN LetGo(gui, gui.ed.text) ELSE gui, NewText)
       IN  gui' = [c EXCEPT !.owed = @ \cup {NewText}]
    /\ UNCHANGED <<disk, root, tab, tabs, threads, news, inbox>>
Undo ==
    /\ Editing /\ gui.ed.version # Gone /\ gui.ed.text # gui.ed.base
    /\ Spend("undos")
    /\ gui' = TextChanged(LetGo(gui, gui.ed.text), gui.ed.base)
    /\ UNCHANGED <<disk, root, tab, tabs, threads, news, inbox>>
Save ==
    /\ Editing
    /\ Spend("saves")
    /\ gui' = SaveStarted(gui, gui.ed.tab, TRUE, Nothing)
    /\ UNCHANGED <<disk, root, tab, tabs, threads, news, inbox>>

(* show_file_on                                                              *)
ShowFile(p) ==
    /\ AtHand /\ gui.up
    /\ Spend("shows")
    /\ LET then == [op |-> "show", id |-> 0, path |-> p]
       IN  gui' = IF gui.tab # NoTab /\ gui.tab.path # p
                  THEN AskedFirst(gui, gui.tab.id, then) ELSE Performed(gui, then)
    /\ UNCHANGED <<disk, root, tab, tabs, threads, news, inbox>>
(* confirm_close_on                                                          *)
CloseTab ==
    /\ AtHand /\ gui.up /\ gui.tab # NoTab
    /\ Spend("closes")
    /\ gui' = AskedFirst(gui, gui.tab.id, [op |-> "close", id |-> 0, tab |-> gui.tab.id])
    /\ UNCHANGED <<disk, root, tab, tabs, threads, news, inbox>>
(* prompt_rename_entry and send_entry                                        *)
RenameFile(from, to) ==
    /\ AtHand /\ gui.up /\ from # to
    /\ Spend("renames")
    /\ LET n == NextId(gui)
       IN  gui' = [gui EXCEPT !.renames = @ \cup {[id |-> n, from |-> from, to |-> to]},
                              !.out = Append(@, [op |-> "rename", id |-> n, path |-> from,
                                                 to |-> to])]
    /\ UNCHANGED <<disk, root, tab, tabs, threads, news, inbox>>
(* Another Tab is looked at, and this one again.                             *)
LookElsewhere ==
    /\ AtHand /\ gui.presented
    /\ Spend("looks")
    /\ gui' = [gui EXCEPT !.presented = FALSE]
    /\ UNCHANGED <<disk, root, tab, tabs, threads, news, inbox>>
LookBack ==
    /\ AtHand /\ ~gui.presented /\ gui.tab # NoTab
    /\ gui' = [gui EXCEPT !.presented = TRUE, !.sync = TRUE]
    /\ UNCHANGED <<disk, root, tab, tabs, threads, news, inbox, left>>

(* The window draws itself: rebuild_dock, and ask_file_prompts_now.          *)
Sync ==
    /\ gui.sync
    /\ gui' = Synced(gui)
    /\ UNCHANGED <<disk, root, tab, tabs, threads, news, inbox, left>>
(* Broken: a question nobody is asked any more counts as open.               *)
AskedNobody(c, prompt) ==
    IF prompt.kind = "unsaved"
    THEN [c EXCEPT !.open = TRUE,
                   !.dialogs = Append(@, [kind |-> "unsaved", text |-> prompt,
                                          can |-> c.up /\ c.root = prompt.root])]
    ELSE IF EditorOf(c, prompt.tab) /\ c.ed.path # NoPath
    THEN [c EXCEPT !.open = TRUE,
                   !.dialogs = Append(@, [kind |-> "conflict", tab |-> prompt.tab,
                                          path |-> c.ed.path, root |-> c.ed.root,
                                          after |-> prompt.after])]
    ELSE [c EXCEPT !.open = TRUE]
(* ask_unsaved and ask_conflict                                              *)
Asked(c, prompt) ==
    IF prompt.kind = "unsaved"
    THEN [c EXCEPT !.open = TRUE,
                   !.dialogs = Append(@, [kind |-> "unsaved", text |-> prompt,
                                          can |-> c.up /\ c.root = prompt.root])]
    ELSE IF EditorOf(c, prompt.tab) /\ c.ed.path # NoPath
    THEN [c EXCEPT !.open = TRUE,
                   !.dialogs = Append(@, [kind |-> "conflict", tab |-> prompt.tab,
                                          path |-> c.ed.path, root |-> c.ed.root,
                                          after |-> prompt.after])]
    ELSE c
AskPrompts ==
    /\ ~gui.sync
    /\ gui.later # <<>> \/ (gui.prompts # <<>> /\ ~gui.open)
    /\ LET c == FoldLeft(GoneOn, [gui EXCEPT !.later = <<>>], gui.later)
       IN  gui' = IF c.open \/ c.prompts = <<>> THEN c
                  ELSE Asked([c EXCEPT !.prompts = Tail(@)], Head(c.prompts))
    /\ UNCHANGED <<disk, root, tab, tabs, threads, news, inbox, left>>

(* The choices of the dialog on top.                                         *)
Answering(kind) ==
    /\ ~gui.sync /\ gui.dialogs # <<>> /\ Last(gui.dialogs).kind = kind
    /\ UNCHANGED <<disk, root, tab, tabs, threads, news, inbox>>
Closed == [gui EXCEPT !.dialogs = Front(@)]
PromptClosed == [Closed EXCEPT !.open = FALSE]

ConfirmCancel ==
    /\ Answering("confirm")
    /\ gui' = Closed
    /\ UNCHANGED left
(* Don't Save, or Copy where the Server cannot be reached.                   *)
ConfirmSkip ==
    /\ Answering("confirm")
    /\ LET d == Last(gui.dialogs)
           c == IF EditorOf(gui, d.tab) /\ gui.ed.dirty
                THEN [Chosen(Closed, d, d.tab) EXCEPT !.ed.dirty = FALSE,
                                                      !.skipped = @ \cup {gui.ed.text}]
                ELSE Closed
       IN  gui' = AskedFirst(c, d.tab, d.then)
    /\ UNCHANGED left
ConfirmSave ==
    /\ Answering("confirm") /\ Last(gui.dialogs).can
    /\ Spend("saves")
    /\ LET d == Last(gui.dialogs)
       IN  gui' = SaveStarted(Closed, d.tab, TRUE, [tab |-> d.tab, then |-> d.then])
UnsavedDrop ==
    /\ Answering("unsaved")
    /\ gui' = LetGo(PromptClosed, Last(gui.dialogs).text.text)
    /\ UNCHANGED left
UnsavedSave ==
    /\ Answering("unsaved") /\ Last(gui.dialogs).can
    /\ Spend("saves")
    /\ LET u == Last(gui.dialogs).text
           c == PromptClosed
       IN  gui' = IF ~c.up THEN [c EXCEPT !.prompts = Append(@, u)]
                  ELSE [WriteSent(c, [id |-> NextId(c), path |-> u.path, text |-> u.text,
                                      tab |-> 0, unsaved |-> u],
                                  IF u.conflicted THEN Gone ELSE u.version)
                            EXCEPT !.misapplied = @ \/ u.root # c.root]
ConflictCancel ==
    /\ Answering("conflict")
    /\ gui' = PromptClosed
    /\ UNCHANGED left
ConflictReload ==
    /\ Answering("conflict")
    /\ LET d == Last(gui.dialogs)
       IN  gui' = GoneOn(EditsDiscarded(Chosen(PromptClosed, d, d.tab), d.tab), d.after)
    /\ UNCHANGED left
ConflictOverwrite ==
    /\ Answering("conflict")
    /\ Spend("saves")
    /\ LET d == Last(gui.dialogs)
           c == SaveStarted(PromptClosed, d.tab, FALSE, d.after)
       IN  gui' = [c EXCEPT !.misapplied =
                       @ \/ (c.out # gui.out /\ <<gui.ed.root, gui.ed.path>> # <<d.root, d.path>>)]

(* The Server: one request of the connection after the other.                *)
Told(message) == inbox' = IF gui.up THEN Append(inbox, message) ELSE inbox
Laid(t, shown) ==
    /\ tab' = t
    /\ Told([kind |-> "layout", id |-> 0, tab |-> t, shown |-> shown])
(* Session::show_file                                                        *)
Showing(p, shown) ==
    IF tab = NoTab THEN Laid([id |-> tabs + 1, path |-> p], shown) /\ tabs' = tabs + 1
    ELSE Laid([tab EXCEPT !.path = p], shown) /\ UNCHANGED tabs
Serve ==
    /\ gui.up /\ gui.out # <<>>
    /\ gui' = [gui EXCEPT !.out = Tail(@)]
    /\ LET m == Head(gui.out)
       IN  \/ /\ m.op = "read"
              /\ Told([kind |-> "content", id |-> m.id, path |-> m.path,
                       content |-> disk[m.path]])
              /\ UNCHANGED <<tab, tabs, threads>>
           \/ /\ m.op = "show"
              /\ Showing(m.path, TRUE)
              /\ UNCHANGED threads
           \/ /\ m.op = "close"
              /\ IF tab # NoTab /\ tab.id = m.tab THEN Laid(NoTab, FALSE)
                 ELSE UNCHANGED <<tab, inbox>>
              /\ UNCHANGED <<tabs, threads>>
           \/ /\ m.op \in {"write", "rename"}
              /\ threads' = threads \cup {[id |-> m.id, does |-> m, stage |-> "waits",
                                           result |-> "none", lost |-> FALSE]}
              /\ UNCHANGED <<tab, tabs, inbox>>
    /\ UNCHANGED <<disk, root, news, left>>

(* mutate_file under MUTATIONS.  A write truncates its file and then fills   *)
(* it, and anybody who reads it meanwhile finds it torn.                     *)
Unlocked == \A t \in threads : t.stage # "writes"
Goes(t, stage) == threads' = (threads \ {t}) \cup {[t EXCEPT !.stage = stage]}
Finished(t, stage, result) ==
    threads' = (threads \ {t}) \cup {[t EXCEPT !.stage = stage, !.result = result]}
RefuseWrite(t) ==
    /\ t.stage = "waits" /\ t.does.op = "write" /\ Unlocked
    /\ t.does.base # Gone /\ disk[t.does.path] # t.does.base
    /\ Finished(t, "answers", "conflict")
    /\ UNCHANGED disk
StartWrite(t) ==
    /\ t.stage = "waits" /\ t.does.op = "write" /\ Unlocked
    /\ t.does.base \in {Gone, disk[t.does.path]}
    /\ disk' = [disk EXCEPT ![t.does.path] = Torn]
    /\ Goes(t, "writes")
EndWrite(t) ==
    /\ t.stage = "writes"
    /\ disk' = [disk EXCEPT ![t.does.path] = t.does.text]
    /\ Finished(t, "mutated", "done")
Rename(t) ==
    /\ t.stage = "waits" /\ t.does.op = "rename" /\ Unlocked
    /\ LET from == t.does.path
           to   == t.does.to
       IN  IF disk[from] = Gone THEN Finished(t, "mutated", "failed") /\ UNCHANGED disk
           ELSE IF disk[to] # Gone THEN Finished(t, "answers", "invalid") /\ UNCHANGED disk
           ELSE /\ Finished(t, "mutated", "done")
                /\ disk' = [disk EXCEPT ![from] = Gone, ![to] = disk[from]]
Mutate(t) ==
    /\ RefuseWrite(t) \/ StartWrite(t) \/ EndWrite(t) \/ Rename(t)
    /\ UNCHANGED <<root, tab, tabs, news, inbox, gui, left>>
FailWrite(t) ==
    /\ t.stage = "writes"
    /\ Spend("failures")
    /\ Finished(t, "mutated", "failed")
    /\ UNCHANGED <<disk, root, tab, tabs, news, inbox, gui>>
(* files_mutated: the Tab follows a rename, and a scan is asked for.         *)
NoteMutation(t) ==
    /\ t.stage = "mutated"
    /\ Goes(t, "answers")
    /\ news' = TRUE
    /\ IF t.does.op = "rename" /\ t.result = "done" /\ tab # NoTab /\ tab.path = t.does.path
       THEN Laid([tab EXCEPT !.path = t.does.to], FALSE)
       ELSE UNCHANGED <<tab, inbox>>
    /\ UNCHANGED <<disk, root, tabs, gui, left>>
AnswerMutation(t) ==
    /\ t.stage = "answers"
    /\ threads' = threads \ {t}
    /\ IF t.lost THEN UNCHANGED inbox
       ELSE Told([kind |-> "mutated", id |-> t.id, result |-> t.result])
    /\ UNCHANGED <<disk, root, tab, tabs, news, gui, left>>
(* The Git watcher scans and publishes WorkspaceFilesChanged.                *)
PublishChange ==
    /\ news /\ news' = FALSE
    /\ Told([kind |-> "changed", id |-> 0])
    /\ UNCHANGED <<disk, root, tab, tabs, threads, gui, left>>

(* Other Clients and other programs.                                         *)
OtherShows(p) ==
    /\ Spend("others")
    /\ Showing(p, FALSE)
    /\ UNCHANGED <<disk, root, threads, news, gui>>
OtherCloses ==
    /\ tab # NoTab
    /\ Spend("others")
    /\ Laid(NoTab, FALSE)
    /\ UNCHANGED <<disk, root, tabs, threads, news, gui>>
Touch(p) ==
    /\ disk[p] # Torn \/ Unlocked
    /\ Spend("touches")
    /\ \E content \in {Gone, 20 + left.touches} : disk' = [disk EXCEPT ![p] = content]
    /\ news' = TRUE
    /\ UNCHANGED <<root, tab, tabs, threads, inbox, gui>>

(* The window's reader: the messages in their order.                         *)
ReceiveMessage ==
    /\ gui.up /\ inbox # <<>>
    /\ inbox' = Tail(inbox)
    /\ LET m == Head(inbox)
       IN  gui' = CASE m.kind = "content" -> FileAnswered(gui, m.path, m.id, m.content)
                    [] m.kind = "mutated" -> MutationAnswered(gui, m.id, m.result)
                    [] m.kind = "layout" -> LaidOut(gui, m.tab, m.shown)
                    [] m.kind = "changed" -> Refreshed(gui)
                    [] m.kind = "bootstrap" -> Bootstrapped(gui, m.tab, root)
    /\ UNCHANGED <<disk, root, tab, tabs, threads, news, left>>

(* The connection ends: what was on its way is lost.                         *)
Severed(c) == [c EXCEPT !.up = FALSE, !.out = <<>>]
CutOff ==
    /\ gui.up
    /\ inbox' = <<>>
    /\ threads' = {[t EXCEPT !.lost = TRUE] : t \in threads}
    /\ UNCHANGED <<disk, root, tab, tabs, news>>
(* mark_disconnected                                                         *)
LoseConnection ==
    /\ CutOff
    /\ Spend("losses")
    /\ gui' = SavesForgotten([Severed(gui) EXCEPT !.pending = [p \in Paths |-> 0]])
(* disconnect_server, on the person's word.                                  *)
Disconnect ==
    /\ CutOff /\ AtHand
    /\ Spend("hands")
    /\ gui' = Severed(gui)
(* install_connection and handle_connection_result                           *)
Reconnect ==
    /\ ~gui.up
    /\ gui' = Bootstrapped([gui EXCEPT !.up = TRUE], tab, root)
    /\ UNCHANGED <<disk, root, tab, tabs, threads, news, inbox, left>>
(* The Server comes back with another Session, in another checkout, that     *)
(* counts its Tabs from one again.                                           *)
RestartServer ==
    /\ ~gui.up
    /\ Spend("restarts")
    /\ root' = root + 1 /\ threads' = {} /\ news' = FALSE /\ tabs' = 1
    /\ tab' \in {NoTab} \cup [id : {1}, path : Paths]
    /\ \E d \in [Paths -> {Gone, 2}] : disk' = d
    /\ UNCHANGED <<inbox, gui>>
(* The queue to the window overflows: its frames are dropped, and the        *)
(* window, told so, gets a Bootstrap on the same connection.  History notes  *)
(* the saves and renames whose answers are dropped: the window never learns  *)
(* of them.                                                                  *)
Overflow ==
    /\ gui.up /\ inbox # <<>>
    /\ Spend("overflows")
    /\ inbox' = <<[kind |-> "bootstrap", id |-> 0, tab |-> tab]>>
    /\ gui' = [gui EXCEPT !.dropped =
                   @ \cup {m.id : m \in {m \in ToSet(inbox) : m.kind = "mutated"}}]
    /\ UNCHANGED <<disk, root, tab, tabs, threads, news>>

(* A window that shows a Session with a Preview Tab, or with none.           *)
EditInit(bounds, files, path) ==
    /\ left = bounds
    /\ disk = files
    /\ root = 1
    /\ tab = (IF path = NoPath THEN NoTab ELSE [id |-> 1, path |-> path])
    /\ tabs = (IF path = NoPath THEN 0 ELSE 1)
    /\ threads = {} /\ news = FALSE /\ inbox = <<>>
    /\ gui = [up |-> TRUE, root |-> 1, tab |-> tab, presented |-> tab # NoTab,
              sync |-> tab # NoTab, out |-> <<>>, cache |-> [p \in Paths |-> NoAnswer],
              pending |-> [p \in Paths |-> 0], ed |-> NoEditor, saves |-> {}, renames |-> {},
              prompts |-> <<>>, open |-> FALSE, dialogs |-> <<>>, later |-> <<>>,
              owed |-> {}, seen |-> {}, behind |-> FALSE, crossed |-> FALSE,
              skipped |-> {}, misapplied |-> FALSE, dropped |-> {}]

Person ==
    \/ Type \/ Undo \/ Save \/ CloseTab \/ LookElsewhere \/ LookBack
    \/ \E p \in Paths : ShowFile(p) \/ \E q \in Paths : RenameFile(p, q)
    \/ ConfirmCancel \/ ConfirmSkip \/ ConfirmSave \/ UnsavedDrop \/ UnsavedSave
    \/ ConflictCancel \/ ConflictReload \/ ConflictOverwrite
WindowStep == Sync \/ AskPrompts \/ ReceiveMessage
MutationStep(t) ==
    Mutate(t) \/ FailWrite(t) \/ NoteMutation(t) \/ AnswerMutation(t)
OutsideStep ==
    \/ \E p \in Paths : OtherShows(p) \/ Touch(p)
    \/ OtherCloses \/ LoseConnection \/ Disconnect \/ Reconnect \/ RestartServer \/ Overflow
EditNext == Person \/ WindowStep \/ Serve \/ PublishChange \/ (\E t \in threads : MutationStep(t)) \/ OutsideStep

(* The window, the connection and the Server's threads do not rest while     *)
(* they have something to do; people, other programs and networks may.       *)
EditsMoveOn == WindowStep \/ Serve \/ PublishChange \/ (\E t \in threads : MutationStep(t))

-----------------------------------------------------------------------------
(* Properties                                                                *)

(* Where a text the person typed may be: unsaved in the editor, in a         *)
(* question, or in the save that a question's answer sent.                   *)
Held ==
    (IF gui.ed # NoEditor /\ gui.ed.dirty THEN {gui.ed.text} ELSE {})
        \cup {u.text : u \in {u \in ToSet(gui.prompts) : u.kind = "unsaved"}}
        \cup {d.text.text : d \in {d \in ToSet(gui.dialogs) : d.kind = "unsaved"}}
        \cup {s.text : s \in {s \in gui.saves : s.tab = 0}}
(* Text that was typed is never lost without the person's word, whoever      *)
(* moves the file or the Tab, and whatever becomes of its save               *)
(* (file_edits.rs, keep_unsaved and file_saved), until a choice is applied   *)
(* to another file than its question named.                                  *)
TextIsKept == ~gui.misapplied => gui.owed \subseteq Held

(* A save that names a version replaces only what this person's editor has   *)
(* shown of that file or saved to it: neither a read that came in under      *)
(* unsaved text, nor a retarget, a rename or another Session lends its       *)
(* version to the text (files.rs, sync_file_editor).                         *)
NothingUnseenIsReplaced ==
    [][\A t \in threads :
          /\ t.does.op = "write" /\ t.does.base # Gone /\ ~gui.misapplied
          /\ [t EXCEPT !.stage = "writes"] \in threads' \ threads
          => <<root, t.does.path, disk[t.does.path]>> \in gui.seen]_editVars

(* With nothing on its way, the Preview Tab that is looked at shows its      *)
(* file as it is, or text that is unsaved (events.rs, WorkspaceFilesChanged; *)
(* workspace_resources.rs, accept_file).  It may not from the answer to a    *)
(* rename, or to a save that failed, to the next drawing, as a FileMutated   *)
(* draws nothing; once a save's reply came to another file; and where text   *)
(* was let go for the sake of an action that came to nothing; and while the  *)
(* save or the rename it waits for has had its answer dropped.               *)
Stranded ==
    gui.ed # NoEditor /\ (gui.ed.saving \in gui.dropped
                             \/ \E r \in gui.renames : r.id \in gui.dropped /\ r.from = gui.ed.path)
AtRest ==
    /\ gui.up /\ gui.presented /\ ~gui.sync /\ ~gui.behind /\ ~Stranded
    /\ inbox = <<>> /\ gui.out = <<>> /\ threads = {} /\ ~news
PreviewFollowsDisk ==
    AtRest /\ ~gui.crossed =>
        /\ gui.tab = tab /\ gui.ed # NoEditor
        /\ \/ gui.ed.dirty \/ gui.ed.text \in gui.skipped
           \/ gui.ed.path = tab.path /\ gui.ed.text = disk[tab.path]

(* While the connection lasts, what the window waits for is on its way: a    *)
(* save or a rename nobody will answer stops every later one.  An overflow's *)
(* recovery is over once its Bootstrap is applied.                           *)
OnItsWay ==
    {m.id : m \in ToSet(gui.out)} \cup {t.id : t \in {t \in threads : ~t.lost}}
        \cup {m.id : m \in ToSet(inbox)}
Recovering == \E m \in ToSet(inbox) : m.kind = "bootstrap"
SavesAreAwaited ==
    gui.up /\ ~Recovering =>
        /\ {s.id : s \in gui.saves} \cup {r.id : r \in gui.renames} \subseteq OnItsWay
        /\ gui.ed = NoEditor \/ gui.ed.saving \in {0} \cup {s.id : s \in gui.saves}
(* Disconnecting by hand and an overflow break that.  Without the former,    *)
(* what the window waits for is on its way, or its answer is one of those an *)
(* overflow dropped.                                                         *)
OthersAreAwaited ==
    gui.up => /\ {s.id : s \in gui.saves} \cup {r.id : r \in gui.renames}
                     \subseteq OnItsWay \cup gui.dropped
              /\ gui.ed = NoEditor \/ gui.ed.saving \in {0} \cup {s.id : s \in gui.saves}

(* What is shown is what is there, and what is waited for is coming.         *)
PreviewIsSound == PreviewFollowsDisk /\ OthersAreAwaited

(* No text is lost, and the Preview Tab shows what there is.                *)
EditorIsSound == TextIsKept /\ PreviewIsSound

(* Every save is answered or given up, but for one whose answer an overflow  *)
(* dropped, and every question comes before the person (file_edits.rs,       *)
(* ask_file_prompts): whatever is open, a time comes when neither is.        *)
Saving == gui.ed # NoEditor /\ gui.ed.saving # 0
BeforeThePerson == \E d \in ToSet(gui.dialogs) : d.kind \in {"unsaved", "conflict"}
EditsSettled ==
    /\ Saving => gui.ed.saving \in gui.dropped
    /\ gui.prompts = <<>> \/ BeforeThePerson
=============================================================================

------------------------------- MODULE Terminals -------------------------------
(***************************************************************************)
(* Terminals of one user: how a process starts (cli/main.py), the dialogs  *)
(* for models, login and logout that take the place of the editor, and     *)
(* what they do to the session and to the files of UserFiles.              *)
(*                                                                         *)
(* The reader thread hands keys to the dialog (terminal.py, tui.py); lines *)
(* that were submitted earlier run on the event loop whatever is mounted   *)
(* by then.  A step is one handler.  An exception on the reader thread     *)
(* ends the thread (_read_loop swallows OSError): no key is heard again.   *)
(* Left out: _api_key, which only a check that get_api_key disables reads. *)
(***************************************************************************)
EXTENDS UserFiles, SelectList, FiniteSets

CONSTANTS
  Listing,     \* the order in which a set of rows is listed, by id
  Keeps,       \* the rows that the filter keeps for a text
  MaxRows,     \* how many rows a list shows
  MaxDialogs   \* bound: terminals with a dialog open at a time

Rows == Model \cup Provider

ASSUME TerminalsAssumption ==
  /\ Provider \cap (Model \cup Fields) = {}
  /\ Listing \in [SUBSET Rows -> Seq(Rows)]
  /\ \A S \in SUBSET Rows : \A i \in 1 .. Len(Listing[S]) : Listing[S][i] \in S
  /\ Keeps \in [Text -> SUBSET Rows] /\ Keeps[Nothing] = Rows
  /\ MaxRows \in Nat \ {0} /\ MaxDialogs \in Nat

VARIABLES
  model,    \* the model each process uses, Null if it does not run
  dialog,   \* what has replaced the editor
  hears     \* whether the reader thread lives

terminal == <<model, dialog, hears>>
vars == <<files, terminal>>

Runs(p) == model[p] # Null
ProviderOf(p) == MadeBy[model[p]]
\* AgentSession._resolve_api_key: what its requests are sent with
SessionKey(p) == ApiKeyFor(ProviderOf(p), FALSE)

-----------------------------------------------------------------------------
(* Dialogs *)

\* The row in use comes first, the others by id
InOrder(first, S) ==
  IF first \in S THEN <<first>> \o Listing[S \ {first}] ELSE Listing[S]

NoDialog ==
  [kind |-> "none", offers |-> {}, first |-> Null, text |-> Nothing,
   list |-> ListOf(<<>>, MaxRows), about |-> Null, back |-> FALSE]

\* ModelSelectorComponent, ProviderSelectorComponent: _apply_filter
Filtered(d) ==
  [d EXCEPT !.list = SetItems(d.list, InOrder(d.first, d.offers \cap Keeps[d.text]))]
Selector(kind, offers, first, text) ==
  Filtered([NoDialog EXCEPT !.kind = kind, !.offers = offers, !.first = first, !.text = text])

\* LoginDialogComponent; first is what the selector it came from had in use
KeyDialog(q, first, back) ==
  [NoDialog EXCEPT !.kind = "key", !.about = q, !.first = first, !.back = back]

Selectors == {"models", "login", "logout"}

LoginSelector(first) == Selector("login", Provider, first, Nothing)

\* _swap_editor_for and _restore_editor; InteractiveMode has the tree
Mount(p, d) ==
  /\ Cardinality({x \in Proc \ {p} : dialog[x].kind # "none"}) < MaxDialogs
  /\ dialog' = [dialog EXCEPT ![p] = d]
RestoreEditor(p) == dialog' = [dialog EXCEPT ![p] = NoDialog]

\* AgentSession.set_model: in use before it is recorded, which may raise
SetModel(p, m) == model' = [model EXCEPT ![p] = m]

\* _available_models
Callable(p) == {m \in Model : Configured(p, MadeBy[m])}

-----------------------------------------------------------------------------
(* Starting and ending *)

First(x, y) == IF x # Null THEN x ELSE y

\* _select_provider: with any other name the program ends
BuiltIn(q) == q \in Provider

\* main: what the command line says, else the session that is resumed, in
\* which the model kept is recorded (_create_session_manager), else the settings
Launch(p, provider, name, kept) ==
  LET q == First(provider, First(IF kept = Null THEN Null ELSE MadeBy[kept],
                                 First(disk["default_provider"], Home)))
      n == First(name, First(kept, disk["default_model"]))
  IN  /\ ~Runs(p)
      /\ BuiltIn(q)
      /\ \E m \in Resolved(q, n) : model' = [model EXCEPT ![p] = m]
      /\ LoadFiles(p)
      /\ UNCHANGED <<dialog, hears>>

\* The process ends in one way or another
Exit(p) ==
  /\ Runs(p)
  /\ model' = [model EXCEPT ![p] = Null]
  /\ hears' = [hears EXCEPT ![p] = TRUE]
  /\ RestoreEditor(p) /\ ForgetFiles(p)

-----------------------------------------------------------------------------
(* Submitted lines *)

\* /model: with the id of a model that can be called, at once
SwitchModel(p, n) ==
  /\ Runs(p)
  /\ \E m \in Callable(p) : m = Normalized(MadeBy[m], n) /\ SetModel(p, m)
  /\ UNCHANGED <<files, dialog, hears>>

\* _open_model_selector
OpenModels(p, t) ==
  /\ Runs(p) /\ Callable(p) # {}
  /\ Mount(p, Selector("models", Callable(p), model[p], t))
  /\ UNCHANGED <<files, model, hears>>

\* _open_login_dialog: one provider needs no selector
OpenLogin(p) ==
  /\ Runs(p)
  /\ Mount(p, IF \E q \in Provider : Provider = {q}
              THEN KeyDialog(Home, Null, FALSE) ELSE LoginSelector(ProviderOf(p)))
  /\ UNCHANGED <<files, model, hears>>

\* _cmd_logout: one stored key needs no selector
OpenLogout(p, ok) ==
  LET offers == {q \in Provider : copy[p][q] # NoKey}
  IN  /\ Runs(p) /\ offers # {}
      /\ IF \E q \in offers : offers = {q}
         THEN (\E q \in offers : RemoveKeyFor(p, q, ok)) /\ UNCHANGED dialog
         ELSE Mount(p, Selector("logout", offers, ProviderOf(p), Nothing)) /\ UNCHANGED files
      /\ UNCHANGED <<model, hears>>

\* _cmd_settings
ChangeSetting(p, f, v, ok) ==
  /\ Runs(p) /\ SetValue(p, f, v, ok)
  /\ UNCHANGED terminal

\* _cmd_permissions, by a line, a menu or a key
ChangePermission(p, v, ok) ==
  /\ Runs(p) /\ v \in Modes \* others are refused by set_permission_mode
  /\ SetPermission(p, v, ok)
  /\ UNCHANGED terminal

-----------------------------------------------------------------------------
(* Keys *)

\* _read_loop: keys are heard while the thread lives
Hears(p, kinds) == Runs(p) /\ hears[p] /\ dialog[p].kind \in kinds

Up(p) ==
  /\ Hears(p, Selectors)
  /\ dialog' = [dialog EXCEPT ![p].list = MoveUp(@)]
  /\ UNCHANGED <<files, model, hears>>
Down(p) ==
  /\ Hears(p, Selectors)
  /\ dialog' = [dialog EXCEPT ![p].list = MoveDown(@)]
  /\ UNCHANGED <<files, model, hears>>

\* TextInput.handle_input: typed, pasted or deleted; a filter is applied anew
Type(p, t) ==
  /\ Hears(p, Selectors \cup {"key"})
  /\ LET d == [dialog[p] EXCEPT !.text = t]
     IN  dialog' = [dialog EXCEPT ![p] = IF d.kind = "key" THEN d ELSE Filtered(d)]
  /\ UNCHANGED <<files, model, hears>>

\* Esc, or Enter where no row is left; from a key back to the selector
Cancel(p) ==
  /\ Hears(p, Selectors \cup {"key"})
  /\ IF dialog[p].back
     THEN dialog' = [dialog EXCEPT ![p] = LoginSelector(dialog[p].first)]
     ELSE RestoreEditor(p)
  /\ UNCHANGED <<files, model, hears>>

Chosen(p) == GetSelected(dialog[p].list)
Enter(p, kind) == Hears(p, {kind}) /\ ~IsEmpty(dialog[p].list)

\* _on_model_selected: looked up again, so that a model whose key has been
\* removed meanwhile is not taken
ChooseModel(p, ok) ==
  /\ Enter(p, "models")
  /\ IF Chosen(p) \in Callable(p)
     THEN /\ SetModel(p, Chosen(p))
          /\ hears' = [hears EXCEPT ![p] = ok]
     ELSE UNCHANGED <<model, hears>>
  /\ RestoreEditor(p)
  /\ UNCHANGED files

\* on_select of the selector of _open_login_dialog
ChooseLogin(p) ==
  /\ Enter(p, "login")
  /\ dialog' = [dialog EXCEPT ![p] = KeyDialog(Chosen(p), dialog[p].first, TRUE)]
  /\ UNCHANGED <<files, model, hears>>

\* on_select of _cmd_logout
ChooseLogout(p, ok) ==
  /\ Enter(p, "logout")
  /\ RemoveKeyFor(p, Chosen(p), ok)
  /\ RestoreEditor(p)
  /\ UNCHANGED <<model, hears>>

\* on_submit of _open_key_dialog_for: the key is saved for the provider of the
\* dialog, which then comes into use, recorded or not
SubmitKey(p) ==
  LET q == dialog[p].about
  IN  /\ Hears(p, {"key"}) /\ dialog[p].text \notin Blank
      /\ SaveKeyFor(p, q, dialog[p].text, ProviderOf(p), TRUE)
      /\ IF q = ProviderOf(p) THEN UNCHANGED model
         ELSE SetModel(p, DefaultOf[q])
      /\ RestoreEditor(p)
      /\ UNCHANGED hears

\* The same when the file cannot be written: nobody catches the exception,
\* and the dialog stays
SubmitKeyFails(p) ==
  /\ Hears(p, {"key"}) /\ dialog[p].text \notin Blank
  /\ SaveKeyFor(p, dialog[p].about, dialog[p].text, ProviderOf(p), FALSE)
  /\ hears' = [hears EXCEPT ![p] = FALSE]
  /\ UNCHANGED <<model, dialog>>

\* Nothing was typed: the editor comes back, also where Esc goes elsewhere
SubmitNothing(p) ==
  /\ Hears(p, {"key"}) /\ dialog[p].text \in Blank
  /\ RestoreEditor(p)
  /\ UNCHANGED <<files, model, hears>>

-----------------------------------------------------------------------------
InitTerminals ==
  /\ InitFiles
  /\ model = [p \in Proc |-> Null]
  /\ dialog = [p \in Proc |-> NoDialog]
  /\ hears = [p \in Proc |-> TRUE]

Starts(p) ==
  \/ \E provider \in Provider \cup {Null}, name \in Name \cup {Null},
        kept \in Model \cup Retired \cup {Null} : Launch(p, provider, name, kept)
  \/ Exit(p)

Line(p) ==
  \/ \E ok \in BOOLEAN :
       \/ OpenLogout(p, ok)
       \/ \E f \in Fields \ {"tui_permission_mode"} :
            \E v \in Given[f] : ChangeSetting(p, f, v, ok)
       \/ \E v \in Given["tui_permission_mode"] : ChangePermission(p, v, ok)
  \/ \E n \in Name : SwitchModel(p, n)
  \/ \E t \in Text : OpenModels(p, t)
  \/ OpenLogin(p)

Key(p) ==
  \/ Up(p) \/ Down(p) \/ Cancel(p) \/ ChooseLogin(p)
  \/ \E t \in Text : Type(p, t)
  \/ \E ok \in BOOLEAN : ChooseModel(p, ok) \/ ChooseLogout(p, ok)
  \/ SubmitKey(p) \/ SubmitKeyFails(p) \/ SubmitNothing(p)

NextTerminals == \E p \in Proc : Starts(p) \/ Line(p) \/ Key(p)

Spec == InitTerminals /\ [][NextTerminals]_vars

-----------------------------------------------------------------------------
(* Properties *)

\* A key is stored, held and sent only for the provider in whose dialog it was
\* typed, whatever provider the session uses, and however copies of several
\* processes overwrite each other (_save_key_for, _resolve_api_key_for)
KeysAreTheirProviders ==
  /\ \A q \in Provider : disk[q] # NoKey => disk[q].for = q
  /\ \A p \in Proc, q \in Provider : copy[p][q] # NoKey => copy[p][q].for = q
  /\ \A p \in Proc :
        Runs(p) => SessionKey(p) = NoKey \/ SessionKey(p).for = ProviderOf(p)

\* settings.json can always be loaded, though the copies of the processes may
\* hold values that were refused (set_value sets before it validates)
SettingsFileLoads == Valid(disk)

\* Wherever keys, filters and other lines leave a list, the highlighted row is
\* one of the rows drawn, and no row is left undrawn while there is room
HighlightIsShown ==
  \A p \in Proc :
    LET l == dialog[p].list
    IN  ~IsEmpty(l) => /\ l.at \in Shown(l)
                       /\ l.top + l.max <= Len(l.items) \/ l.top = 0

\* What must hold at any moment of the files, the copies and the dialogs
TerminalsAreSound ==
  /\ KeysAreTheirProviders
  /\ SettingsFileLoads
  /\ HighlightIsShown

\* One process changes one entry, besides what it has missed or could not save
OneEntryChanges ==
  \E p \in Proc, f \in Entry : \A e \in Entry :
    disk'[e] # disk[e] =>
      \/ e = f
      \/ e \in behind[p] \cup unsaved[p]
      \/ f = "default_provider" /\ e = "default_model"

\* A save writes a whole file and yet changes one entry of it, besides those
\* that the process has not read since another wrote them or could not save
\* before: a login in one terminal does not undo what it had seen done in
\* another (save; a provider that is changed takes its old model ids along)
SavesChangeOneEntry == [][OneEntryChanges]_vars
===============================================================================

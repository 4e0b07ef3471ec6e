------------------------------ MODULE MCConfig ------------------------------
(***************************************************************************)
(* What the control page changes: the text of the configuration, the file  *)
(* and what runs of it, and the settings of a camera. Checked together:    *)
(* they share no variable, and a behaviour is one of them alone, with the  *)
(* variables of the others empty, or those of the file as they begin.      *)
(***************************************************************************)
EXTENDS ConfigFile, Integers, Sequences, SequencesExt, Functions

VARIABLE part  \* the part that runs
Alone(name) == part = name /\ UNCHANGED part

-----------------------------------------------------------------------------
(* The text. *)

CONSTANTS Names, Sections, FormValues, Texts, MaxLines,
          MaxPieces \* of which a person's file is put together
VARIABLE text
TheText == INSTANCE ConfigText

\* A camera's block with a note or a multi-line string in it that looks like a
\* header, or blank lines after it; sections; keys above them all.
Line(kind, what) == <<kind, what>>
Pieces == {<<Line("head", "camera"), Line("name", "a"), Line("key", 1)>>,
           <<Line("head", "camera"), Line("key", 1), Line("name", "b"), <<"blank">>, <<"note">>>>,
           <<Line("head", "camera"), <<"quote">>, Line("head", "camera"), <<"quote">>,
             Line("name", "a"), <<"blank">>, <<"blank">>>>,
           <<Line("head", "events"), Line("key", 1)>>,
           <<Line("head", "control"), Line("password", 0), <<"blank">>>>,
           <<Line("head", "rtsp"), <<"note">>>>,
           <<Line("head", "control"), <<"note">>, Line("listen", 0), Line("password", 0)>>}
Tops == {<<>>, <<<<"blank">>>>, <<<<"note">>, Line("listen", 0), <<"blank">>>>, <<Line("key", 1)>>}

SmallNames == {"a", "b"}
SmallSections == {"events", "clock"}
SmallValues == {<<Line("key", 2)>>}
SmallTexts == {top \o FlattenSeq(q) : top \in Tops, q \in UNION {[1..k -> Pieces] : k \in 0..MaxPieces}}

-----------------------------------------------------------------------------
(* The file. *)

CONSTANTS r1, r2
TwoRequests == {r1, r2}
RequestsAlike == Permutations(Requests)
OneCam == {"a"}
OnePassword == {"p1"}
AllMounts == {"folder", "file"}
Same(p) == p

-----------------------------------------------------------------------------
(* The settings of a camera. *)

CONSTANTS Leaves, MaxTicks, Sends
ASSUME FormsAssumption == IsFiniteSet(Sends)
VARIABLES cam, now, clock, form, trouble, start, held
formVars == <<cam, now, clock, form, trouble, start, held>>
TheForms == INSTANCE CameraForms WITH Requests <- Sends, req <- form, faults <- trouble

TwoForms == {"f1", "f2"}
TwoLeaves == {1, 2}

-----------------------------------------------------------------------------
Unused == <<>>
NoText == text = Unused
NoFile == Init /\ mount = "file"
NoForms == /\ cam = Unused /\ now = Unused /\ clock = Unused /\ form = Unused /\ trouble = Unused
           /\ start = Unused /\ held = Unused

ConfigInit ==
    \/ part = "text" /\ TheText!Init /\ NoFile /\ NoForms
    \/ part = "file" /\ NoText /\ Init /\ NoForms
    \/ part = "forms" /\ NoText /\ NoFile /\ TheForms!Init

ConfigNext ==
    \/ Alone("text") /\ TheText!Next /\ UNCHANGED <<vars, formVars>>
    \/ Alone("file") /\ Next /\ UNCHANGED <<text, formVars>>
    \/ Alone("forms") /\ TheForms!Next /\ UNCHANGED <<text, vars>>

configVars == <<part, text, vars, formVars>>
ConfigSpec == ConfigInit /\ [][ConfigNext]_configVars

-----------------------------------------------------------------------------
(* The properties are those of the parts; those of the file, FileSound and *)
(* ClaimedOnce, are ConfigFile's own.                                      *)

\* Every edit of the text does to what the loader reads what the form promises,
\* and nothing else, and makes a file that still loads (configfile.go and the
\* forms).
EditsData == [][part = "text" => TheText!Data!Init /\ TheText!EditsAsData /\ TheText!StillLoads']_configVars

\* "Confirmed" means the camera held the value, and no form sets its clock back
\* by more than a form takes (write.go writeBlockWith, clock.go).
ConfirmedHeld == part = "forms" => TheForms!ConfirmedHeld /\ TheForms!ClockKept

\* A form changes only what it is about, whatever fails (write.go).
OnlyItsOwn == [][part = "forms" => TheForms!ChangesItsOwn]_configVars
=============================================================================

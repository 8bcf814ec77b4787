--------------------------- MODULE ConsoleEditor ---------------------------
(* One editable option of the console: the directive scDirective with the    *)
(* popover that confirms a commit (bravo_popover). An option that is an      *)
(* array is shown as a list and edited as the text of its elements; a value  *)
(* is the pair of its form and its contents. The watch on `editing` runs in  *)
(* the digest of the click, before any other event.                          *)
CONSTANTS Content, \* what an option may hold
          Default  \* the content load_default sets

ASSUME DefaultAssumption == Default \in Content

VARIABLES
  array,   \* the attribute scd-array
  value,   \* data.value
  editing, old, \* $scope.editing, $scope.old_data
  popover, \* the confirmation is on screen
  before,  \* the value when editing began (what cancel has to restore)
  cancelled, \* the last change of `value` was a cancel
  broken   \* the watch threw: undefined has no join()

editorVars == <<array, value, editing, old, popover, before, cancelled, broken>>

Undefined == <<"undefined", "none">>
Value == ({"list", "text"} \X Content) \cup {Undefined}
NoOld == [init |-> FALSE, value |-> Undefined]
Stored(a, c) == <<IF a THEN "list" ELSE "text", c>>

EditorTypeOK ==
  /\ array \in BOOLEAN /\ editing \in BOOLEAN
  /\ popover \in BOOLEAN /\ cancelled \in BOOLEAN /\ broken \in BOOLEAN
  /\ value \in Value /\ before \in Value
  /\ old \in [init : BOOLEAN, value : Value]

EditorInit ==
  /\ array \in BOOLEAN
  /\ value \in {Stored(array, c) : c \in Content} \cup {Undefined}
  /\ editing = FALSE /\ popover = FALSE /\ broken = FALSE
  /\ old = NoOld
  /\ before = value /\ cancelled = FALSE

(* Mutant: the old value is kept after the array became text.                *)
LateEdit ==
  /\ ~editing
  /\ editing' = TRUE
  /\ broken' = (array /\ value = Undefined)
  /\ value' = IF array /\ value # Undefined THEN <<"text", value[2]>> ELSE value
  /\ old' = [init |-> TRUE, value |-> value']
  /\ before' = value /\ cancelled' = FALSE
  /\ UNCHANGED <<array, popover>>

(* edit() and the watch: the old value is kept, an array becomes text.       *)
Edit ==
  /\ ~editing
  /\ editing' = TRUE
  /\ old' = [init |-> TRUE, value |-> value]
  /\ broken' = (array /\ value = Undefined)
  /\ value' = IF array /\ value # Undefined THEN <<"text", value[2]>> ELSE value
  /\ before' = value /\ cancelled' = FALSE
  /\ UNCHANGED <<array, popover>>

(* The input field writes text.                                              *)
Type(c) ==
  /\ editing
  /\ value' = <<"text", c>>
  /\ UNCHANGED <<array, editing, old, popover, before, cancelled, broken>>

LoadDefault ==
  /\ editing
  /\ value' = Stored(array, Default)
  /\ UNCHANGED <<array, editing, old, popover, before, cancelled, broken>>

TogglePopover ==
  /\ editing
  /\ popover' = ~popover
  /\ UNCHANGED <<array, value, editing, old, before, cancelled, broken>>

Reset == editing' = FALSE /\ old' = NoOld

(* on_confirm: commit() splits the text of an array and submits it; when the *)
(* submission is refused the option stays in editing. Then the popover goes. *)
Confirm(accepted) ==
  /\ popover
  /\ popover' = FALSE
  /\ value' = IF array /\ value[1] = "text" THEN <<"list", value[2]>> ELSE value
  /\ IF old.init /\ ~accepted THEN UNCHANGED <<editing, old>> ELSE Reset
  /\ cancelled' = FALSE
  /\ UNCHANGED <<array, before, broken>>

Cancel ==
  /\ editing
  /\ value' = IF old.init \/ array THEN old.value ELSE value
  /\ Reset
  /\ cancelled' = TRUE
  /\ UNCHANGED <<array, popover, before, broken>>

EditorNext ==
  \/ Edit \/ LoadDefault \/ TogglePopover \/ Cancel
  \/ \E c \in Content : Type(c)
  \/ \E accepted \in BOOLEAN : Confirm(accepted)

-----------------------------------------------------------------------------
(* Outside editing an option has the form the rest of the page expects: an   *)
(* array is a list, whatever sequence of typing, defaults, refused and       *)
(* accepted commits and cancels led there; and a cancel has brought back the *)
(* very value from before editing, also after a refused commit.              *)
EditorRestores == ~editing =>
  /\ value = Undefined \/ value[1] = Stored(array, Default)[1]
  /\ cancelled => value = before

=============================================================================

--------------------------- MODULE MCConfigStore ---------------------------
(***************************************************************************)
(* Instances of ConfigStore: a key of each sort (static, plain, set by the *)
(* environment), one key that is not configuration and has to be escaped,  *)
(* and two values, the empty one and one that has to be escaped.  Besides  *)
(* three files written by hand, files with every short text as the value   *)
(* of the other key, on which one request is sent.                         *)
(***************************************************************************)
EXTENDS ConfigStore

CONSTANTS other, MaxExtraText

mem == <<"k">>
dyn == <<"n">>
dir == <<"u">>
extra == <<"=", "blank", "k">>
default == <<>>
changed == <<"blank", "\\">>

Keys == {mem, dyn, dir}
TwoKeys == {mem, dir}
StaticKeys == {dir}
PlainKeys == {dyn}
NoKeys == {}
ExtraKeys == {extra}
Values == {default, changed}

\* An empty file; a comment, an empty line, the key mem on two lines and the
\* other key; and the static key, without an end of line.
ByHand ==
  {<<>>,
   <<"#", "n", "nl",
     "nl",
     "blank", "k", "blank", "\\", "nl", "blank", "\\", "blank", "\\", "\\", "nl",
     "\\", "=", "\\", "blank", "k", "=", "blank", "v", "#", "nl">>,
   <<"u", "=", "\\", "blank", "\\", "\\">>}

ExtraTexts == UNION {[1 .. n -> Char] : n \in 1 .. MaxExtraText}

MCFiles == ByHand \cup {PropertiesText(extra :> t) : t \in ExtraTexts}

MCInit ==
  /\ Started /\ crashes = 0 /\ unremoved = {}
  /\ requests = IF inodes[1].text \in ByHand THEN 0 ELSE MaxRequests - 1

MCSpec == MCInit /\ [][ConfigNext]_configVars /\ \A c \in Client : WF_configVars(HandlerStep(c))
=============================================================================

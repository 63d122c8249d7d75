------------------------------ MODULE MCSatDialogue ------------------------------
(***************************************************************************)
(* Small instances of SatDialogue: which commands the cards send.          *)
(***************************************************************************)
EXTENDS SatDialogue

Kind(type, flags) == [type |-> type, flags |-> flags]

Plain == {Kind(type, {}) : type \in Types}
Coloured ==
    {Kind(type, {"colour"}) : type \in Types \ (UnqueuedTypes \cup {"REFRESH"})}
Shown == {Kind(type, {"long_text"}) : type \in TextConfirmed \cup TextShown}
Refused ==
    {Kind(type, {"bad_icon", "no_text"}) : type \in Types}
    \cup {Kind("SETUP_MENU", {"no_items"}), Kind("SETUP_MENU", {"blank_item"}),
          Kind("SETUP_CALL", {"timed"}), Kind("SETUP_CALL", {"subaddress"}),
          Kind("OPEN_CHANNEL", {"unknown_bearer"}),
          Kind("SETUP_EVENT_LIST", {"unmanaged"})}
Special ==
    {Kind("DISPLAY_TEXT", {"wait"}), Kind("DISPLAY_TEXT", {"immediate"}),
     Kind("GET_INKEY", {"yes_no"})}

\* Every row of the tables.
AllKinds == Plain \cup Coloured \cup Shown \cup Refused \cup Special

\* The kinds that some client's answer leads to a terminal response: not the text
\* that asks for an immediate response, nor the idle text whose screen asks for a
\* confirmation that has no handler.
SettledKinds ==
    (Plain \cup Shown \cup Special)
        \ {Kind("DISPLAY_TEXT", {"immediate"}),
           Kind("SETUP_IDLE_MODE_TEXT", {"long_text"})}

\* The kinds whose handlers report what they were told.
FaithfulKinds == {k \in AllKinds : k.type \in FaithfulTypes}

Browser == {Kind("LAUNCH_BROWSER", {})}

\* A command an application carries out, and one the user answers.
Signals == {Kind("SEND_SMS", {}), Kind("SELECT_ITEM", {})}
=============================================================================

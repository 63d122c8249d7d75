------------------------------ MODULE MCSatManager ------------------------------
(***************************************************************************)
(* Small instances of SatManager: which commands the cards send.           *)
(***************************************************************************)
EXTENDS SatManager

Kind(type, flags) == [type |-> type, flags |-> flags]

\* Commands that overtake each other: a menu that is answered at once, one that is
\* taken back, a text two clients are told of, a call that is queued again.
StaleKinds ==
    {Kind("SETUP_MENU", {}), Kind("SETUP_MENU", {"no_items"}),
     Kind("DISPLAY_TEXT", {}), Kind("SETUP_CALL", {"long_text"})}

\* Commands whose answer is lost or silent, and one that is queued again.
LostKinds ==
    {Kind("SETUP_IDLE_MODE_TEXT", {"long_text"}),
     Kind("DISPLAY_TEXT", {"immediate"}), Kind("PLAY_TONE", {"long_text"}),
     Kind("MORE_TIME", {})}

PlainCall == {Kind("SETUP_CALL", {})}
=============================================================================

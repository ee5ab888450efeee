--------------------------- MODULE MCChannelTable ---------------------------
(* Two settings of the controls, two pages, a form with and without the        *)
(* supplier as its only field.                                                 *)
EXTENDS ChannelTable
=============================================================================

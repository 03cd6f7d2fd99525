------------------------------- MODULE ScreenMC -------------------------------
(* Texts for Screen: a prompt of one character, and notes with a tab, a    *)
(* new line and a character in the last cell.                              *)
EXTENDS Screen

ThePrompt == <<62>>
TheNotes  == {<<107, TAB, 107, NEWLINE>>}
TheNumbers == {-100, 10}
===============================================================================

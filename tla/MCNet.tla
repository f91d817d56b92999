------------------------------- MODULE MCNet -------------------------------
(***************************************************************************)
(* Commands of one byte that are handled, asked or refused, of as many as  *)
(* the input buffer holds, and of more.                                    *)
(***************************************************************************)
EXTENDS Net

TwoClients == {5, 6}
OneClient == {5}
Second == {6}

MCCommandLength == [G |-> 1, pair |-> 2, fits |-> 3, long |-> 4, bad |-> 1]
AllCommands == DOMAIN MCCommandLength
MCRefused == {"bad"}
MCQueries == {"G"}
QueryOrBad == [G |-> 1, bad |-> 1]
GoodAndBad == DOMAIN QueryOrBad
None == {}

MCMessageLength == [frame |-> 2, setting |-> 1]
MCSnapshots == {"frame"}
MCSettings == <<"setting", "setting">>
OneSetting == <<"setting">>

=============================================================================

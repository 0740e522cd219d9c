------------------------------ MODULE MCNvram -------------------------------
(* The instance of Nvram for TLC. *)
EXTENDS Nvram

\* Bytes of one record, of half a record, and of one and a half and two records: the
\* first leaves the check number of the default as it is, the second and the third
\* fit the file when written twice, the last makes it too long.
MCPayloads == {<<200, 200>>, <<7>>, <<0, 7, 200>>, <<7, 0, 0, 0>>}
=============================================================================

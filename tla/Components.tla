----------------------------- MODULE Components -----------------------------
(***************************************************************************)
(* What components that share no state promise together: the files and     *)
(* pages that are sent, the data of a request that programs are given, and *)
(* the Lua states that several threads use.                                *)
(***************************************************************************)
EXTENDS StaticFile, Ssi, LspPage, Form, CgiEnv, CivetServer, LuaWebsockets, LuaShared

\* What a client gets for a file is the part of the file it asked for, in order and as long
\* as announced (handle_static_file_request, send_file_data), and for an SSI file its text,
\* with the included files in place of their tags (send_ssi_file).  A Lua page is written
\* and executed as it is divided by its tags (run_lsp_civetweb, lsp_kepler_reader).
FileSent == BodyInOrder /\ LengthSent /\ SsiInOrder /\ PageExact

\* What a handler or a CGI program is given of a request is what the client sent: fields of
\* forms byte for byte, through a buffer of any state (mg_handle_form_request), and all
\* variables of the environment, through a block that moves as it grows (addenv).  The form
\* data that the C++ wrapper keeps for a connection is never that of an earlier request or
\* client (CivetServer::getParam).
RequestData == FieldExact /\ EnvExact /\ CivetParams

\* Lua states that several threads use: a script's list of connections is exact whoever
\* joins, is rejected or leaves, and the shared state's stack is balanced after any access
\* (mod_lua.inl, mod_lua_shared.inl).  Pages that include each other release what they
\* opened, whatever fails (handle_lsp_request).
LuaStates == LuaConnsExact /\ SharedBalanced /\ PagesBalanced
=============================================================================

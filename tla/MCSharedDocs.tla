---------------------------- MODULE MCSharedDocs ----------------------------
(* Two clients that both edit, and three of which one does; one may leave; *)
(* with each of the handlers and channels of one place.                    *)
EXTENDS SharedDocs

CONSTANTS c1, c2, c3

SmallSettings ==
  [handler : {"handle_socket", "handle_socket_automerge_sync"},
   clients : {{c1, c2}}, editors : {{c1, c2}}, leavers : {{c1}}]
  \cup
  [handler : {"handle_socket", "handle_socket_automerge_sync"},
   clients : {{c1, c2, c3}}, editors : {{c1}}, leavers : {{c1}}]
=============================================================================

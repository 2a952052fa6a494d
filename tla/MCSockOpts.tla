----------------------------- MODULE MCSockOpts -----------------------------
(***************************************************************************)
(* SockOpts for TLC: the options given.                                    *)
(***************************************************************************)
EXTENDS SockOpts

\* Legal and illegal values of every option, within the fields' width
Small ==
    {<<"mode", "list">>, <<"mode", "binary">>, <<"ip", "v4">>, <<"ip", "v6">>,
     <<"ip", "bad">>, <<"port", 1>>, <<"family", "inet">>, <<"family", "inet6">>,
     <<"send_timeout", 0>>, <<"send_timeout", 2>>, <<"send_timeout", Infinity>>,
     <<"active", "false">>, <<"active", "once">>, <<"active", "true">>,
     <<"packet", Raw>>, <<"packet", 3>>, <<"packet", 4>>, <<"header", 0>>,
     <<"header", 2>>, <<"sndbuf", 0>>, <<"sndbuf", 1>>, <<"recbuf", 2>>}

\* A timeout that does not fit in the field
Long == {<<"send_timeout", 2>>, <<"send_timeout", 2 * Half>>, <<"active", "once">>}

\* Options that are set after the socket is open
Later == {<<"mode", "list">>, <<"mode", "binary">>, <<"header", 2>>, <<"active", "once">>}
=============================================================================

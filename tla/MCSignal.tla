------------------------------ MODULE MCSignal ------------------------------
(***************************************************************************)
(* Two tasks, SIGINT, SIGKILL and SIGALRM.  The programs register a        *)
(* handler of SIGINT with signal(), as those of the repository do:         *)
(* SIG_ONESHOT and SIG_NOMASK, and may renew it in the handler, so that    *)
(* handlers are nested.  SIGALRM has its default action.                   *)
(***************************************************************************)
EXTENDS Signal

Once(h) == [handler |-> h, mask |-> {}, nomask |-> TRUE, oneshot |-> TRUE]

MCSig == {SIGINT, SIGKILL, SIGALRM}
MCAction == {<<SIGINT, Once("FN")>>}
MCMask == {{}, {SIGINT, SIGKILL}}
MCWaits == {"sleep", "child", "disk"}
=============================================================================

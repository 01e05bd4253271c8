------------------------------ MODULE MCMembers ------------------------------
(***************************************************************************)
(* A member's permissions and a member's notifications, the two parts with *)
(* properties of the form "in the end", checked in one run.  They share no *)
(* state: every behaviour is one part's, which its first state chooses,    *)
(* and the other's variables keep the values in which nothing is enabled.  *)
(***************************************************************************)
EXTENDS Members, Notices

VARIABLE part   \* the part this behaviour is about

MCInit ==
    /\ MembersInit /\ NoticesInit
    /\ \/ part = "members" /\ settings = [m \in Users |-> Kinds]
       \/ part = "notices" /\ grants = [r \in Roles |-> {}] /\ held = {}

MCNext ==
    /\ UNCHANGED part
    /\ \/ part = "members" /\ MembersNext /\ UNCHANGED noticeVars
       \/ part = "notices" /\ NoticesNext /\ UNCHANGED memberVars

MCSpec ==
    /\ MCInit /\ [][MCNext]_<<part, memberVars, noticeVars>>
    /\ MembersFairness /\ NoticesFairness

(* The state of both parts is well typed. *)
MCTypeOK == MemberTypeOK /\ NoticesTypeOK
=============================================================================

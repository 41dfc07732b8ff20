------------------------ MODULE ConnectionPermissions ------------------------
(* What a connection may do: the permission policy of an API key, of a stdio   *)
(* server or of a member's session, the tools of MCP and the routes of REST    *)
(* with the capabilities each demands, and the instructions a refused caller   *)
(* is given to widen the policy.                                               *)
EXTENDS Naturals, FiniteSets

CONSTANTS AdminCaps,       \* administrative capabilities
          AllowChoices,    \* lists of --allow that are tried
          NoConnection, NoRefusal

MailCaps == {"mail.read", "mail.drafts", "mail.organize", "mail.trash", "mail.delete", "mail.send"}
Capabilities == MailCaps \cup AdminCaps

ASSUME PermissionConstants ==
    AdminCaps \cap MailCaps = {} /\ AllowChoices \subseteq SUBSET Capabilities

VARIABLES connection,    \* the stored policy, and how the connection was made
          holderRole,    \* role of the member it acts for
          refusal        \* missing capabilities that the last answer named

permissionVars == <<connection, holderRole, refusal>>

Profiles == {"read-only", "read-write", "full"}
ProfileCaps == [p \in Profiles |->
    CASE p = "read-only" -> {"mail.read"}
      [] p = "read-write" -> {"mail.read", "mail.drafts", "mail.organize", "mail.trash"}
      [] p = "full" -> MailCaps \ {"mail.delete"}]

NamedPolicy(profile, admin) ==
    [profile |-> profile, caps |-> ProfileCaps[profile] \cup admin, supplemental |-> admin]
CustomPolicy(caps) == [profile |-> "custom", caps |-> caps, supplemental |-> {}]

\* A row keeps the list of a custom policy, and only the additions to a named one.
StoredPolicy(policy) == [profile |-> policy.profile,
                         custom |-> IF policy.profile = "custom" THEN policy.caps ELSE {},
                         supplemental |-> policy.supplemental]
LoadedPolicy(row) == IF row.profile = "custom" THEN CustomPolicy(row.custom)
                     ELSE NamedPolicy(row.profile, row.supplemental)

Options == [profile : Profiles \cup {"none"}, allow : SUBSET Capabilities, admin : SUBSET AdminCaps]
Acceptable(o) == ~(o.profile = "none" /\ o.allow # {} /\ o.admin # {})
PolicyFromOptions(o) ==
    IF o.allow = {} THEN NamedPolicy(IF o.profile = "none" THEN "read-only" ELSE o.profile, o.admin)
    ELSE CustomPolicy(o.allow \cup IF o.profile = "none" THEN {}
                                   ELSE NamedPolicy(o.profile, o.admin).caps)
\* The options of an update: administrative ones alone keep the named profile.
Replaces(o) == o.profile # "none" \/ o.allow # {}
PolicyForUpdate(o, existing) ==
    IF Replaces(o) THEN PolicyFromOptions(o) ELSE NamedPolicy(existing.profile, o.admin)

(* permissionOptionsGranting: the smallest named profile that covers the mail *)
(* capabilities but permanent deletion, and the rest one by one.              *)
GrantingOptionsOnlyMissing(policy, missing) ==
    [profile |-> "none", allow |-> missing, admin |-> {}]
GrantingOptions(policy, missing) ==
    LET needed == policy.caps \cup missing
        covers(p) == (needed \cap MailCaps) \ {"mail.delete"} \subseteq ProfileCaps[p]
        profile == CHOOSE p \in Profiles :
                       covers(p) /\ \A q \in Profiles : covers(q) => ProfileCaps[p] \subseteq ProfileCaps[q]
    IN IF policy.profile = "custom" THEN [profile |-> "none", allow |-> needed, admin |-> {}]
       ELSE [profile |-> profile, allow |-> (needed \cap MailCaps) \ ProfileCaps[profile],
             admin |-> needed \cap AdminCaps]

-----------------------------------------------------------------------------
(* What the two interfaces demand. An ask says whether it replies to a message, *)
(* whether it names a draft, and the action of a modification.                   *)
Actions == {"markRead", "markUnread", "star", "unstar", "archive", "move", "addLabels", "removeLabels",
            "trash", "untrash", "delete"}
ModifyCapability(action) == CASE action \in {"trash", "untrash"} -> "mail.trash"
                              [] action = "delete" -> "mail.delete"
                              [] OTHER -> "mail.organize"
Ask(reply, draft, action) == [reply |-> reply, draft |-> draft, action |-> action]
Plain == Ask(FALSE, FALSE, "none")
Replying(ask) == IF ask.reply THEN {"mail.read"} ELSE {}

McpListing == {"list_accounts", "get_status", "list_folders", "list_labels", "list_send_as", "list_emails"}
McpSearching == {"search_emails", "search_emails_batch"}
McpReading == {"get_email", "get_email_body", "get_thread"}
McpFetching == {"list_scheduled_emails", "download_attachment"}
McpDrafting == {"get_draft", "create_draft", "update_draft", "delete_draft", "cancel_scheduled_email"}
McpSending == {"preview_send", "send_email", "get_delivery_operation"}
McpTools == McpListing \cup McpSearching \cup McpReading \cup McpFetching \cup McpDrafting \cup McpSending
            \cup {"forward_email", "modify_emails"}
McpNeeds(tool, ask) ==
    CASE tool \in McpDrafting -> {"mail.drafts"} \cup
                 IF tool \in {"create_draft", "update_draft"} THEN Replying(ask) ELSE {}
      [] tool \in McpSending -> {"mail.send"}
             \cup (IF tool = "preview_send" /\ ask.draft THEN {"mail.drafts"} ELSE {})
             \cup (IF tool = "get_delivery_operation" THEN {} ELSE Replying(ask))
      [] tool = "forward_email" -> {"mail.send", "mail.read"}
      [] tool = "modify_emails" -> {ModifyCapability(ask.action)}
      [] OTHER -> {"mail.read"}
\* Tools that a policy does not allow are not registered at all.
McpRegistered(policy, tool) ==
    IF tool = "modify_emails" THEN \E action \in Actions : ModifyCapability(action) \in policy.caps
    ELSE McpNeeds(tool, Plain) \subseteq policy.caps
McpUngated == {"get_status", "get_delivery_operation"}

\* The REST operation that does what a tool does.
RestListing == [list_accounts |-> "listAccounts", get_status |-> "getStatus", list_folders |-> "listFolders",
                list_labels |-> "listLabels", list_send_as |-> "listSendAs", list_emails |-> "listMessages"]
RestReading == [search_emails |-> "listMessages", search_emails_batch |-> "searchMessages",
                get_email |-> "getMessage", get_email_body |-> "getMessage", get_thread |-> "getThread"]
RestDrafting == [get_draft |-> "getDraft", create_draft |-> "createDraft", update_draft |-> "updateDraft",
                 delete_draft |-> "deleteDraft", preview_send |-> "previewSend"]
RestSending == [send_email |-> "sendMessage", get_delivery_operation |-> "getDeliveryOperation"]
RestScheduling == [list_scheduled_emails |-> "listScheduledSends",
                   cancel_scheduled_email |-> "cancelScheduledSend"]
RestHandling == [forward_email |-> "forwardMessage", modify_emails |-> "modifyMessages",
                 download_attachment |-> "downloadAttachment"]
RestTables == <<RestListing, RestReading, RestDrafting, RestSending, RestScheduling, RestHandling>>
Twin(tool) == LET i == CHOOSE i \in DOMAIN RestTables : tool \in DOMAIN RestTables[i] IN RestTables[i][tool]
RestNeedsForgetful(op, ask) ==
    CASE op \in {"getDraft", "createDraft", "updateDraft", "deleteDraft", "cancelScheduledSend"} -> {"mail.drafts"}
      [] op \in {"sendMessage", "getDeliveryOperation", "previewSend"} -> {"mail.send"}
      [] op = "forwardMessage" -> {"mail.send", "mail.read"}
      [] op = "modifyMessages" -> {ModifyCapability(ask.action)}
      [] OTHER -> {"mail.read"}
RestNeeds(op, ask) ==
    CASE op \in {"getDraft", "deleteDraft", "cancelScheduledSend"} -> {"mail.drafts"}
      [] op \in {"createDraft", "updateDraft"} -> {"mail.drafts"} \cup Replying(ask)
      [] op = "sendMessage" -> {"mail.send"} \cup Replying(ask)
      [] op = "getDeliveryOperation" -> {"mail.send"}
      [] op = "previewSend" -> {"mail.send"} \cup Replying(ask)
                                  \cup IF ask.draft THEN {"mail.drafts"} ELSE {}
      [] op = "forwardMessage" -> {"mail.send", "mail.read"}
      [] op = "modifyMessages" -> {ModifyCapability(ask.action)}
      [] OTHER -> {"mail.read"}
\* A body names a draft or a message to reply to, not both.
Asks(tool) == IF tool = "modify_emails" THEN {Ask(FALSE, FALSE, a) : a \in Actions}
              ELSE {Plain, Ask(TRUE, FALSE, "none"), Ask(FALSE, TRUE, "none")}

-----------------------------------------------------------------------------
Policy == LoadedPolicy(connection.row)
PermissionsTypeOK ==
    /\ connection # NoConnection =>
       /\ connection.kind \in {"api_key", "stdio", "session"}
       /\ connection.row.profile \in Profiles \cup {"custom"}
       /\ connection.row.custom \subseteq Capabilities /\ connection.row.supplemental \subseteq AdminCaps
       /\ (connection.row.profile = "custom") = (connection.row.custom # {})
    /\ holderRole \in {"admin", "member"}
    /\ refusal # NoRefusal => refusal # {} /\ refusal \subseteq Capabilities

PermissionsInit ==
    /\ connection = NoConnection /\ holderRole = "admin" /\ refusal = NoRefusal

Issuable(policy) == holderRole = "admin" \/ policy.caps \cap AdminCaps = {}

(* fluxmail apikey create and fluxmail stdio. A stdio server takes no --admin. *)
Connect(kind, o) ==
    /\ connection = NoConnection /\ Acceptable(o)
    /\ kind = "stdio" => o.admin = {} /\ o.allow \subseteq MailCaps
    /\ kind = "api_key" => Issuable(PolicyFromOptions(o))
    /\ kind = "session" => o = [profile |-> "none", allow |-> {}, admin |-> {}]
    /\ connection' = [kind |-> kind, row |-> StoredPolicy(PolicyFromOptions(o))]
    /\ UNCHANGED <<holderRole, refusal>>

(* fluxmail apikey permissions, or a restart of the stdio server: options     *)
(* replace what there was, so that an older refusal means nothing any more.   *)
Reconfigure(o) ==
    /\ connection # NoConnection /\ connection.kind # "session" /\ Acceptable(o)
    /\ connection.kind = "api_key" => Replaces(o) \/ (o.admin # {} /\ Policy.profile # "custom")
    /\ connection.kind = "stdio" => o.admin = {} /\ o.allow \subseteq MailCaps
    /\ LET policy == IF connection.kind = "stdio" THEN PolicyFromOptions(o) ELSE PolicyForUpdate(o, Policy)
       IN /\ connection.kind = "api_key" => Issuable(policy)
          /\ connection' = [connection EXCEPT !.row = StoredPolicy(policy)]
    /\ refusal' = NoRefusal /\ UNCHANGED holderRole

Disconnect ==
    /\ connection # NoConnection
    /\ connection' = NoConnection /\ refusal' = NoRefusal
    /\ UNCHANGED holderRole

ChangeRole ==
    /\ holderRole' = IF holderRole = "admin" THEN "member" ELSE "admin"
    /\ UNCHANGED <<connection, refusal>>

Refuse(missing) ==
    /\ refusal' = missing
    /\ UNCHANGED <<connection, holderRole>>

(* A tool call: the plan is asked first, then the capabilities; a refusal for  *)
(* being over the plan names none. The server's instructions name the          *)
(* capabilities whose tools are not there.                                     *)
CallTool(tool, ask, overPlan) ==
    /\ connection # NoConnection /\ connection.kind # "session"
    /\ IF McpRegistered(Policy, tool)
       THEN (overPlan => tool \in McpUngated) /\ ~(McpNeeds(tool, ask) \subseteq Policy.caps)
       ELSE TRUE
    /\ Refuse(IF McpRegistered(Policy, tool) THEN McpNeeds(tool, ask) \ Policy.caps
              ELSE {CHOOSE cap \in McpNeeds(tool, ask) : cap \notin Policy.caps})

(* A REST request asks the capabilities first; a session has them all. *)
CallRoute(op, ask) ==
    /\ connection # NoConnection /\ connection.kind = "api_key"
    /\ ~(RestNeeds(op, ask) \subseteq Policy.caps)
    /\ Refuse(RestNeeds(op, ask) \ Policy.caps)

(* An administrator, or whoever starts the stdio server, does what a refusal said. *)
FollowInstructions ==
    /\ refusal # NoRefusal
    /\ Reconfigure(GrantingOptions(Policy, refusal))

PermissionsNext ==
    \/ \E kind \in {"api_key", "stdio", "session"}, p \in Profiles \cup {"none"},
          a \in AllowChoices, s \in SUBSET AdminCaps :
          LET o == [profile |-> p, allow |-> a, admin |-> s] IN Connect(kind, o) \/ Reconfigure(o)
    \/ \E tool \in McpTools : \E ask \in Asks(tool) :
          CallRoute(Twin(tool), ask) \/ \E overPlan \in BOOLEAN : CallTool(tool, ask, overPlan)
    \/ Disconnect \/ ChangeRole \/ FollowInstructions

PermissionsSpec == PermissionsInit /\ [][PermissionsNext]_permissionVars

-----------------------------------------------------------------------------
(* What one interface allows a connection the other allows it too: a tool is  *)
(* there and lets an ask through exactly when the REST operation does.        *)
InterfacesAgree ==
    connection # NoConnection =>
    \A tool \in McpTools : \A ask \in Asks(tool) :
        (McpRegistered(Policy, tool) /\ McpNeeds(tool, ask) \subseteq Policy.caps)
            <=> RestNeeds(Twin(tool), ask) \subseteq Policy.caps

(* A connection that does as a refusal told it keeps what it had when it was  *)
(* refused, gets what it missed, and gets neither sending nor deleting nor    *)
(* administration on top.                                                     *)
InstructionsSuffice ==
    [][FollowInstructions =>
         LET asked == Policy.caps \cup refusal
         IN /\ asked \subseteq LoadedPolicy(connection'.row).caps
            /\ LoadedPolicy(connection'.row).caps \ asked
                   \subseteq MailCaps \ {"mail.send", "mail.delete"}]_permissionVars
=============================================================================

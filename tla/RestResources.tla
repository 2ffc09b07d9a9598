----------------------------- MODULE RestResources -----------------------------
(***************************************************************************)
(* The namespaces of RestClient: each resource is a function from its       *)
(* operations to the request they make, a method and a path. A path is a    *)
(* sequence; "id" stands for the id an operation is given.                  *)
(***************************************************************************)
EXTENDS Sequences, TLC

Get(p)    == <<"GET", p>>
Post(p)   == <<"POST", p>>
Put(p)    == <<"PUT", p>>
Patch(p)  == <<"PATCH", p>>
Delete(p) == <<"DELETE", p>>

Of(p, sub) == p \o <<"id", sub>>       \* a sub-collection of a member
Id(p)      == p \o <<"id">>            \* a member

-------------------------------------------------------------------------------
\* CrudResource
Crud(p) == [list |-> Get(p), create |-> Post(p), get |-> Get(Id(p)),
            update |-> Put(Id(p)), del |-> Delete(Id(p))]

Reads(p) == [list |-> Get(p), get |-> Get(Id(p))]
Deletes(p) == [delete_ |-> Delete(Id(p))]

\* The resources of the Twilio-compatible API update with POST.
Compat(p) == [update |-> Post(Id(p))] @@ Crud(p)

Media(p) == [list_media |-> Get(Of(p, "Media")), get_media |-> Get(Id(Of(p, "Media"))),
             delete_media |-> Delete(Id(Of(p, "Media")))]
-------------------------------------------------------------------------------
(* Fabric. *)

Resources == <<"fabric", "resources">>

FabricResource(kind) ==
  [list_addresses |-> Get(Of(Resources \o <<kind>>, "addresses"))]
    @@ Crud(Resources \o <<kind>>)

\* Fault: versions are deployed below the plural.
FabricCallFlowsPlural ==
  [list_versions |-> Get(Of(Resources \o <<"call_flow">>, "versions")),
   deploy_version |-> Post(Of(Resources \o <<"call_flows">>, "versions"))]
    @@ FabricResource("call_flows")

\* Sub-collections hang below the singular.
FabricCallFlows ==
  LET flow == Resources \o <<"call_flow">>
  IN  [list_addresses |-> Get(Of(flow, "addresses")),
       list_versions |-> Get(Of(flow, "versions")),
       deploy_version |-> Post(Of(flow, "versions"))] @@ FabricResource("call_flows")

FabricConferenceRooms ==
  [list_addresses |-> Get(Of(Resources \o <<"conference_room">>, "addresses"))]
    @@ FabricResource("conference_rooms")

FabricSubscribers ==
  LET endpoints == Of(Resources \o <<"subscribers">>, "sip_endpoints")
  IN  [list_sip_endpoints |-> Get(endpoints), create_sip_endpoint |-> Post(endpoints),
       get_sip_endpoint |-> Get(Id(endpoints)), update_sip_endpoint |-> Patch(Id(endpoints)),
       delete_sip_endpoint |-> Delete(Id(endpoints))] @@ FabricResource("subscribers")

\* create() throws without a request.
FabricCxmlApplications ==
  LET all == FabricResource("cxml_applications")
  IN  [op \in DOMAIN all \ {"create"} |-> all[op]]

FabricGenericResources ==
  [list_addresses |-> Get(Of(Resources, "addresses")),
   assign_domain_application |-> Post(Of(Resources, "domain_applications")),
   assign_phone_route |-> Post(Of(Resources, "phone_routes"))]
    @@ Reads(Resources) @@ Deletes(Resources)

FabricTokens ==
  [create_subscriber_token |-> Post(<<"fabric", "subscribers", "tokens">>),
   refresh_subscriber_token |-> Post(<<"fabric", "subscribers", "tokens", "refresh">>),
   create_invite_token |-> Post(<<"fabric", "subscriber", "invites">>),
   create_guest_token |-> Post(<<"fabric", "guests", "tokens">>),
   create_embed_token |-> Post(<<"fabric", "embeds", "tokens">>)]

FabricKinds == {"swml_scripts", "relay_applications", "freeswitch_connectors",
                "sip_endpoints", "cxml_scripts", "swml_webhooks", "ai_agents",
                "sip_gateways", "cxml_webhooks"}

FabricNamespace ==
  [k \in FabricKinds |-> FabricResource(k)] @@
  [k \in {"routing", "agents", "domains", "topics", "webhooks"} |-> Crud(<<"fabric", k>>)] @@
  [call_flows |-> FabricCallFlows, conference_rooms |-> FabricConferenceRooms,
   subscribers |-> FabricSubscribers, cxml_applications |-> FabricCxmlApplications,
   resources |-> FabricGenericResources, addresses |-> Reads(<<"fabric", "addresses">>),
   tokens |-> FabricTokens, conferences |-> Crud(Resources \o <<"conference_rooms">>)]
-------------------------------------------------------------------------------
(* Calling: the commands share one path; the older operations have their own. *)

CallPath == <<"calling", "calls">>

Commands ==
  {"dial", "update", "end", "transfer", "disconnect", "play", "play_pause",
   "play_resume", "play_stop", "play_volume", "record", "record_pause",
   "record_resume", "record_stop", "collect", "collect_stop",
   "collect_start_input_timers", "detect", "detect_stop", "tap", "tap_stop", "stream",
   "stream_stop", "denoise", "denoise_stop", "transcribe", "transcribe_stop",
   "ai_message", "ai_hold", "ai_unhold", "ai_stop", "live_transcribe",
   "live_translate", "send_fax_stop", "receive_fax_stop", "refer", "user_event"}

CallingNamespace ==
  [c \in Commands |-> Post(CallPath)] @@
  [c \in {"connect", "send_digits", "answer", "hangup", "hold", "unhold"} |->
     Post(Of(CallPath, c))] @@
  [list_calls |-> Get(CallPath), get_call |-> Get(Id(CallPath)),
   update_call |-> Put(Id(CallPath)), end_call |-> Delete(Id(CallPath))]
-------------------------------------------------------------------------------
Relay(kind) == <<"relay", "rest", kind>>

PhoneNumbersNamespace ==
  LET p == Relay("phone_numbers")
  IN  [search |-> Get(p \o <<"search">>), buy |-> Post(p \o <<"buy">>),
       release |-> Delete(Id(p))] @@ Crud(p)

DatasphereDocuments ==
  LET p == <<"datasphere", "documents">>
  IN  [search |-> Post(p \o <<"search">>), list_chunks |-> Get(Of(p, "chunks")),
       get_chunk |-> Get(Id(Of(p, "chunks"))),
       delete_chunk |-> Delete(Id(Of(p, "chunks")))] @@ Crud(p)
-------------------------------------------------------------------------------
(* Video. *)

Video(kind) == <<"video", kind>>

Streams(p) == [list_streams |-> Get(Of(p, "streams")),
               create_stream |-> Post(Of(p, "streams"))] @@ Crud(p)

VideoRoomSessions ==
  LET p == Video("room_sessions")
  IN  [list_events |-> Get(Of(p, "events")), list_members |-> Get(Of(p, "members")),
       list_recordings |-> Get(Of(p, "recordings"))] @@ Reads(p)

VideoRoomRecordings ==
  LET p == Video("room_recordings")
  IN  [list_events |-> Get(Of(p, "events"))] @@ Reads(p) @@ Deletes(p)

VideoConferences ==
  LET p == Video("conferences")
  IN  [list_conference_tokens |-> Get(Of(p, "conference_tokens"))] @@ Streams(p)

VideoNamespace ==
  [rooms |-> Streams(Video("rooms")),
   room_tokens |-> [create |-> Post(Video("room_tokens"))],
   room_sessions |-> VideoRoomSessions, room_recordings |-> VideoRoomRecordings,
   conferences |-> VideoConferences,
   conference_tokens |-> [get |-> Get(Id(Video("conference_tokens"))),
                          reset |-> Post(Of(Video("conference_tokens"), "reset"))],
   streams |-> [get |-> Get(Id(Video("streams"))), update |-> Put(Id(Video("streams")))]
                 @@ Deletes(Video("streams")),
   recordings |-> Crud(Video("room_recordings"))]
-------------------------------------------------------------------------------
(* The Twilio-compatible API. *)

Accounts == <<"laml", "Accounts">>
Account(kind) == Accounts \o <<"project", kind>>

CompatCalls ==
  LET p == Account("Calls")
  IN  [start_recording |-> Post(Of(p, "Recordings")),
       update_recording |-> Post(Id(Of(p, "Recordings"))),
       start_stream |-> Post(Of(p, "Streams")), stop_stream |-> Post(Id(Of(p, "Streams")))]
        @@ Compat(p)

CompatPhoneNumbers ==
  LET p == Account("IncomingPhoneNumbers")
      available == Account("AvailablePhoneNumbers")
  IN  [update |-> Post(Id(p)), purchase |-> Post(p),
       import_number |-> Post(Account("ImportedPhoneNumbers")),
       list_available_countries |-> Get(available),
       search_local |-> Get(Of(available, "Local")),
       search_toll_free |-> Get(Of(available, "TollFree"))] @@ Reads(p) @@ Deletes(p)

CompatConferences ==
  LET p == Account("Conferences")
      participants == Of(p, "Participants")
      recordings == Of(p, "Recordings")
  IN  [update |-> Post(Id(p)),
       list_participants |-> Get(participants), get_participant |-> Get(Id(participants)),
       update_participant |-> Post(Id(participants)),
       remove_participant |-> Delete(Id(participants)),
       list_recordings |-> Get(recordings), get_recording |-> Get(Id(recordings)),
       update_recording |-> Post(Id(recordings)),
       delete_recording |-> Delete(Id(recordings)),
       start_stream |-> Post(Of(p, "Streams")), stop_stream |-> Post(Id(Of(p, "Streams")))]
        @@ Reads(p)

CompatQueues ==
  LET members == Of(Account("Queues"), "Members")
  IN  [list_members |-> Get(members), get_member |-> Get(Id(members)),
       dequeue_member |-> Post(Id(members))] @@ Compat(Account("Queues"))

CompatNamespace ==
  [accounts |-> [create |-> Post(Accounts), update |-> Post(Id(Accounts))] @@ Reads(Accounts),
   calls |-> CompatCalls,
   messages |-> Media(Account("Messages")) @@ Compat(Account("Messages")),
   faxes |-> Media(Account("Faxes")) @@ Compat(Account("Faxes")),
   conferences |-> CompatConferences, phone_numbers |-> CompatPhoneNumbers,
   applications |-> Compat(Account("Applications")),
   laml_bins |-> Compat(Account("LamlBins")), queues |-> CompatQueues,
   recordings |-> Reads(Account("Recordings")) @@ Deletes(Account("Recordings")),
   transcriptions |-> Reads(Account("Transcriptions")) @@ Deletes(Account("Transcriptions")),
   tokens |-> [create |-> Post(Account("tokens")), update |-> Patch(Id(Account("tokens")))]
                @@ Deletes(Account("tokens")),
   \* the older ones, outside the project
   legacy |-> [create_call |-> Post(Accounts \o <<"calls">>),
               send_message |-> Post(Accounts \o <<"messages">>),
               list_calls |-> Get(Accounts \o <<"calls">>),
               list_messages |-> Get(Accounts \o <<"messages">>)]]
-------------------------------------------------------------------------------
(* The smaller namespaces. *)

QueuesNamespace ==
  LET members == Of(Relay("queues"), "members")
  IN  [list_members |-> Get(members), get_next_member |-> Get(members \o <<"next">>),
       get_member |-> Get(Id(members))] @@ Crud(Relay("queues"))

NumberGroupsNamespace ==
  LET memberships == Of(Relay("number_groups"), "number_group_memberships")
  IN  [list_memberships |-> Get(memberships), add_membership |-> Post(memberships),
       get_membership |-> Get(Id(Relay("number_group_memberships"))),
       delete_membership |-> Delete(Id(Relay("number_group_memberships")))]
        @@ Crud(Relay("number_groups"))

\* A single one, without an id.
SipProfileNamespace ==
  [get |-> Get(Relay("sip_profile")), update |-> Put(Relay("sip_profile"))]
    @@ Crud(Relay("sip_profile"))

\* create() goes to another path than the rest.
ImportedNumbersNamespace ==
  [create |-> Post(Relay("imported_phone_numbers"))] @@ Crud(Relay("imported_numbers"))

MFANamespace ==
  [sms |-> Post(Relay("mfa") \o <<"sms">>), call |-> Post(Relay("mfa") \o <<"call">>),
   verify |-> Post(Of(Relay("mfa"), "verify")),
   request_code |-> Post(<<"mfa", "request">>), verify_code |-> Post(<<"mfa", "verify">>)]

Beta(kind) == Relay("registry") \o <<"beta", kind>>

RegistryNamespace ==
  [brands |-> [create |-> Post(Beta("brands")),
               list_campaigns |-> Get(Of(Beta("brands"), "campaigns")),
               create_campaign |-> Post(Of(Beta("brands"), "campaigns"))]
                @@ Reads(Beta("brands")),
   campaigns |-> [get |-> Get(Id(Beta("campaigns"))), update |-> Put(Id(Beta("campaigns"))),
                  list_numbers |-> Get(Of(Beta("campaigns"), "numbers")),
                  list_orders |-> Get(Of(Beta("campaigns"), "orders")),
                  create_order |-> Post(Of(Beta("campaigns"), "orders"))],
   orders |-> [get |-> Get(Id(Beta("orders")))],
   numbers |-> Deletes(Beta("numbers"))]

LogsNamespace ==
  [messages |-> Reads(<<"messaging", "logs">>),
   voice |-> [list_events |-> Get(Of(<<"voice", "logs">>, "events"))]
               @@ Reads(<<"voice", "logs">>),
   fax |-> Reads(<<"fax", "logs">>),
   conferences |-> [list |-> Get(<<"logs", "conferences">>)]]

ProjectNamespace ==
  [tokens |-> [create |-> Post(<<"project", "tokens">>),
               update |-> Patch(Id(<<"project", "tokens">>))]
                @@ Deletes(<<"project", "tokens">>),
   project |-> [get_project |-> Get(Relay("project")),
                update_project |-> Put(Relay("project"))]]

Named(namespace) ==
  [n \in {<<namespace[1], k>> : k \in DOMAIN namespace[2]} |-> namespace[2][n[2]]]

\* Every resource a RestClient gives access to.
Namespaces ==
  Named(<<"fabric", FabricNamespace>>) @@ Named(<<"video", VideoNamespace>>) @@
  Named(<<"compat", CompatNamespace>>) @@ Named(<<"registry", RegistryNamespace>>) @@
  Named(<<"logs", LogsNamespace>>) @@ Named(<<"project", ProjectNamespace>>) @@
  Named(<<"rest", [calling |-> CallingNamespace, phone_numbers |-> PhoneNumbersNamespace,
      datasphere |-> DatasphereDocuments,
      addresses |-> Deletes(Relay("addresses")) @@ Crud(Relay("addresses")),
      queues |-> QueuesNamespace,
      recordings |-> Deletes(Relay("recordings")) @@ Crud(Relay("recordings")),
      number_groups |-> NumberGroupsNamespace,
      verified_callers |-> Crud(Relay("verified_callers")),
      sip_profile |-> SipProfileNamespace,
      lookup |-> [lookup |-> Get(Id(Relay("lookup")))],
      short_codes |-> Crud(Relay("short_codes")),
      imported_numbers |-> ImportedNumbersNamespace, mfa |-> MFANamespace,
      pubsub |-> [publish |-> Post(<<"pubsub", "publish">>)],
      chat |-> [send_message |-> Post(<<"chat", "messages">>),
                list_messages |-> Get(<<"chat", "messages">>)]]>>)
===============================================================================

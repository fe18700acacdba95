----------------------------- MODULE Providers -----------------------------
(***************************************************************************)
(* The alert providers of alerting/provider, one row each.  All of them    *)
(* have the same shape: a configuration (fields, those it must have, those *)
(* it checks the form of, those it fills in), overrides by group and by    *)
(* alert, and a Send that makes one or several requests.  A row names what *)
(* a provider does differently; the wording of its messages is left out.   *)
(*                                                                         *)
(*   fields      the fields of its Config, each merged by Merge            *)
(*   required    what Config.Validate refuses to miss                      *)
(*   shaped      what Config.Validate refuses when it is malformed         *)
(*   paired      fields given together or not at all                       *)
(*   defaulted   what Config.Validate fills in when it is not given        *)
(*   grouped     whether there are overrides by group                      *)
(*   unique      whether a second override of a group is refused           *)
(*   groupNeeds  what an override of a group must give                     *)
(*   groupShaped what is checked in an override of a group at load         *)
(*   service     what the requests of Send do at the service               *)
(*   decode      what Send makes of an answer it cannot decode             *)
(*   cached      the fields its cached client was built from               *)
(***************************************************************************)

Provider(fields, required) ==
    [fields |-> fields, required |-> required, shaped |-> {}, paired |-> {},
     defaulted |-> {}, grouped |-> TRUE, unique |-> TRUE, groupNeeds |-> {},
     groupShaped |-> {}, service |-> "message", decode |-> "none", cached |-> {}]

(***************************************************************************)
(* Chat: a message to a webhook or a room.                                 *)
(***************************************************************************)
Slack == Provider({"webhook-url", "title"}, {"webhook-url"})

Discord == [Provider({"webhook-url", "title", "message-content"}, {"webhook-url"})
              EXCEPT !.groupNeeds = {"webhook-url"}]

GoogleChat == [Provider({"webhook-url", "client"}, {"webhook-url"})
                 EXCEPT !.groupNeeds = {"webhook-url"}]

Mattermost == [Provider({"webhook-url", "channel", "client"}, {"webhook-url"})
                 EXCEPT !.groupNeeds = {"webhook-url"}]

RocketChat == Provider({"webhook-url", "channel"}, {"webhook-url"})

Teams == Provider({"webhook-url", "title", "client"}, {"webhook-url"})

TeamsWorkflows == Provider({"webhook-url", "title"}, {"webhook-url"})

Webex == Provider({"webhook-url"}, {"webhook-url"})

Matrix == [Provider({"server-url", "access-token", "internal-room-id"},
                    {"access-token", "internal-room-id"})
             EXCEPT !.defaulted = {"server-url"},
                    !.groupNeeds = {"access-token", "internal-room-id"}]

Zulip == LET fields == {"bot-email", "bot-api-key", "domain", "channel-id"}
         IN  Provider(fields, fields)

Telegram == [Provider({"token", "id", "topic-id", "api-url", "client"}, {"token", "id"})
               EXCEPT !.defaulted = {"api-url"}]

(***************************************************************************)
(* Push, mail and telephone: one message, or one for each recipient.       *)
(***************************************************************************)
Gotify == [Provider({"server-url", "token", "priority", "title"}, {"server-url", "token"})
             EXCEPT !.defaulted = {"priority"}, !.grouped = FALSE]

Ntfy == [Provider({"topic", "url", "priority", "token", "email", "click",
                   "disable-firebase", "disable-cache"}, {"topic"})
           EXCEPT !.shaped = {"priority", "token"}, !.groupShaped = {"priority", "token"},
                  !.defaulted = {"url", "priority"}]

Pushover == [Provider({"application-token", "user-key", "title", "priority",
                       "resolved-priority", "sound", "ttl", "device"},
                      {"application-token", "user-key"})
               EXCEPT !.shaped = {"application-token", "user-key", "priority",
                                  "resolved-priority", "device"},
                      !.grouped = FALSE]

AWSSES == [Provider({"access-key-id", "secret-access-key", "region", "from", "to"},
                    {"from", "to"})
             EXCEPT !.paired = {"access-key-id", "secret-access-key"},
                    !.groupNeeds = {"to"}]

Email == [Provider({"from", "username", "password", "host", "port", "to", "client"},
                   {"from", "to", "host", "port"})
            EXCEPT !.shaped = {"port"}, !.groupNeeds = {"to"}]

SendGrid == Provider({"api-key", "from", "to", "client"}, {"api-key", "from", "to"})

Messagebird == LET fields == {"access-key", "originator", "recipients"}
               IN  [Provider(fields, fields) EXCEPT !.grouped = FALSE]

Twilio == [Provider({"sid", "token", "from", "to", "text-twilio-triggered",
                     "text-twilio-resolved"}, {"sid", "token", "from", "to"})
             EXCEPT !.grouped = FALSE]

Line == LET fields == {"channel-access-token", "user-ids"}
        IN  [Provider(fields, fields) EXCEPT !.service = "recipients"]

Plivo == LET fields == {"auth-id", "auth-token", "from", "to"}
         IN  [Provider(fields, fields) EXCEPT !.service = "recipients"]

Signal == LET fields == {"api-url", "number", "recipients"}
          IN  [Provider(fields, fields) EXCEPT !.service = "recipients"]

Vonage == LET fields == {"api-key", "api-secret", "from", "to"}
          IN  [Provider(fields, fields) EXCEPT !.service = "recipients", !.decode = "fatal"]

(***************************************************************************)
(* Automation and logs: an event posted to a collector.                    *)
(***************************************************************************)
Custom == [Provider({"url", "method", "body", "headers", "placeholders", "client"}, {"url"})
             EXCEPT !.unique = FALSE]

Datadog == Provider({"api-key", "site", "tags"}, {"api-key"})

HomeAssistant == Provider({"url", "token"}, {"url", "token"})

IFTTT == Provider({"webhook-key", "event-name"}, {"webhook-key", "event-name"})

N8N == Provider({"webhook-url", "title"}, {"webhook-url"})

NewRelic == Provider({"insert-key", "account-id", "region"}, {"insert-key", "account-id"})

Splunk == Provider({"hec-url", "hec-token", "source", "sourcetype", "index"},
                   {"hec-url", "hec-token"})

Zapier == Provider({"webhook-url"}, {"webhook-url"})

(***************************************************************************)
(* Incidents: opened when the alert triggers, closed when it is resolved.  *)
(* The service knows them by the key of the endpoint, by a key it returns  *)
(* or by one made by Gatus; issues and tasks are searched for.             *)
(***************************************************************************)
Ilert == Provider({"integration-key"}, {"integration-key"})

Squadcast == [Provider({"webhook-url"}, {"webhook-url"}) EXCEPT !.service = "endpoint"]

SIGNL4 == [Provider({"team-secret"}, {"team-secret"}) EXCEPT !.service = "endpoint"]

Opsgenie == [Provider({"api-key", "priority", "source", "entity-prefix", "alias-prefix",
                       "tags"}, {"api-key"})
               EXCEPT !.defaulted = {"priority", "source", "entity-prefix", "alias-prefix"},
                      !.grouped = FALSE, !.service = "alias"]

PagerDuty == [Provider({"integration-key"}, {"integration-key"})
                EXCEPT !.shaped = {"integration-key"},
                       !.service = "returned", !.decode = "ignored"]

IncidentIO == [Provider({"url", "auth-token", "source-url", "metadata"}, {"url", "auth-token"})
                 EXCEPT !.shaped = {"url"}, !.service = "generated", !.decode = "fatal"]

GitLab == [Provider({"webhook-url", "authorization-key", "severity", "monitoring-tool",
                     "environment-name", "service"}, {"webhook-url", "authorization-key"})
             EXCEPT !.shaped = {"webhook-url"},
                    !.defaulted = {"severity", "monitoring-tool"},
                    !.grouped = FALSE, !.service = "generated"]

GitHub == [Provider({"repository-url", "token"}, {"repository-url", "token"})
             EXCEPT !.shaped = {"repository-url"}, !.grouped = FALSE,
                    !.service = "issues", !.cached = {"repository-url", "token"}]

Gitea == [Provider({"repository-url", "token", "assignees", "client"},
                   {"repository-url", "token"})
            EXCEPT !.shaped = {"repository-url"}, !.grouped = FALSE,
                   !.service = "issues", !.cached = {"repository-url", "token", "client"}]

ClickUp == [Provider({"api-url", "list-id", "token", "assignees", "status", "priority",
                      "notify-all", "name", "content"}, {"list-id", "token"})
              EXCEPT !.shaped = {"priority"},
                     !.defaulted = {"api-url", "priority", "notify-all", "name", "content"},
                     !.service = "tasks", !.decode = "fatal"]

(***************************************************************************)
(* The row of each alert type.                                             *)
(***************************************************************************)
AlertProviders ==
    [awsses |-> AWSSES, clickup |-> ClickUp, custom |-> Custom, datadog |-> Datadog,
     discord |-> Discord, email |-> Email, github |-> GitHub, gitlab |-> GitLab,
     gitea |-> Gitea, googlechat |-> GoogleChat, gotify |-> Gotify,
     homeassistant |-> HomeAssistant, ifttt |-> IFTTT, ilert |-> Ilert,
     incidentio |-> IncidentIO, line |-> Line, matrix |-> Matrix,
     mattermost |-> Mattermost, messagebird |-> Messagebird, n8n |-> N8N,
     newrelic |-> NewRelic, ntfy |-> Ntfy, opsgenie |-> Opsgenie,
     pagerduty |-> PagerDuty, plivo |-> Plivo, pushover |-> Pushover,
     rocketchat |-> RocketChat, sendgrid |-> SendGrid, signal |-> Signal,
     signl4 |-> SIGNL4, slack |-> Slack, splunk |-> Splunk, squadcast |-> Squadcast,
     teams |-> Teams, teamsworkflows |-> TeamsWorkflows, telegram |-> Telegram,
     twilio |-> Twilio, vonage |-> Vonage, webex |-> Webex, zapier |-> Zapier,
     zulip |-> Zulip]
=============================================================================

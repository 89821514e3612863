------------------------------ MODULE Clients ------------------------------
(* The OAuth clients, of which the authorization server keeps consents and  *)
(* tokens, and which authenticate at /oauth/token.                         *)

CONSTANTS
    Client,          \* client ids
    MetadataClient   \* the client ids that are URLs of metadata documents

ASSUME ClientsAssumption == MetadataClient \subseteq Client
=============================================================================

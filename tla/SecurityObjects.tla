-------------------------- MODULE SecurityObjects ---------------------------
(***************************************************************************)
(* The objects exchanged with or kept for the security service (owsec):    *)
(* for every class its members (RESTObjects/RESTAPI_SecurityObjects.h) and *)
(* its to_json and from_json (RESTObjects/RESTAPI_SecurityObjects.cpp).    *)
(* The classes without a table of members of their own (enumerations,      *)
(* helpers) are left out.                                                  *)
(***************************************************************************)
EXTENDS JsonCodec

AclTemplate == {"Read_", "ReadWrite_", "ReadWriteCreate_", "Delete_", "PortalLogin_"}
AclTemplate_json == Renaming(AclTemplate, {<<"Read", "Read_">>, <<"ReadWrite", "ReadWrite_">>,
    <<"ReadWriteCreate", "ReadWriteCreate_">>, <<"Delete", "Delete_">>,
    <<"PortalLogin", "PortalLogin_">>})

WebToken == {"access_token_", "refresh_token_", "id_token_", "token_type_", "username_",
    "userMustChangePassword", "errorCode", "expires_in_", "idle_timeout_", "acl_template_",
    "created_", "lastRefresh_"}
WebToken_json == NotRead(Omitting(Renaming(WebToken, {<<"access_token", "access_token_">>,
    <<"refresh_token", "refresh_token_">>, <<"token_type", "token_type_">>,
    <<"expires_in", "expires_in_">>, <<"idle_timeout", "idle_timeout_">>,
    <<"created", "created_">>, <<"username", "username_">>, <<"lastRefresh", "lastRefresh_">>,
    <<"aclTemplate", "acl_template_">>}), {"id_token_"}), {"errorCode"})

NoteInfo == {"created", "createdBy", "note"}
NoteInfo_json == Plain(NoteInfo)

MobilePhoneNumber == {"number", "verified", "primary"}
MobilePhoneNumber_json == Plain(MobilePhoneNumber)

MfaAuthInfo == {"enabled", "method"}
MfaAuthInfo_json == Plain(MfaAuthInfo)

UserLoginLoginExtensions == {"mobiles", "mfa", "authenticatorSecret"}
UserLoginLoginExtensions_json == Plain(UserLoginLoginExtensions)

MFAChallengeRequest == {"uuid", "question", "method", "created"}
MFAChallengeRequest_json == Plain(MFAChallengeRequest)

MFAChallengeResponse == {"uuid", "answer"}
MFAChallengeResponse_json == Plain(MFAChallengeResponse)

UserInfo == {"id", "name", "description", "avatar", "email", "validated", "validationEmail",
    "validationDate", "creationDate", "validationURI", "changePassword", "lastLogin",
    "currentLoginURI", "lastPasswordChange", "lastEmailCheck", "waitingForEmailCheck", "locale",
    "notes", "location", "owner", "createdBy", "suspended", "blackListed", "userRole",
    "userTypeProprietaryInfo", "securityPolicy", "securityPolicyChange", "currentPassword",
    "lastPasswords", "oauthType", "oauthUserInfo", "modified", "signingUp"}
UserInfo_json == Plain(UserInfo)

UserInfoList == {"users"}
UserInfoList_json == Plain(UserInfoList)

InternalServiceInfo == {"privateURI", "publicURI", "token"}
InternalServiceInfo_json == Plain(InternalServiceInfo)

InternalSystemServices == {"key", "version", "services"}
InternalSystemServices_json == Plain(InternalSystemServices)

SystemEndpoint == {"type", "id", "vendor", "uri", "authenticationType"}
SystemEndpoint_json == Plain(SystemEndpoint)

SystemEndpointList == {"endpoints"}
SystemEndpointList_json == Plain(SystemEndpointList)

UserInfoAndPolicy == {"webtoken", "userinfo"}
UserInfoAndPolicy_json == Renaming(UserInfoAndPolicy, {<<"tokenInfo", "webtoken">>,
    <<"userInfo", "userinfo">>})

ProfileAction == {"resource", "access"}
ProfileAction_json == Plain(ProfileAction)

SecurityProfile == {"id", "name", "description", "policy", "role", "notes"}
SecurityProfile_json == Plain(SecurityProfile)

SecurityProfileList == {"profiles"}
SecurityProfileList_json == Plain(SecurityProfileList)

ActionLink == {"id", "action", "userId", "actionTemplate", "variables", "locale", "message",
    "sent", "created", "expires", "completed", "canceled", "userAction"}
ActionLink_json == Plain(ActionLink)

Preferences == {"id", "modified", "data"}
Preferences_json == Plain(Preferences)

SubMfaConfig == {"id", "type", "sms", "email"}
SubMfaConfig_json == Plain(SubMfaConfig)

Token == {"token", "refreshToken", "tokenType", "userName", "created", "expires", "idleTimeout",
    "revocationDate", "lastRefresh"}
Token_json == Plain(Token)

LoginRecordInfo == {"sessionId", "userId", "email", "login", "logout"}
LoginRecordInfo_json == WriteOnly(Plain(LoginRecordInfo))

ApiKeyAccessRight == {"service", "access"}
ApiKeyAccessRight_json == Plain(ApiKeyAccessRight)

ApiKeyAccessRightList == {"acls"}
ApiKeyAccessRightList_json == Plain(ApiKeyAccessRightList)

ApiKeyEntry == {"id", "userUuid", "name", "description", "apiKey", "salt", "created",
    "expiresOn", "rights", "lastUse"}
ApiKeyEntry_json == Omitting(Plain(ApiKeyEntry), {"created"})

ApiKeyEntryList == {"apiKeys"}
ApiKeyEntryList_json == Plain(ApiKeyEntryList)

ExtraSystemConfiguration == {"parameterName", "parameterValue"}
ExtraSystemConfiguration_json == Plain(ExtraSystemConfiguration)

\* The classes by name.
Codecs == [AclTemplate |-> AclTemplate_json, WebToken |-> WebToken_json,
    NoteInfo |-> NoteInfo_json, MobilePhoneNumber |-> MobilePhoneNumber_json,
    MfaAuthInfo |-> MfaAuthInfo_json, UserLoginLoginExtensions |-> UserLoginLoginExtensions_json,
    MFAChallengeRequest |-> MFAChallengeRequest_json,
    MFAChallengeResponse |-> MFAChallengeResponse_json, UserInfo |-> UserInfo_json,
    UserInfoList |-> UserInfoList_json, InternalServiceInfo |-> InternalServiceInfo_json,
    InternalSystemServices |-> InternalSystemServices_json,
    SystemEndpoint |-> SystemEndpoint_json, SystemEndpointList |-> SystemEndpointList_json,
    UserInfoAndPolicy |-> UserInfoAndPolicy_json, ProfileAction |-> ProfileAction_json,
    SecurityProfile |-> SecurityProfile_json, SecurityProfileList |-> SecurityProfileList_json,
    ActionLink |-> ActionLink_json, Preferences |-> Preferences_json,
    SubMfaConfig |-> SubMfaConfig_json, Token |-> Token_json,
    LoginRecordInfo |-> LoginRecordInfo_json, ApiKeyAccessRight |-> ApiKeyAccessRight_json,
    ApiKeyAccessRightList |-> ApiKeyAccessRightList_json, ApiKeyEntry |-> ApiKeyEntry_json,
    ApiKeyEntryList |-> ApiKeyEntryList_json,
    ExtraSystemConfiguration |-> ExtraSystemConfiguration_json]
=============================================================================

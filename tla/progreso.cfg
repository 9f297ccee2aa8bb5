CONSTANTS
  MaxPid = 3
  RA = RA
  RB = RB
  Gen = Gen
  Nada = Nada
  Recursos = {RA, RB}
  Interfaces = {Gen}
  Scripts <- ScriptsOrdenados
  Instancias <- UnaInstancia
  Grado = 2
  Grados = {1, 3}
  Comandos = {"INICIAR_PROCESO", "INICIAR_PLANIFICACION", "DETENER_PLANIFICACION"}
  MaxComandos = 3
  MaxRetenidos = 4
SPECIFICATION SpecJusta
PROPERTIES TodosTerminan DetenerResponde
CHECK_DEADLOCK FALSE
